--------------------------- MODULE GPUArrayProofs ---------------------------
(* Proofs about GPUArray: type correctness and the coherence of the host   *)
(* and device copies, for any number of arrays, handles and elements.      *)
EXTENDS GPUArray, TLAPS

(* The length of a memory of n elements is n.                              *)
LEMMA MemoryLen ==
  ASSUME NEW n \in Nat, NEW s \in Memories(n)
  PROVE  Len(s) = n /\ s \in Seq(Values) /\ DOMAIN s = 1..n
BY DEF Memories

(* Every buffer is a sequence no longer than MaxN.                         *)
LEMMA BufferLen ==
  ASSUME NEW s \in Buffers
  PROVE  Len(s) \in 0..MaxN /\ s \in Memories(Len(s)) /\ DOMAIN s = 1..Len(s)
BY MemoryLen, GPUArrayAssumption DEF Buffers, Memories

(* The empty sequence, cleared memory, resized memory are buffers.         *)
LEMMA BufferIntro ==
  ASSUME NEW n \in 0..MaxN
  PROVE  /\ << >> \in Buffers /\ Len(<< >>) = 0
         /\ Memories(n) \subseteq Buffers
         /\ Cleared(n) \in Memories(n)
         /\ \A s \in Buffers : Resized(s, n) \in Memories(n)
<1>1. << >> \in Memories(0)
  BY DEF Memories
<1>2. 0 \in 0..MaxN
  BY GPUArrayAssumption
<1>3. << >> \in Buffers
  BY Zenon, <1>1, <1>2 DEF Buffers
<1>4. Cleared(n) \in Memories(n)
  BY Zenon, GPUArrayAssumption DEF Cleared, Memories
<1>5. ASSUME NEW s \in Buffers PROVE Resized(s, n) \in Memories(n)
  BY BufferLen, GPUArrayAssumption DEF Resized, Memories
<1>6. Memories(n) \subseteq Buffers
  BY DEF Buffers
<1> QED BY Zenon, <1>3, <1>4, <1>5, <1>6

(* acquire() of a null array: no data, so only the handle is new; it may   *)
(* coexist with the others because the client asked Compatible first.      *)
LEMMA AcquireNullInv ==
  ASSUME IInv, NEW h \in Handles, NEW acc \in Access, Compatible(acc), AcquireNull(h, acc)
  PROVE  IInv'
<1> USE DEF IInv
<1>1. TypeOK'
  BY Zenon, BufferLen, BufferIntro DEF TypeOK, AcquireNull, Dispatch, Compatible, Access
<1>2. DeviceSide'
  BY Zenon, BufferLen, BufferIntro DEF TypeOK, DeviceSide, AcquireNull, Dispatch, Compatible, Access
<1>3. CopiesAgree'
  BY Zenon, BufferLen, BufferIntro DEF TypeOK, DeviceSide, CopiesAgree, HandleLocation, isNull,
     AcquireNull, Dispatch, Compatible, Access
<1>4. HandleLocation'
  BY Zenon, BufferLen, BufferIntro DEF TypeOK, DeviceSide, HandleLocation, WritersAlone, isNull,
     AcquireNull, Dispatch, Compatible, Access
<1>5. WritersAlone'
  BY DEF TypeOK, WritersAlone, AcquireNull, Dispatch, Compatible, Access
<1>6. NullOnHost'
  BY DEF TypeOK, NullOnHost, isNull, AcquireNull
<1> QED BY <1>1, <1>2, <1>3, <1>4, <1>5, <1>6

(* acquire() on the host: a copy from the device is made exactly when the  *)
(* host memory is stale, so "hostdevice" is entered only with equal copies;*)
(* a writing mode leaves the host as the only valid memory, which no other *)
(* handle points to.                                                       *)
LEMMA AcquireHostInv ==
  ASSUME IInv, NEW h \in Handles, NEW acc \in Access, Compatible(acc), AcquireHost(h, acc)
  PROVE  IInv'
<1> USE DEF IInv
<1> DEFINE a == acc.array
<1>a. /\ a \in Arrays /\ acc.loc = "host" /\ ~isNull(a)
      /\ acc.mode \in {"read", "readwrite", "overwrite"}
      /\ live[h] = None
  BY DEF AcquireHost, Access
<1>b. /\ \A x \in Arrays \ {a} : /\ m_data_location'[x] = m_data_location[x]
                                /\ h_data'[x] = h_data[x] /\ d_data'[x] = d_data[x]
      /\ m_data_location'[a] = LocationAfter(m_data_location[a], "host", acc.mode)
      /\ h_data'[a] = IF Copies(a, "host", acc.mode) THEN d_data[a] ELSE h_data[a]
      /\ UNCHANGED <<m_exec, d_data>>
  BY Zenon, <1>a DEF TypeOK, AcquireHost
<1>c. /\ live'[h] = acc
      /\ \A g \in Handles \ {h} : live'[g] = live[g]
  BY DEF TypeOK, AcquireHost, Dispatch
<1>l. \A x \in Arrays : Len(h_data'[x]) = Len(h_data[x])
  BY <1>a, <1>b DEF DeviceSide, Copies
<1>1. TypeOK'
  BY DEF TypeOK, AcquireHost, Dispatch, Access, Copies, LocationAfter
<1>2. DeviceSide'
  BY <1>a, <1>b DEF TypeOK, DeviceSide, Copies, LocationAfter, Executions
<1>3. CopiesAgree'
  <2> SUFFICES ASSUME NEW x \in Arrays, m_data_location'[x] = "hostdevice"
               PROVE  h_data'[x] = d_data'[x]
    BY DEF CopiesAgree
  <2>1. CASE x = a
    BY Zenon, <2>1, <1>a, <1>b DEF TypeOK, CopiesAgree, DeviceSide, Copies, LocationAfter
  <2>2. CASE x # a
    BY Zenon, <2>2, <1>b DEF CopiesAgree
  <2> QED BY Zenon, <2>1, <2>2
<1>4. HandleLocation'
  <2> SUFFICES ASSUME NEW g \in Handles, live'[g] # None, Len(h_data'[live'[g].array]) # 0
               PROVE  /\ live'[g].loc = "device" => m_exec'[live'[g].array] # "cpu"
                      /\ \/ m_data_location'[live'[g].array] = live'[g].loc
                         \/ /\ m_data_location'[live'[g].array] = "hostdevice"
                            /\ live'[g].mode = "read"
    BY Zenon DEF HandleLocation, isNull
  <2>1. CASE g = h
    BY Zenon, <2>1, <1>a, <1>b, <1>c DEF TypeOK, LocationAfter
  <2>2. CASE g # h /\ live[g].array # a
    <3>1. live[g].array \in Arrays /\ live'[g] = live[g]
      BY <2>2, <1>c, GPUArrayAssumption DEF TypeOK, Access
    <3> QED BY <3>1, <2>2, <1>b, <1>l DEF HandleLocation, isNull
  <2>3. CASE g # h /\ live[g].array = a
    <3>1. live[g] # None /\ live[g].mode = "read" /\ acc.mode = "read" /\ live'[g] = live[g]
      BY Zenon, <2>3, <1>c DEF Compatible
    <3>2. live[g].loc \in {"host", "device"}
      BY <3>1, GPUArrayAssumption DEF TypeOK, Access
    <3> QED BY <3>1, <3>2, <2>3, <1>a, <1>b, <1>l DEF HandleLocation, LocationAfter, isNull
  <2> QED BY Zenon, <2>1, <2>2, <2>3
<1>5. WritersAlone'
  BY Zenon DEF TypeOK, WritersAlone, AcquireHost, Dispatch, Compatible, Access
<1>6. NullOnHost'
  BY Zenon, <1>a, <1>b, <1>l DEF NullOnHost, isNull
<1> QED BY Zenon, <1>1, <1>2, <1>3, <1>4, <1>5, <1>6

(* acquire() on the device: the mirror image of AcquireHostInv, for arrays *)
(* that have a GPU.                                                        *)
LEMMA AcquireDeviceInv ==
  ASSUME IInv, NEW h \in Handles, NEW acc \in Access, Compatible(acc), AcquireDevice(h, acc)
  PROVE  IInv'
<1> USE DEF IInv
<1> DEFINE a == acc.array
<1>a. /\ a \in Arrays /\ acc.loc = "device" /\ ~isNull(a) /\ m_exec[a] # "cpu"
      /\ acc.mode \in {"read", "readwrite", "overwrite"}
      /\ live[h] = None
  BY DEF AcquireDevice, Access
<1>b. /\ \A x \in Arrays \ {a} : /\ m_data_location'[x] = m_data_location[x]
                                /\ h_data'[x] = h_data[x] /\ d_data'[x] = d_data[x]
      /\ m_data_location'[a] = LocationAfter(m_data_location[a], "device", acc.mode)
      /\ d_data'[a] = IF Copies(a, "device", acc.mode) THEN h_data[a] ELSE d_data[a]
      /\ UNCHANGED <<m_exec, h_data>>
  BY <1>a DEF TypeOK, AcquireDevice
<1>c. /\ live'[h] = acc
      /\ \A g \in Handles \ {h} : live'[g] = live[g]
  BY Zenon DEF TypeOK, AcquireDevice, Dispatch
<1>l. \A x \in Arrays : Len(h_data'[x]) = Len(h_data[x])
  BY Zenon, <1>a, <1>b DEF DeviceSide, Copies
<1>1. TypeOK'
  BY Zenon DEF TypeOK, AcquireDevice, Dispatch, Access, Copies, LocationAfter
<1>2. DeviceSide'
  BY <1>a, <1>b DEF TypeOK, DeviceSide, Copies, LocationAfter, Executions
<1>3. CopiesAgree'
  <2> SUFFICES ASSUME NEW x \in Arrays, m_data_location'[x] = "hostdevice"
               PROVE  h_data'[x] = d_data'[x]
    BY DEF CopiesAgree
  <2>1. CASE x = a
    BY Zenon, <2>1, <1>a, <1>b DEF TypeOK, CopiesAgree, DeviceSide, Copies, LocationAfter
  <2>2. CASE x # a
    BY Zenon, <2>2, <1>b DEF CopiesAgree
  <2> QED BY Zenon, <2>1, <2>2
<1>4. HandleLocation'
  <2> SUFFICES ASSUME NEW g \in Handles, live'[g] # None, Len(h_data'[live'[g].array]) # 0
               PROVE  /\ live'[g].loc = "device" => m_exec'[live'[g].array] # "cpu"
                      /\ \/ m_data_location'[live'[g].array] = live'[g].loc
                         \/ /\ m_data_location'[live'[g].array] = "hostdevice"
                            /\ live'[g].mode = "read"
    BY Zenon DEF HandleLocation, isNull
  <2>1. CASE g = h
    BY Zenon, <2>1, <1>a, <1>b, <1>c DEF TypeOK, LocationAfter
  <2>2. CASE g # h /\ live[g].array # a
    <3>1. live[g].array \in Arrays /\ live'[g] = live[g]
      BY <2>2, <1>c, GPUArrayAssumption DEF TypeOK, Access
    <3> QED BY <3>1, <2>2, <1>b, <1>l DEF HandleLocation, isNull
  <2>3. CASE g # h /\ live[g].array = a
    <3>1. live[g] # None /\ live[g].mode = "read" /\ acc.mode = "read" /\ live'[g] = live[g]
      BY <2>3, <1>c DEF Compatible
    <3>2. live[g].loc \in {"host", "device"}
      BY Zenon, <3>1, GPUArrayAssumption DEF TypeOK, Access
    <3> QED BY <3>1, <3>2, <2>3, <1>a, <1>b, <1>l DEF HandleLocation, LocationAfter, isNull
  <2> QED BY Zenon, <2>1, <2>2, <2>3
<1>5. WritersAlone'
  BY Zenon DEF TypeOK, WritersAlone, AcquireDevice, Dispatch, Compatible, Access
<1>6. NullOnHost'
  BY Zenon, <1>a, <1>b, <1>l DEF NullOnHost, isNull
<1> QED BY <1>1, <1>2, <1>3, <1>4, <1>5, <1>6

(* acquire() that throws changes m_acquired only.                          *)
LEMMA AcquireThrowsInv ==
  ASSUME IInv, NEW acc \in Access, AcquireThrows(acc)
  PROVE  IInv'
<1> USE DEF IInv
<1>1. TypeOK'
  BY Zenon, BufferLen, BufferIntro DEF TypeOK, AcquireThrows, Access
<1>2. DeviceSide'
  BY BufferLen, BufferIntro DEF TypeOK, DeviceSide, AcquireThrows, Access
<1>3. CopiesAgree'
  BY BufferLen, BufferIntro
     DEF TypeOK, DeviceSide, CopiesAgree, HandleLocation, isNull, AcquireThrows, Access
<1>4. HandleLocation'
  BY Zenon, BufferLen, BufferIntro
     DEF TypeOK, DeviceSide, HandleLocation, WritersAlone, isNull, AcquireThrows, Access
<1>5. WritersAlone'
  BY DEF TypeOK, WritersAlone, AcquireThrows, Access
<1>6. NullOnHost'
  BY DEF NullOnHost, isNull, AcquireThrows
<1> QED BY <1>1, <1>2, <1>3, <1>4, <1>5, <1>6

(* A read through a handle delivers an element of a buffer.                *)
LEMMA ReadInv ==
  ASSUME IInv, NEW h \in Handles, NEW i \in 1..MaxN, Read(h, i)
  PROVE  IInv'
<1>1. lastRead' \in Values
  <2>1. live[h].array \in Arrays
    BY DEF IInv, TypeOK, Read, Access
  <2>2. Memory(live[h].loc, live[h].array) \in Buffers
    BY <2>1 DEF IInv, TypeOK, Memory
  <2> QED BY <2>2, BufferLen DEF Read, Memories
<1> QED BY <1>1 DEF IInv, TypeOK, DeviceSide, CopiesAgree, HandleLocation, WritersAlone, NullOnHost, isNull, Read

(* A write through a handle: HandleLocation says that its memory is the    *)
(* only valid one, so no valid copy goes stale.                            *)
LEMMA WriteInv ==
  ASSUME IInv, NEW h \in Handles, NEW i \in 1..MaxN, NEW v \in Values, Write(h, i, v)
  PROVE  IInv'
<1> USE DEF IInv
<1> DEFINE a == live[h].array
           Put(s) == [s EXCEPT ![i] = v]
<1>a. live[h] \in Access /\ a \in Arrays /\ live[h].mode # "read"
  BY Zenon DEF TypeOK, Write, Access
<1>n. ~isNull(a)
  BY <1>a, BufferLen DEF TypeOK, DeviceSide, Write, Memory, isNull, Executions
<1>b. \A s \in Buffers : Put(s) \in Buffers /\ Len(Put(s)) = Len(s)
  <2> TAKE s \in Buffers
  <2>1. s \in Memories(Len(s)) /\ Len(s) \in 0..MaxN
    BY Zenon, BufferLen
  <2>2. Put(s) \in Memories(Len(s))
    BY Zenon, <2>1 DEF Memories
  <2> QED BY <2>1, <2>2, MemoryLen, GPUArrayAssumption DEF Buffers
<1>c. /\ h_data' = IF live[h].loc = "host" \/ m_exec[a] = "mapped"
                     THEN [h_data EXCEPT ![a] = Put(@)] ELSE h_data
      /\ d_data' = IF live[h].loc = "device" \/ m_exec[a] = "mapped"
                     THEN [d_data EXCEPT ![a] = Put(@)] ELSE d_data
      /\ UNCHANGED <<m_exec, m_data_location, m_acquired, m_pitch, live, lastRead>>
  BY DEF Write
<1>d. live[h].loc = "device" => m_exec[a] # "cpu"
  BY Zenon, <1>a, <1>n DEF HandleLocation, Write
<1>e. m_data_location[a] = live[h].loc
  BY Zenon, <1>a, <1>n DEF HandleLocation, Write
<1>f. a \in Arrays /\ live[h].loc \in {"host", "device"}
  BY Zenon, <1>a DEF Access
<1> HIDE DEF Put, a
<1>1. TypeOK'
  BY <1>b, <1>c, <1>f DEF TypeOK
<1>2. DeviceSide'
  BY <1>b, <1>c, <1>d, <1>f DEF TypeOK, DeviceSide
<1>3. CopiesAgree'
  BY <1>c, <1>e, <1>f DEF TypeOK, CopiesAgree
<1>4. HandleLocation'
  <2>1. \A x \in Arrays : Len(h_data'[x]) = Len(h_data[x])
    BY <1>b, <1>c, <1>f DEF TypeOK
  <2>2. \A g \in Handles : live[g] # None => live[g].array \in Arrays
    BY DEF TypeOK, Access
  <2> QED BY Zenon, <2>1, <2>2, <1>c DEF HandleLocation, isNull
<1>5. WritersAlone'
  BY <1>c DEF WritersAlone
<1>6. NullOnHost'
  BY Zenon, <1>b, <1>c, <1>f DEF TypeOK, NullOnHost, isNull
<1> QED BY <1>1, <1>2, <1>3, <1>4, <1>5, <1>6

(* The destruction of a handle leaves the arrays alone.                    *)
LEMMA ReleaseInv ==
  ASSUME IInv, NEW h \in Handles, Release(h)
  PROVE  IInv'
<1> USE DEF IInv
<1>1. TypeOK'
  BY Zenon, BufferLen, BufferIntro DEF TypeOK, Release, Access
<1>2. DeviceSide'
  BY Zenon, BufferLen, BufferIntro DEF TypeOK, DeviceSide, Release, Access
<1>3. CopiesAgree'
  BY Zenon, BufferLen, BufferIntro
     DEF TypeOK, DeviceSide, CopiesAgree, HandleLocation, isNull, Release, Access
<1>4. HandleLocation'
  BY Zenon, BufferLen, BufferIntro
     DEF TypeOK, DeviceSide, HandleLocation, WritersAlone, isNull, Release, Access
<1>5. WritersAlone'
  BY Zenon DEF TypeOK, WritersAlone, Release, Access
<1>6. NullOnHost'
  BY DEF NullOnHost, isNull, Release
<1> QED BY <1>1, <1>2, <1>3, <1>4, <1>5, <1>6

(* resize() treats both memories alike, so equal copies stay equal.        *)
LEMMA resizeInv ==
  ASSUME IInv, NEW a \in Arrays, NEW n \in 1..MaxN, resize(a, n)
  PROVE  IInv'
<1> USE DEF IInv
<1> DEFINE hm == Resized(h_data[a], n)
           dm == DeviceMemory(m_exec[a], hm, Resized(d_data[a], n))
<1>a. Idle(a) /\ n \in 0..MaxN
  BY GPUArrayAssumption DEF resize
<1>b. /\ h_data' = [h_data EXCEPT ![a] = hm]
      /\ d_data' = [d_data EXCEPT ![a] = dm]
      /\ m_pitch' = [m_pitch EXCEPT ![a] = n]
      /\ UNCHANGED <<m_exec, m_data_location, m_acquired, live, lastRead>>
  BY DEF resize
<1>c. /\ hm \in Memories(n) /\ Len(hm) = n
      /\ Resized(d_data[a], n) \in Memories(n) /\ Len(Resized(d_data[a], n)) = n
      /\ Memories(n) \subseteq Buffers /\ << >> \in Buffers
  BY <1>a, BufferIntro, MemoryLen DEF TypeOK
<1>d. /\ dm \in Buffers
      /\ m_exec[a] = "cpu" => dm = << >>
      /\ m_exec[a] = "mapped" => dm = hm
      /\ m_exec[a] # "cpu" => Len(dm) = Len(hm)
      /\ h_data[a] = d_data[a] /\ m_exec[a] # "cpu" => hm = dm
  BY Zenon, <1>c DEF DeviceMemory, TypeOK, Executions
<1> HIDE DEF hm, dm
<1>1. TypeOK'
  BY Zenon, <1>a, <1>b, <1>c, <1>d DEF TypeOK
<1>2. DeviceSide'
  BY Zenon, <1>b, <1>d DEF TypeOK, DeviceSide
<1>3. CopiesAgree'
  BY Zenon, <1>b, <1>d DEF TypeOK, DeviceSide, CopiesAgree
<1>4. HandleLocation'
  <2> SUFFICES ASSUME NEW g \in Handles, live[g] # None, ~isNull(live[g].array)'
               PROVE  /\ live[g].loc = "device" => m_exec'[live[g].array] # "cpu"
                      /\ \/ m_data_location'[live[g].array] = live[g].loc
                         \/ /\ m_data_location'[live[g].array] = "hostdevice"
                            /\ live[g].mode = "read"
    BY Zenon, <1>b DEF HandleLocation
  <2>1. live[g].array \in Arrays \ {a}
    BY Zenon, <1>a DEF TypeOK, Access, Idle
  <2> QED BY Zenon, <2>1, <1>b DEF TypeOK, HandleLocation, isNull
<1>5. WritersAlone'
  BY Zenon, <1>b DEF WritersAlone
<1>6. NullOnHost'
  BY <1>a, <1>b, <1>c DEF TypeOK, NullOnHost, isNull, resize
<1> QED BY Zenon, <1>1, <1>2, <1>3, <1>4, <1>5, <1>6

(* resize() of a null array: NullOnHost says the data counts as being on   *)
(* the host, so that the uninitialised device memory is not taken as valid.*)
LEMMA resizeNullInv ==
  ASSUME IInv, NEW a \in Arrays, NEW n \in 1..MaxN, resizeNull(a, n)
  PROVE  IInv'
<1> USE DEF IInv
<1>a. Idle(a) /\ n \in 0..MaxN
  BY GPUArrayAssumption DEF resizeNull
<1>0. PICK hm \in Memories(n), dn \in Memories(n) :
        /\ h_data' = [h_data EXCEPT ![a] = hm]
        /\ d_data' = [d_data EXCEPT ![a] = DeviceMemory(m_exec[a], hm, dn)]
  BY Zenon DEF resizeNull
<1> DEFINE dm == DeviceMemory(m_exec[a], hm, dn)
<1>b. /\ h_data' = [h_data EXCEPT ![a] = hm]
      /\ d_data' = [d_data EXCEPT ![a] = dm]
      /\ UNCHANGED <<m_exec, m_data_location, m_acquired, m_pitch, live, lastRead>>
  BY Zenon, <1>0 DEF resizeNull
<1>c. /\ Len(hm) = n /\ Len(dn) = n
      /\ Memories(n) \subseteq Buffers /\ << >> \in Buffers
  BY <1>a, BufferIntro, MemoryLen
<1>d. /\ dm \in Buffers
      /\ m_exec[a] = "cpu" => dm = << >>
      /\ m_exec[a] = "mapped" => dm = hm
      /\ m_exec[a] # "cpu" => Len(dm) = Len(hm)
  BY <1>c DEF DeviceMemory, TypeOK, Executions
<1>e. m_data_location[a] = "host"
  BY DEF NullOnHost, resizeNull
<1> HIDE DEF dm
<1>1. TypeOK'
  BY Zenon, <1>a, <1>b, <1>c, <1>d DEF TypeOK
<1>2. DeviceSide'
  BY Zenon, <1>b, <1>d DEF TypeOK, DeviceSide
<1>3. CopiesAgree'
  BY Zenon, <1>b, <1>e DEF TypeOK, CopiesAgree
<1>4. HandleLocation'
  <2> SUFFICES ASSUME NEW g \in Handles, live[g] # None, ~isNull(live[g].array)'
               PROVE  /\ live[g].loc = "device" => m_exec'[live[g].array] # "cpu"
                      /\ \/ m_data_location'[live[g].array] = live[g].loc
                         \/ /\ m_data_location'[live[g].array] = "hostdevice"
                            /\ live[g].mode = "read"
    BY Zenon, <1>b DEF HandleLocation
  <2>1. live[g].array \in Arrays \ {a}
    BY Zenon, <1>a DEF TypeOK, Access, Idle
  <2> QED BY Zenon, <2>1, <1>b DEF TypeOK, HandleLocation, isNull
<1>5. WritersAlone'
  BY Zenon, <1>b DEF WritersAlone
<1>6. NullOnHost'
  BY Zenon, <1>b, <1>e DEF TypeOK, NullOnHost, isNull
<1> QED BY Zenon, <1>1, <1>2, <1>3, <1>4, <1>5, <1>6

(* operator= restarts the copy on the host; the source, read on the host,  *)
(* may become valid in both memories, and then they are equal.             *)
LEMMA assignInv ==
  ASSUME IInv, NEW a \in Arrays, NEW b \in Arrays, assign(a, b)
  PROVE  IInv'
<1> USE DEF IInv
<1> DEFINE src == IF ~isNull(b) /\ Copies(b, "host", "read") THEN d_data[b] ELSE h_data[b]
           dm == DeviceMemory(m_exec[b], src, Cleared(Len(src)))
<1>a. Idle(a) /\ Idle(b) /\ a # b
  BY DEF assign
<1>b. /\ h_data' = [h_data EXCEPT ![a] = src, ![b] = src]
      /\ d_data' = [d_data EXCEPT ![a] = dm]
      /\ m_data_location' =
           [m_data_location EXCEPT ![a] = "host",
              ![b] = IF isNull(b) THEN @ ELSE LocationAfter(@, "host", "read")]
      /\ m_pitch' = [m_pitch EXCEPT ![a] = m_pitch[b]]
      /\ m_exec' = [m_exec EXCEPT ![a] = m_exec[b]]
      /\ UNCHANGED <<m_acquired, live, lastRead>>
  BY Zenon DEF assign
<1>c. /\ src \in Buffers /\ Len(src) = Len(h_data[b]) /\ Len(src) \in 0..MaxN
      /\ Cleared(Len(src)) \in Buffers /\ Len(Cleared(Len(src))) = Len(src)
      /\ << >> \in Buffers
  <2>1. src \in Buffers /\ Len(src) = Len(h_data[b])
    BY Zenon DEF TypeOK, DeviceSide, Copies, Executions
  <2> QED BY <2>1, BufferLen, BufferIntro, MemoryLen
<1>d. /\ dm \in Buffers
      /\ m_exec[b] = "cpu" => dm = << >>
      /\ m_exec[b] = "mapped" => dm = src
      /\ m_exec[b] # "cpu" => Len(dm) = Len(src)
  BY Zenon, <1>c DEF DeviceMemory, TypeOK, Executions
<1>e. /\ m_exec[b] = "mapped" => src = d_data[b]
      /\ LocationAfter(m_data_location[b], "host", "read") = "hostdevice" /\ ~isNull(b)
           => src = d_data[b]
      /\ m_exec[b] = "cpu" => LocationAfter(m_data_location[b], "host", "read") = "host"
      /\ isNull(b) => m_data_location[b] = "host"
      /\ LocationAfter(m_data_location[b], "host", "read") \in {"host", "hostdevice"}
  BY Zenon DEF TypeOK, DeviceSide, CopiesAgree, LocationAfter, Copies, NullOnHost
<1> HIDE DEF src, dm
<1>1. TypeOK'
  BY Zenon, <1>b, <1>c, <1>d, <1>e DEF TypeOK
<1>2. DeviceSide'
  BY ZenonT(30), <1>a, <1>b, <1>c, <1>d, <1>e DEF TypeOK, DeviceSide
<1>3. CopiesAgree'
  BY <1>a, <1>b, <1>e DEF TypeOK, CopiesAgree
<1>4. HandleLocation'
  <2> SUFFICES ASSUME NEW g \in Handles, live[g] # None, ~isNull(live[g].array)'
               PROVE  /\ live[g].loc = "device" => m_exec'[live[g].array] # "cpu"
                      /\ \/ m_data_location'[live[g].array] = live[g].loc
                         \/ /\ m_data_location'[live[g].array] = "hostdevice"
                            /\ live[g].mode = "read"
    BY Zenon, <1>b DEF HandleLocation
  <2>1. live[g].array \in Arrays \ {a, b}
    BY Zenon, <1>a DEF TypeOK, Access, Idle
  <2> QED BY Zenon, <2>1, <1>b DEF TypeOK, HandleLocation, isNull
<1>5. WritersAlone'
  BY <1>b DEF WritersAlone
<1>6. NullOnHost'
  BY Zenon, <1>b, <1>c, <1>e DEF TypeOK, NullOnHost, isNull
<1> QED BY <1>1, <1>2, <1>3, <1>4, <1>5, <1>6

(* swap() exchanges memories together with their location flags.           *)
LEMMA swapInv ==
  ASSUME IInv, NEW a \in Arrays, NEW b \in Arrays, swap(a, b)
  PROVE  IInv'
<1> USE DEF IInv
<1>a. Idle(a) /\ Idle(b) /\ a # b
  BY DEF swap
<1>b. /\ h_data' = [h_data EXCEPT ![a] = h_data[b], ![b] = h_data[a]]
      /\ d_data' = [d_data EXCEPT ![a] = d_data[b], ![b] = d_data[a]]
      /\ m_data_location' =
           [m_data_location EXCEPT ![a] = m_data_location[b], ![b] = m_data_location[a]]
      /\ m_exec' = [m_exec EXCEPT ![a] = m_exec[b], ![b] = m_exec[a]]
      /\ UNCHANGED <<live, lastRead>>
  BY Zenon DEF swap
<1>1. TypeOK'
  BY Zenon DEF TypeOK, swap
<1>2. DeviceSide'
  BY Zenon, <1>b DEF TypeOK, DeviceSide
<1>3. CopiesAgree'
  BY Zenon, <1>b DEF TypeOK, CopiesAgree
<1>4. HandleLocation'
  <2> SUFFICES ASSUME NEW g \in Handles, live[g] # None, ~isNull(live[g].array)'
               PROVE  /\ live[g].loc = "device" => m_exec'[live[g].array] # "cpu"
                      /\ \/ m_data_location'[live[g].array] = live[g].loc
                         \/ /\ m_data_location'[live[g].array] = "hostdevice"
                            /\ live[g].mode = "read"
    BY Zenon, <1>b DEF HandleLocation
  <2>1. live[g].array \in Arrays \ {a, b}
    BY Zenon, <1>a DEF TypeOK, Access, Idle
  <2> QED BY Zenon, <2>1, <1>b DEF TypeOK, HandleLocation, isNull
<1>5. WritersAlone'
  BY <1>b DEF WritersAlone
<1>6. NullOnHost'
  BY Zenon, <1>b DEF TypeOK, NullOnHost, isNull
<1> QED BY Zenon, <1>1, <1>2, <1>3, <1>4, <1>5, <1>6
-----------------------------------------------------------------------------
(* The constructors establish the inductive invariant. *)
LEMMA InitInv == Init => IInv
<1> SUFFICES ASSUME Init PROVE IInv
  OBVIOUS
<1>1. PICK size \in [Arrays -> 0..MaxN] :
        /\ m_exec \in [Arrays -> Executions]
        /\ h_data = [a \in Arrays |-> Cleared(size[a])]
        /\ d_data = [a \in Arrays |-> DeviceMemory(m_exec[a], Cleared(size[a]), Cleared(size[a]))]
        /\ m_data_location = [a \in Arrays |-> "host"]
        /\ m_acquired = [a \in Arrays |-> FALSE]
        /\ m_pitch = [a \in Arrays |-> size[a]]
        /\ live = [h \in Handles |-> None]
        /\ lastRead = Zero
  BY DEF Init
<1>2. \A a \in Arrays : Cleared(size[a]) \in Buffers /\ << >> \in Buffers
  BY <1>1, BufferIntro
<1>3. TypeOK
  BY <1>1, <1>2, GPUArrayAssumption DEF TypeOK, DeviceMemory, Executions
<1>4. DeviceSide
  BY <1>1, <1>2 DEF DeviceSide, DeviceMemory, Executions
<1> QED BY Zenon, <1>1, <1>3, <1>4 DEF IInv, CopiesAgree, HandleLocation, WritersAlone, NullOnHost

(* Every step of the disciplined client preserves the inductive invariant. *)
LEMMA NextInv == IInv /\ [Next]_vars => IInv'
<1> SUFFICES ASSUME IInv, [Next]_vars PROVE IInv'
  OBVIOUS
<1>1. CASE UNCHANGED vars
  BY <1>1 DEF vars, IInv, TypeOK, DeviceSide, CopiesAgree, HandleLocation, WritersAlone,
              NullOnHost, isNull
<1>2. CASE Operate
  BY Zenon, <1>2, AcquireThrowsInv, ReadInv, WriteInv, ReleaseInv, resizeInv, resizeNullInv,
     assignInv, swapInv DEF Operate
<1>3. ASSUME NEW h \in Handles, NEW acc \in Access, Compatible(acc), Acquire(h, acc)
      PROVE  IInv'
  BY <1>3, AcquireNullInv, AcquireHostInv, AcquireDeviceInv DEF Acquire
<1> QED BY <1>1, <1>2, <1>3 DEF Next

(* IInv is an invariant of GPUArray. *)
THEOREM Invariance == Spec => []IInv
BY InitInv, NextInv, PTL DEF Spec

(* Type correctness of GPUArray. *)
THEOREM TypeCorrect == Spec => []TypeOK
<1>1. IInv => TypeOK
  BY DEF IInv
<1> QED BY Invariance, <1>1, PTL

(* Whenever acquire() may skip a transfer because both memories are valid, *)
(* they are equal.                                                         *)
THEOREM CopiesAlwaysAgree == Spec => []CopiesAgree
<1>1. IInv => CopiesAgree
  BY Zenon DEF IInv
<1> QED BY Invariance, <1>1, PTL

(* The inductive invariant implies that a live handle points to the        *)
(* current data.                                                           *)
LEMMA HandlesCurrent == IInv => HandlesSeeCurrentData
<1> SUFFICES ASSUME IInv, NEW h \in Handles, live[h] # None
             PROVE  Memory(live[h].loc, live[h].array) = Current(live[h].array)
  BY DEF HandlesSeeCurrentData
<1> DEFINE a == live[h].array
<1>1. a \in Arrays /\ live[h].loc \in {"host", "device"}
  BY DEF IInv, TypeOK, Access
<1>2. CASE isNull(a)
  <2>1. m_data_location[a] = "host" /\ Len(h_data[a]) = 0 /\ Len(d_data[a]) = 0
    BY <1>1, <1>2, BufferIntro, GPUArrayAssumption DEF IInv, NullOnHost, DeviceSide, isNull
  <2>2. h_data[a] \in Memories(0) /\ d_data[a] \in Memories(0)
    BY Zenon, <1>1, <2>1, BufferLen DEF IInv, TypeOK
  <2>3. h_data[a] = d_data[a]
    BY <2>2 DEF Memories
  <2> QED BY Zenon, <2>3 DEF Memory, Current
<1>3. CASE ~isNull(a)
  BY Zenon, <1>1, <1>3 DEF IInv, HandleLocation, CopiesAgree, Memory, Current
<1> QED BY <1>2, <1>3

(* In every reachable state every live handle points to the memory that    *)
(* holds the array's current data.                                         *)
THEOREM HandlesAlwaysCurrent == Spec => []HandlesSeeCurrentData
BY Invariance, HandlesCurrent, PTL
-----------------------------------------------------------------------------
(* The refinement: GPUArray implements the plain array of MirroredArray.   *)

Content == [x \in Arrays |-> Current(x)]

(* The current data of an array is a buffer, and is as long as the host    *)
(* memory.                                                                 *)
LEMMA CurrentBuffer ==
  ASSUME IInv, NEW a \in Arrays
  PROVE  Current(a) \in Buffers /\ Len(Current(a)) = Len(h_data[a])
BY DEF IInv, TypeOK, DeviceSide, Current

(* The constructors produce an initial state of the plain array. *)
LEMMA InitRefines == Init => Plain!Init
<1> SUFFICES ASSUME Init PROVE Plain!Init
  OBVIOUS
<1>1. IInv
  BY InitInv
<1>2. Content \in [Arrays -> Buffers]
  BY <1>1, CurrentBuffer DEF Content
<1>3. live = [h \in Handles |-> None] /\ lastRead = Zero
  BY DEF Init
<1> QED BY <1>2, <1>3 DEF Plain!Init, Plain!Contents, Buffers, Memories, Content

(* A successful acquire() keeps the contents of the plain array unless the *)
(* access is to overwrite them, when they become unspecified.              *)
LEMMA AcquireRefines ==
  ASSUME IInv, IInv', NEW h \in Handles, NEW acc \in Access, Acquire(h, acc)
  PROVE  Plain!Acquire(h, acc)
<1> DEFINE a == acc.array
<1>1. /\ a \in Arrays /\ live[h] = None /\ live' = [live EXCEPT ![h] = acc]
      /\ UNCHANGED lastRead
      /\ acc.mode \in {"read", "readwrite", "overwrite"}
  BY Zenon DEF Acquire, AcquireNull, AcquireHost, AcquireDevice, Dispatch, Access
<1>2. \A x \in Arrays \ {a} : Current(x)' = Current(x)
  BY Zenon, <1>1 DEF IInv, TypeOK, Current, Acquire, AcquireNull, AcquireHost, AcquireDevice
<1>3. Len(Current(a)') = Len(Current(a)) /\ Current(a)' \in Memories(Len(Current(a)))
  <2>1. Len(h_data'[a]) = Len(h_data[a])
    BY <1>1 DEF IInv, TypeOK, DeviceSide, Copies, Acquire, AcquireNull, AcquireHost, AcquireDevice
  <2>2. Current(a)' \in Buffers /\ Len(Current(a)') = Len(h_data'[a])
    BY Zenon, <1>1 DEF IInv, TypeOK, DeviceSide, Current
  <2> QED BY Zenon, <1>1, <2>1, <2>2, CurrentBuffer, BufferLen
<1>4. CASE acc.mode = "overwrite"
  <2>1. Content' = [Content EXCEPT ![a] = Current(a)']
    BY Zenon, <1>1, <1>2 DEF Content
  <2>2. Current(a)' \in [1..Len(Content[a]) -> Values]
    BY Zenon, <1>1, <1>3 DEF Content, Memories
  <2> QED BY Zenon, <1>1, <1>4, <2>1, <2>2 DEF Plain!Acquire, Content
<1>5. CASE acc.mode # "overwrite"
  <2>1. Current(a)' = Current(a)
    <3>1. CASE AcquireNull(h, acc)
      BY Zenon, <3>1 DEF AcquireNull, Current
    <3>2. CASE AcquireHost(h, acc)
      BY <1>1, <1>5, <3>2 DEF AcquireHost, Current, IInv, TypeOK, DeviceSide, CopiesAgree,
                              Copies, LocationAfter
    <3>3. CASE AcquireDevice(h, acc)
      BY <1>1, <1>5, <3>3 DEF AcquireDevice, Current, IInv, TypeOK, DeviceSide, CopiesAgree,
                              Copies, LocationAfter
    <3> QED BY Zenon, <3>1, <3>2, <3>3 DEF Acquire
  <2>2. Content' = Content
    BY <1>2, <2>1 DEF Content
  <2> QED BY <1>1, <1>5, <2>2 DEF Plain!Acquire, Content
<1> QED BY <1>4, <1>5

(* A read through a handle returns the element of the plain array. *)
LEMMA ReadRefines ==
  ASSUME IInv, NEW h \in Handles, NEW i \in 1..MaxN, Read(h, i)
  PROVE  Plain!Read(h, i)
<1>1. live[h] # None /\ live[h].array \in Arrays
  BY DEF Read, IInv, TypeOK, Access
<1>2. Memory(live[h].loc, live[h].array) = Content[live[h].array]
  BY SMTT(30), <1>1, HandlesCurrent DEF HandlesSeeCurrentData, Content
<1>3. UNCHANGED Content
  BY DEF Read, Content, Current
<1> QED BY <1>1, <1>2, <1>3 DEF Read, Plain!Read, Content

(* A write through a handle changes that element of the plain array only. *)
LEMMA WriteRefines ==
  ASSUME IInv, NEW h \in Handles, NEW i \in 1..MaxN, NEW v \in Values, Write(h, i, v)
  PROVE  Plain!Write(h, i, v)
<1> DEFINE a == live[h].array
<1>1. live[h] # None /\ a \in Arrays /\ live[h].loc \in {"host", "device"}
  BY Zenon DEF Write, IInv, TypeOK, Access
<1>2. Memory(live[h].loc, a) = Content[a]
  BY <1>1, HandlesCurrent DEF HandlesSeeCurrentData, Content
<1>3. ~isNull(a)
  BY <1>1, BufferLen DEF IInv, TypeOK, DeviceSide, Write, Memory, isNull, Executions
<1>4. m_data_location[a] = live[h].loc
  BY Zenon, <1>1, <1>3 DEF IInv, HandleLocation, Write
<1>5. Current(a)' = [Current(a) EXCEPT ![i] = v]
  BY Zenon, <1>1, <1>4 DEF Write, Current, IInv, TypeOK
<1>6. \A x \in Arrays \ {a} : Current(x)' = Current(x)
  BY Zenon, <1>1 DEF Write, Current, IInv, TypeOK
<1>7. Content' = [Content EXCEPT ![a][i] = v]
  <2>1. a' = a
    BY DEF Write
  <2> QED BY Zenon, <1>1, <1>5, <1>6, <2>1 DEF Content
<1> QED BY Zenon, <1>1, <1>2, <1>7 DEF Write, Plain!Write, Content

(* The operations on whole arrays are those of the plain array. *)
LEMMA ResizeRefines ==
  ASSUME IInv, NEW a \in Arrays, NEW n \in 1..MaxN, resize(a, n)
  PROVE  Plain!Resize(a, n)
<1>1. m_exec[a] = "cpu" => m_data_location[a] = "host"
  BY DEF IInv, DeviceSide
<1>2. Current(a)' = Resized(Current(a), n)
  BY <1>1 DEF resize, Current, DeviceMemory, IInv, TypeOK, DeviceSide, Executions
<1>3. \A x \in Arrays \ {a} : Current(x)' = Current(x)
  BY DEF resize, Current, IInv, TypeOK
<1>4. Content' = [Content EXCEPT ![a] = Resized(@, n)]
  BY Zenon, <1>2, <1>3 DEF Content
<1> QED BY <1>4 DEF resize, Plain!Resize, Plain!Resized, Resized, Content

(* The first allocation leaves the elements unspecified. *)
LEMMA AllocateRefines ==
  ASSUME IInv, NEW a \in Arrays, NEW n \in 1..MaxN, resizeNull(a, n)
  PROVE  Plain!Allocate(a, n)
<1>1. Current(a)' \in Memories(n)
  BY DEF resizeNull, Current, IInv, TypeOK, NullOnHost
<1>2. \A x \in Arrays \ {a} : Current(x)' = Current(x)
  BY DEF resizeNull, Current, IInv, TypeOK
<1>3. Content' = [Content EXCEPT ![a] = Current(a)']
  BY Zenon, <1>2 DEF Content
<1>4. Len(Content[a]) = 0
  BY CurrentBuffer DEF resizeNull, isNull, Content
<1> QED BY Zenon, <1>1, <1>3, <1>4 DEF resizeNull, Plain!Allocate, Memories, Content

(* Assignment copies the contents of the right-hand side. *)
LEMMA AssignRefines ==
  ASSUME IInv, NEW a \in Arrays, NEW b \in Arrays, assign(a, b)
  PROVE  Plain!Assign(a, b)
<1>1. Current(a)' = Current(b) /\ Current(b)' = Current(b)
  BY Zenon
     DEF assign, Current, Copies, LocationAfter, IInv, TypeOK, DeviceSide, CopiesAgree, NullOnHost
<1>2. \A x \in Arrays \ {a, b} : Current(x)' = Current(x)
  BY Zenon DEF assign, Current, IInv, TypeOK
<1>3. Content' = [Content EXCEPT ![a] = Content[b]]
  BY Zenon, <1>1, <1>2 DEF Content
<1> QED BY Zenon, <1>3 DEF assign, Plain!Assign, Content

(* swap exchanges the contents. *)
LEMMA SwapRefines ==
  ASSUME IInv, NEW a \in Arrays, NEW b \in Arrays, swap(a, b)
  PROVE  Plain!Swap(a, b)
<1>1. Current(a)' = Current(b) /\ Current(b)' = Current(a)
  BY Zenon DEF swap, Current, IInv, TypeOK
<1>2. \A x \in Arrays \ {a, b} : Current(x)' = Current(x)
  BY Zenon DEF swap, Current, IInv, TypeOK
<1>3. Content' = [Content EXCEPT ![a] = Content[b], ![b] = Content[a]]
  BY Zenon, <1>1, <1>2 DEF Content
<1> QED BY Zenon, <1>3 DEF swap, Plain!Swap, Content

(* Every step of GPUArray is a step of the plain array or leaves it alone. *)
LEMMA NextRefines == IInv /\ IInv' /\ [Next]_vars => [Plain!Next]_(Plain!vars)
<1> SUFFICES ASSUME IInv, IInv', [Next]_vars PROVE [Plain!Next]_(Plain!vars)
  OBVIOUS
<1>1. CASE UNCHANGED vars
  BY Zenon, <1>1 DEF vars, Plain!vars, Current
<1>2. ASSUME NEW h \in Handles, NEW acc \in Access, Acquire(h, acc)
      PROVE  Plain!Next
  BY Zenon, <1>2, AcquireRefines DEF Plain!Next, Plain!Access, Access
<1>3. ASSUME NEW acc \in Access, AcquireThrows(acc)
      PROVE  UNCHANGED Plain!vars
  BY <1>3 DEF AcquireThrows, Plain!vars, Current
<1>4. ASSUME NEW h \in Handles, Release(h)
      PROVE  Plain!Next
  <2>1. Content' = Content
    BY <1>4 DEF Release, Content, Current
  <2> QED BY Zenon, <1>4, <2>1 DEF Release, Plain!Release, Plain!Next, Content
<1>5. ASSUME NEW h \in Handles, NEW i \in 1..MaxN, Read(h, i)
      PROVE  Plain!Next
  BY Zenon, <1>5, ReadRefines DEF Plain!Next
<1>6. ASSUME NEW h \in Handles, NEW i \in 1..MaxN, NEW v \in Values, Write(h, i, v)
      PROVE  Plain!Next
  BY Zenon, <1>6, WriteRefines DEF Plain!Next
<1>7. ASSUME NEW a \in Arrays, NEW n \in 1..MaxN, resize(a, n) \/ resizeNull(a, n)
      PROVE  Plain!Next
  BY Zenon, <1>7, ResizeRefines, AllocateRefines DEF Plain!Next
<1>8. ASSUME NEW a \in Arrays, NEW b \in Arrays, assign(a, b) \/ swap(a, b)
      PROVE  Plain!Next
  BY <1>8, AssignRefines, SwapRefines DEF Plain!Next
<1> QED BY Zenon, <1>1, <1>2, <1>3, <1>4, <1>5, <1>6, <1>7, <1>8 DEF Next, Operate

(* GPUArray, used by a client that never lets a writing handle overlap     *)
(* another handle, implements the plain array.                             *)
THEOREM Refinement == Spec => ImplementsPlainArray
<1>1. IInv /\ [Next]_vars => IInv /\ IInv' /\ [Next]_vars
  BY Zenon, NextInv
<1> QED BY <1>1, Invariance, InitRefines, NextRefines, PTL DEF Spec, ImplementsPlainArray, Plain!Spec
=============================================================================
