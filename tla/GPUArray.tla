------------------------------ MODULE GPUArray ------------------------------
(***************************************************************************)
(* hoomd::GPUArray (GPUArray.h): one-dimensional arrays mirrored in host   *)
(* and device memory.  Each array records where its current data is        *)
(* (m_data_location) and acquire() copies between the two memories only    *)
(* when the requested access needs it.  Clients reach the data through     *)
(* ArrayHandle objects; a handle carries a raw pointer into one of the two *)
(* memories for as long as it is alive.                                    *)
(***************************************************************************)
EXTENDS Integers, Sequences

CONSTANTS
  Arrays,    \* the array objects
  Handles,   \* the handle objects a client may have alive
  Values,    \* contents of one element
  Zero,      \* the cleared element (memset to 0)
  MaxN,      \* bound on the number of elements
  None       \* marks a handle that is not alive

ASSUME GPUArrayAssumption ==
  /\ Zero \in Values
  /\ MaxN \in Nat
  /\ None \notin [array : Arrays, loc : {"host", "device"},
                  mode : {"read", "readwrite", "overwrite"}]

VARIABLES
  h_data,          \* h_data[a]: host memory; empty when the pointer is null
  d_data,          \* d_data[a]: device memory; empty when the pointer is null
  m_data_location, \* where the current data of a is
  m_acquired,      \* m_acquired[a]: a is marked as in use
  m_exec,          \* m_exec[a]: "cpu", "gpu", or "mapped" (a GPU whose pointer
                   \* aliases the host memory): m_exec_conf and m_mapped
  m_pitch,         \* m_pitch[a]: the row length reported by getPitch
  live,            \* live[h]: the access handle h grants, or None
  lastRead         \* the element most recently read through a handle

vars ==
  <<h_data, d_data, m_data_location, m_acquired, m_exec, m_pitch, live, lastRead>>

Access == [array : Arrays, loc : {"host", "device"},
           mode : {"read", "readwrite", "overwrite"}]

Memories(n) == [1..n -> Values]

Cleared(n) == [i \in 1..n |-> Zero]

isNull(a) == Len(h_data[a]) = 0

(* The device memory that goes with host memory h: an alias of it when the *)
(* memory is mapped, nothing without a GPU, d otherwise.                   *)
DeviceMemory(e, h, d) ==
  CASE e = "mapped" -> h
    [] e = "gpu"    -> d
    [] e = "cpu"    -> << >>

Executions == {"cpu", "gpu", "mapped"}

(* GPUArray(num_elements, exec_conf): allocate() and memclear().           *)
Init ==
  \E size \in [Arrays -> 0..MaxN] :
    /\ m_exec \in [Arrays -> Executions]
    /\ h_data = [a \in Arrays |-> Cleared(size[a])]
    /\ d_data = [a \in Arrays |-> DeviceMemory(m_exec[a], Cleared(size[a]), Cleared(size[a]))]
    /\ m_data_location = [a \in Arrays |-> "host"]
    /\ m_acquired = [a \in Arrays |-> FALSE]
    /\ m_pitch = [a \in Arrays |-> size[a]]
    /\ live = [h \in Handles |-> None]
    /\ lastRead = Zero

-----------------------------------------------------------------------------
(* GPUArray::acquire *)

(* Slip: a write access to a valid copy leaves the other one marked valid. *)
LocationAfter_NoInvalidate(cur, loc, mode) ==
  IF cur \in {loc, "hostdevice"} THEN cur
  ELSE IF mode = "read" THEN "hostdevice"
  ELSE loc

(* m_data_location after an access at memory loc with the given mode.      *)
LocationAfter(cur, loc, mode) ==
  IF cur = loc THEN loc
  ELSE IF mode = "read" THEN "hostdevice"
  ELSE loc

(* Slip: only read-write accesses copy.                                    *)
Copies_OnlyReadWrite(a, loc, mode) ==
  /\ m_data_location[a] \notin {loc, "hostdevice"}
  /\ mode = "readwrite"
  /\ m_exec[a] # "mapped"

(* memcpyDeviceToHost and memcpyHostToDevice happen when the data is only  *)
(* in the other memory and the access does not overwrite it.  They do      *)
(* nothing when the memory is mapped.                                      *)
Copies(a, loc, mode) ==
  /\ m_data_location[a] \notin {loc, "hostdevice"}
  /\ mode # "overwrite"
  /\ m_exec[a] # "mapped"

(* The data pointer travels in a GPUArrayDispatch that acquire() returns   *)
(* by value as its base ArrayHandleDispatch; the derived temporary is      *)
(* destroyed at the return, and its destructor clears m_acquired.          *)
Dispatch(h, acc) ==
  /\ live' = [live EXCEPT ![h] = acc]
  /\ m_acquired' = [m_acquired EXCEPT ![acc.array] = FALSE]

AcquireNull(h, acc) ==
  /\ live[h] = None
  /\ ~m_acquired[acc.array]
  /\ isNull(acc.array)
  /\ Dispatch(h, acc)
  /\ UNCHANGED <<m_exec, h_data, d_data, m_data_location, m_pitch, lastRead>>

AcquireHost(h, acc) ==
  LET a == acc.array IN
  /\ live[h] = None
  /\ acc.loc = "host"
  /\ ~m_acquired[a]
  /\ ~isNull(a)
  /\ m_data_location' = [m_data_location EXCEPT ![a] = LocationAfter(@, "host", acc.mode)]
  /\ h_data' = [h_data EXCEPT ![a] =
                  IF Copies(a, "host", acc.mode) THEN d_data[a] ELSE @]
  /\ Dispatch(h, acc)
  /\ UNCHANGED <<m_exec, d_data, m_pitch, lastRead>>

AcquireDevice(h, acc) ==
  LET a == acc.array IN
  /\ live[h] = None
  /\ acc.loc = "device"
  /\ m_exec[a] # "cpu"
  /\ ~m_acquired[a]
  /\ ~isNull(a)
  /\ m_data_location' = [m_data_location EXCEPT ![a] = LocationAfter(@, "device", acc.mode)]
  /\ d_data' = [d_data EXCEPT ![a] =
                  IF Copies(a, "device", acc.mode) THEN h_data[a] ELSE @]
  /\ Dispatch(h, acc)
  /\ UNCHANGED <<m_exec, h_data, m_pitch, lastRead>>

(* A device access without a GPU throws after m_acquired has been set, and *)
(* no dispatch object exists that would clear it.                          *)
AcquireThrows(acc) ==
  /\ acc.loc = "device"
  /\ m_exec[acc.array] = "cpu"
  /\ ~m_acquired[acc.array]
  /\ ~isNull(acc.array)
  /\ m_acquired' = [m_acquired EXCEPT ![acc.array] = TRUE]
  /\ UNCHANGED <<m_exec, h_data, d_data, m_data_location, m_pitch, live, lastRead>>

Acquire(h, acc) == AcquireNull(h, acc) \/ AcquireHost(h, acc) \/ AcquireDevice(h, acc)

-----------------------------------------------------------------------------
(* Uses of a live handle.  The client reads and writes through its pointer. *)

Memory(loc, a) == IF loc = "host" THEN h_data[a] ELSE d_data[a]

Read(h, i) ==
  /\ live[h] # None
  /\ i \in DOMAIN Memory(live[h].loc, live[h].array)
  /\ lastRead' = Memory(live[h].loc, live[h].array)[i]
  /\ UNCHANGED <<m_exec, h_data, d_data, m_data_location, m_acquired, m_pitch, live>>

Write(h, i, v) ==
  /\ live[h] # None
  /\ live[h].mode # "read"
  /\ LET a == live[h].array IN
     /\ i \in DOMAIN Memory(live[h].loc, a)
     /\ h_data' = IF live[h].loc = "host" \/ m_exec[a] = "mapped"
                    THEN [h_data EXCEPT ![a] = [@ EXCEPT ![i] = v]] ELSE h_data
     /\ d_data' = IF live[h].loc = "device" \/ m_exec[a] = "mapped"
                    THEN [d_data EXCEPT ![a] = [@ EXCEPT ![i] = v]] ELSE d_data
  /\ UNCHANGED <<m_exec, m_data_location, m_acquired, m_pitch, live, lastRead>>

(* ~ArrayHandle: the base ArrayHandleDispatch it holds has an empty        *)
(* destructor.                                                             *)
Release(h) ==
  /\ live[h] # None
  /\ live' = [live EXCEPT ![h] = None]
  /\ UNCHANGED <<m_exec, h_data, d_data, m_data_location, m_acquired, m_pitch, lastRead>>

-----------------------------------------------------------------------------
(* Operations on whole arrays.  Clients call them with no handle alive on  *)
(* the arrays involved: they replace or exchange the memory that handles   *)
(* point to.                                                               *)

Idle(a) == \A h \in Handles : live[h] # None => live[h].array # a

(* Slip: the last element of the prefix is not copied. *)
Resized_PrefixShort(s, n) == [i \in 1..n |-> IF i < Len(s) THEN s[i] ELSE Zero]

(* resizeHostArray, resizeDeviceArray: clear the new memory, copy the      *)
(* common prefix.                                                          *)
Resized(s, n) == [i \in 1..n |-> IF i <= Len(s) THEN s[i] ELSE Zero]

resize(a, n) ==
  /\ Idle(a)
  /\ ~m_acquired[a]
  /\ n > 0
  /\ ~isNull(a)
  /\ h_data' = [h_data EXCEPT ![a] = Resized(@, n)]
  /\ d_data' = [d_data EXCEPT ![a] = DeviceMemory(m_exec[a], Resized(h_data[a], n), Resized(@, n))]
  /\ m_pitch' = [m_pitch EXCEPT ![a] = n]
  /\ UNCHANGED <<m_exec, m_data_location, m_acquired, live, lastRead>>

(* resize() of a null array only allocates: the memory is uninitialised    *)
(* and m_pitch keeps its value.                                            *)
resizeNull(a, n) ==
  /\ Idle(a)
  /\ ~m_acquired[a]
  /\ n > 0
  /\ isNull(a)
  /\ \E hm, dm \in Memories(n) :
       /\ h_data' = [h_data EXCEPT ![a] = hm]
       /\ d_data' = [d_data EXCEPT ![a] = DeviceMemory(m_exec[a], hm, dm)]
  /\ UNCHANGED <<m_exec, m_data_location, m_acquired, m_pitch, live, lastRead>>

(* operator=(const GPUArray& rhs): the copy is taken through a host read   *)
(* handle on rhs; this array restarts on the host with a cleared device    *)
(* memory.                                                                 *)
assign(a, rhs) ==
  LET src == IF ~isNull(rhs) /\ Copies(rhs, "host", "read") THEN d_data[rhs] ELSE h_data[rhs] IN
  /\ a # rhs
  /\ Idle(a) /\ Idle(rhs)
  /\ ~m_acquired[a] /\ ~m_acquired[rhs]
  /\ h_data' = [h_data EXCEPT ![a] = src, ![rhs] = src]
  /\ d_data' = [d_data EXCEPT ![a] = DeviceMemory(m_exec[rhs], src, Cleared(Len(src)))]
  /\ m_data_location' =
       [m_data_location EXCEPT ![a] = "host",
          ![rhs] = IF isNull(rhs) THEN @ ELSE LocationAfter(@, "host", "read")]
  /\ m_pitch' = [m_pitch EXCEPT ![a] = m_pitch[rhs]]
  /\ m_exec' = [m_exec EXCEPT ![a] = m_exec[rhs]]
  /\ UNCHANGED <<m_acquired, live, lastRead>>

(* Slip: m_data_location is not exchanged.                                 *)
swap_KeepsLocation(a, from) ==
  LET Swapped(f) == [f EXCEPT ![a] = f[from], ![from] = f[a]] IN
  /\ a # from
  /\ Idle(a) /\ Idle(from)
  /\ ~m_acquired[a] /\ ~m_acquired[from]
  /\ h_data' = Swapped(h_data)
  /\ d_data' = Swapped(d_data)
  /\ m_acquired' = Swapped(m_acquired)
  /\ m_pitch' = Swapped(m_pitch)
  /\ m_exec' = Swapped(m_exec)
  /\ UNCHANGED <<m_data_location, live, lastRead>>

(* swap(from): exchanges every member, both pointers included.           *)
swap(a, from) ==
  LET Swapped(f) == [f EXCEPT ![a] = f[from], ![from] = f[a]] IN
  /\ a # from
  /\ Idle(a) /\ Idle(from)
  /\ ~m_acquired[a] /\ ~m_acquired[from]
  /\ h_data' = Swapped(h_data)
  /\ d_data' = Swapped(d_data)
  /\ m_data_location' = Swapped(m_data_location)
  /\ m_acquired' = Swapped(m_acquired)
  /\ m_pitch' = Swapped(m_pitch)
  /\ m_exec' = Swapped(m_exec)
  /\ UNCHANGED <<live, lastRead>>

-----------------------------------------------------------------------------
(* Two clients.  The undisciplined one opens handles whenever acquire()    *)
(* lets it.  The disciplined one is what the code base intends: a handle   *)
(* that may write is the only handle on its array.                         *)

Compatible(acc) ==
  \A h \in Handles :
    live[h] # None /\ live[h].array = acc.array
      => live[h].mode = "read" /\ acc.mode = "read"

Operate ==
  \/ \E acc \in Access : AcquireThrows(acc)
  \/ \E h \in Handles, i \in 1..MaxN : Read(h, i)
  \/ \E h \in Handles, i \in 1..MaxN, v \in Values : Write(h, i, v)
  \/ \E h \in Handles : Release(h)
  \/ \E a \in Arrays, n \in 1..MaxN : resize(a, n) \/ resizeNull(a, n)
  \/ \E a, b \in Arrays : assign(a, b) \/ swap(a, b)

AnyClientNext == Operate \/ \E h \in Handles, acc \in Access : Acquire(h, acc)

Next == Operate \/ \E h \in Handles, acc \in Access : Compatible(acc) /\ Acquire(h, acc)

AnyClientSpec == Init /\ [][AnyClientNext]_vars

Spec == Init /\ [][Next]_vars

-----------------------------------------------------------------------------
Buffers == UNION {Memories(n) : n \in 0..MaxN}

(* Type invariant: sizes, locations and handles stay in their domains.     *)
TypeOK ==
  /\ h_data \in [Arrays -> Buffers]
  /\ d_data \in [Arrays -> Buffers]
  /\ m_data_location \in [Arrays -> {"host", "device", "hostdevice"}]
  /\ m_acquired \in [Arrays -> BOOLEAN]
  /\ m_exec \in [Arrays -> Executions]
  /\ m_pitch \in [Arrays -> 0..MaxN]
  /\ live \in [Handles -> Access \cup {None}]
  /\ lastRead \in Values

(* The current data of array a, in the memory m_data_location names.       *)
Current(a) == IF m_data_location[a] = "device" THEN d_data[a] ELSE h_data[a]

(* acquire(): the memory a live handle points to is, for as long as the    *)
(* handle lives, the memory that holds the array's current data; no other  *)
(* acquire, swap, assignment or resize leaves a handle on a stale copy.    *)
HandlesSeeCurrentData ==
  \A h \in Handles :
    live[h] # None => Memory(live[h].loc, live[h].array) = Current(live[h].array)

(* m_data_location: when it says that both memories are valid, the two     *)
(* copies agree, so that skipping the copy in acquire() is right.          *)
CopiesAgree ==
  \A a \in Arrays : m_data_location[a] = "hostdevice" => h_data[a] = d_data[a]

(* The device side of each array: no memory and no data without a GPU, an  *)
(* alias of the host memory when mapped, and the same size otherwise.      *)
DeviceSide ==
  \A a \in Arrays :
    /\ m_exec[a] = "cpu" => d_data[a] = << >> /\ m_data_location[a] = "host"
    /\ m_exec[a] = "mapped" => d_data[a] = h_data[a]
    /\ m_exec[a] # "cpu" => Len(d_data[a]) = Len(h_data[a])

(* A live handle on a non-null array points to a memory that holds the     *)
(* current data, and to the only such memory if it may write.              *)
HandleLocation ==
  \A h \in Handles :
    live[h] # None /\ ~isNull(live[h].array) =>
      LET a == live[h].array IN
      /\ live[h].loc = "device" => m_exec[a] # "cpu"
      /\ \/ m_data_location[a] = live[h].loc
         \/ m_data_location[a] = "hostdevice" /\ live[h].mode = "read"

(* Under the disciplined client a handle that may write is alone on its    *)
(* array.                                                                  *)
WritersAlone ==
  \A g, h \in Handles :
    g # h /\ live[g] # None /\ live[h] # None /\ live[g].array = live[h].array
      => live[g].mode = "read" /\ live[h].mode = "read"

(* An array that has never been allocated counts as being on the host.     *)
NullOnHost == \A a \in Arrays : isNull(a) => m_data_location[a] = "host"

(* The inductive invariant behind CopiesAgree and HandlesSeeCurrentData.   *)
IInv ==
  /\ TypeOK
  /\ DeviceSide
  /\ CopiesAgree
  /\ HandleLocation
  /\ WritersAlone
  /\ NullOnHost

(* GPUArray implements a plain array: every read through every handle, on  *)
(* either memory, returns what the single logical array holds.             *)
Plain == INSTANCE MirroredArray WITH content <- [a \in Arrays |-> Current(a)]

ImplementsPlainArray == Plain!Spec

(* The ArrayHandle documentation: acquiring an array more than once fails, *)
(* so at most one handle is alive on any array.                            *)
AcquiredAtMostOnce ==
  \A g, h \in Handles :
    live[g] # None /\ live[h] # None /\ live[g].array = live[h].array => g = h
=============================================================================
