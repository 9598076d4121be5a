----------------------- MODULE TaskDispatcherProofs -----------------------
(***************************************************************************)
(* Proofs about TaskDispatcher for every number of callers, keys, shards   *)
(* and threads: a shard is locked exactly while a task of one of its keys  *)
(* runs, so that runs that share a shard never overlap.                    *)
(***************************************************************************)
EXTENDS TaskDispatcher, TLAPS

(* A caller that is in an operation knows which: TypeOK alone lets it have  *)
(* none.                                                                   *)
InCall == \A c \in Callers : at[c] # "idle" => call[c] \in Calls

(* The caller finds the shard locked and blocks.                           *)
Waits(c, o) ==
  /\ at' = [at EXCEPT ![c] = "blocked"]
  /\ call' = [call EXCEPT ![c] = o]
  /\ UNCHANGED <<owner, entries, notified>>

(* Every action keeps every variable in its type.                          *)
LEMMA TypeStep == TypeOK /\ InCall /\ [Next]_vars => TypeOK'
<1> SUFFICES ASSUME TypeOK, InCall, [Next]_vars PROVE TypeOK'
  OBVIOUS
<1>1. ASSUME NEW c \in Callers, NEW o \in Calls, Call(c, o) PROVE TypeOK'
  <2>1. o.key \in Keys /\ ShardOf[o.key] \in Shards
    BY DispatcherAssumption DEF Calls
  <2> QED
    <3>1. CASE EnterDispatch(c, o.key)
      BY <1>1, <2>1, <3>1 DEF EnterDispatch, Calls, TypeOK
    <3>2. CASE EnterCancel(c, o.key)
      BY <1>1, <2>1, <3>2 DEF EnterCancel, TypeOK
    <3>3. CASE Waits(c, o)
      BY <1>1, <3>3 DEF Waits, TypeOK
    <3> QED
      BY <1>1, <3>1, <3>2, <3>3 DEF Call, Enter, Waits
<1>2. ASSUME NEW c \in Callers, Acquire(c) PROVE TypeOK'
  <2>1. call[c].key \in Keys /\ ShardOf[call[c].key] \in Shards
    BY <1>2, DispatcherAssumption DEF Acquire, InCall, Calls
  <2>2. CASE EnterDispatch(c, call[c].key)
    BY <1>2, <2>1, <2>2 DEF EnterDispatch, Calls, TypeOK
  <2>3. CASE EnterCancel(c, call[c].key)
    BY <1>2, <2>1, <2>3 DEF EnterCancel, TypeOK
  <2> QED
    BY <1>2, <2>2, <2>3 DEF Acquire, Enter
<1>3. ASSUME NEW c \in Callers, Wake(c) PROVE TypeOK'
  BY <1>3 DEF Wake, TypeOK
<1>4. ASSUME NEW c \in Callers, Finish(c) PROVE TypeOK'
  BY <1>4 DEF Finish, TypeOK
<1>5. CASE UNCHANGED vars
  BY <1>5 DEF vars, TypeOK
<1> QED
  BY <1>1, <1>2, <1>3, <1>4, <1>5 DEF Next

(* Every action keeps this.                                                *)
LEMMA InCallStep == TypeOK /\ InCall /\ [Next]_vars => InCall'
<1> SUFFICES ASSUME TypeOK, InCall, [Next]_vars PROVE InCall'
  OBVIOUS
<1>1. ASSUME NEW c \in Callers, NEW o \in Calls, Enter(c, o) PROVE InCall'
  <2>1. o.key \in Keys /\ [op |-> "dispatch", key |-> o.key] \in Calls
    BY DEF Calls
  <2> QED
    BY <1>1, <2>1 DEF Enter, EnterDispatch, EnterCancel, TypeOK, InCall
<1>2. ASSUME NEW c \in Callers,
             (\E o \in Calls : Call(c, o)) \/ Acquire(c) \/ Wake(c) \/ Finish(c)
      PROVE  InCall'
  <2>1. ASSUME NEW o \in Calls, Waits(c, o) PROVE InCall'
    BY <2>1 DEF Waits, TypeOK, InCall
  <2>2. ASSUME NEW o \in Calls, Call(c, o) PROVE InCall'
    BY <1>1, <2>1, <2>2 DEF Call, Waits
  <2>3. CASE Acquire(c)
    BY <1>1, <2>3 DEF Acquire, InCall
  <2>4. CASE Wake(c) \/ Finish(c)
    BY <2>4 DEF Wake, Finish, TypeOK, InCall
  <2> QED
    BY <1>2, <2>2, <2>3, <2>4
<1>3. CASE UNCHANGED vars
  BY <1>3 DEF vars, InCall
<1> QED
  BY <1>2, <1>3 DEF Next

(* Taking a free shard's lock and keeping it, or taking and releasing it,   *)
(* keeps locks and runs in step.  The caller was in no run before.         *)
LEMMA EnterStep ==
  ASSUME TypeOK, LockedWhileRunning, NEW c \in Callers, NEW o \in Calls,
         at[c] \in {"idle", "blocked"}, Enter(c, o)
  PROVE  LockedWhileRunning'
<1>1. /\ o.key \in Keys /\ ShardOf[o.key] \in Shards /\ owner[ShardOf[o.key]] = None
      /\ \A s \in Shards : owner[s] # c
  BY DispatcherAssumption DEF Calls, Enter, TypeOK, LockedWhileRunning
<1>2. CASE o.op = "dispatch"
  <2>1. EnterDispatch(c, o.key)
    BY <1>2 DEF Enter
  <2>2. /\ owner' = [owner EXCEPT ![ShardOf[o.key]] = c]
        /\ entries' = entries \cup {o.key}
        /\ at' = [at EXCEPT ![c] = "running"]
        /\ call' = [call EXCEPT ![c] = [op |-> "dispatch", key |-> o.key]]
    BY <2>1 DEF EnterDispatch
  <2> QED
    BY <1>1, <2>2, DispatcherAssumption DEF TypeOK, LockedWhileRunning
<1>3. CASE o.op = "cancel"
  <2>1. EnterCancel(c, o.key)
    BY <1>3 DEF Enter
  <2>2. /\ owner' = owner /\ entries' = entries \ {o.key}
        /\ at' = [at EXCEPT ![c] = "idle"]
        /\ call' = [call EXCEPT ![c] = None]
    BY <2>1 DEF EnterCancel
  <2>3. \A d \in Callers : at[d] \in {"running", "ready"} => call[d].key # o.key
    BY <1>1, DispatcherAssumption DEF LockedWhileRunning
  <2> QED
    BY <1>1, <2>2, <2>3, DispatcherAssumption DEF TypeOK, LockedWhileRunning
<1> QED
  BY <1>2, <1>3 DEF Calls

(* Every action keeps locks and runs in step.                              *)
LEMMA LockStep ==
  TypeOK /\ InCall /\ LockedWhileRunning /\ [Next]_vars => LockedWhileRunning'
<1> SUFFICES ASSUME TypeOK, InCall, LockedWhileRunning, [Next]_vars
             PROVE  LockedWhileRunning'
  OBVIOUS
<1>1. ASSUME NEW c \in Callers, NEW o \in Calls, Call(c, o) PROVE LockedWhileRunning'
  <2>1. CASE Enter(c, o)
    BY <1>1, <2>1, EnterStep DEF Call
  <2>2. CASE Waits(c, o)
    BY <1>1, <2>2 DEF Call, Waits, TypeOK, LockedWhileRunning
  <2> QED
    BY <1>1, <2>1, <2>2 DEF Call, Waits
<1>2. ASSUME NEW c \in Callers, Acquire(c) PROVE LockedWhileRunning'
  <2>1. call[c] \in Calls /\ at[c] = "blocked" /\ Enter(c, call[c])
    BY <1>2 DEF Acquire, InCall
  <2> QED
    BY <2>1, EnterStep
<1>3. ASSUME NEW c \in Callers, Wake(c) PROVE LockedWhileRunning'
  BY <1>3, DispatcherAssumption DEF Wake, TypeOK, LockedWhileRunning
<1>4. ASSUME NEW c \in Callers, Finish(c) PROVE LockedWhileRunning'
  <2>1. /\ ShardOf[call[c].key] \in Shards /\ at[c] \in {"running", "ready"}
        /\ owner[ShardOf[call[c].key]] = c
    BY <1>4, DispatcherAssumption DEF Finish, InCall, Calls, LockedWhileRunning
  <2> QED
    BY <1>4, <2>1, DispatcherAssumption DEF Finish, TypeOK, LockedWhileRunning
<1>5. CASE UNCHANGED vars
  BY <1>5 DEF vars, LockedWhileRunning
<1> QED
  BY <1>1, <1>2, <1>3, <1>4, <1>5 DEF Next

(* The inductive invariant of the dispatcher.                              *)
LEMMA DispatcherInvariant == Spec => [](TypeOK /\ InCall /\ LockedWhileRunning)
<1>1. Init => TypeOK /\ InCall /\ LockedWhileRunning
  BY DEF Init, TypeOK, InCall, LockedWhileRunning
<1>2. TypeOK /\ InCall /\ LockedWhileRunning /\ [Next]_vars
        => (TypeOK /\ InCall /\ LockedWhileRunning)'
  BY TypeStep, InCallStep, LockStep
<1> QED
  BY <1>1, <1>2, PTL DEF Spec

(* Owners are callers, keys have shards, and every caller is somewhere.     *)
THEOREM TypeCorrect == Spec => []TypeOK
  BY DispatcherInvariant, PTL

(* A shard is locked exactly while a task of one of its keys runs, so runs  *)
(* of one key never overlap, for every number of callers and shards.       *)
THEOREM RunsExclude == Spec => []LockedWhileRunning
  BY DispatcherInvariant, PTL
=============================================================================
