------------------------ MODULE WorkflowFramesProofs ------------------------
(***************************************************************************)
(* Theorems about runs of tasks, for every set of processes and every      *)
(* proper scenario: whatever unwinds a future, no child of a parallel      *)
(* collection is let loose and a threshold holds; an emission reaches the  *)
(* newest hook of each type and none whose wrapper is gone.                *)
(***************************************************************************)
EXTENDS WorkflowFrames, FiniteSetTheorems, TLAPS

(***************************************************************************)
(* The stacks: every step of every future names what it is about.          *)
(***************************************************************************)
FrameSteps ==
    {"exec", "leaf", "recover", "attempt", "attempted", "timed", "counts", "eval", "and", "or",
     "negate", "resolve", "next", "quit", "join"}

Known(op) ==
    /\ Do(op) \in FrameSteps => On(op) \in DOMAIN Frames
    /\ Do(op) = "run" => On(op) \in DOMAIN scenario.root
    /\ Do(op) = "leaf" => Frames[On(op)].kind = "leaf"
    /\ Do(op) = "recover" => Frames[On(op)].kind = "fallback"
    /\ Do(op) \in {"attempt", "attempted"} => Frames[On(op)].kind = "retry"
    /\ Do(op) = "resolve" => Frames[On(op)].kind = "dependency"
    /\ Do(op) \in {"next", "quit"} => Arg(op) \in Nat \ {0}

Stacks ==
    /\ work = [p \in Procs |-> work[p]]
    /\ \A p \in Procs : IsSeq(work[p]) /\ \A i \in DOMAIN work[p] : Known(work[p][i])

\* A process that has something left to do holds a value.
Values == {"ok", "err", "true", "false"}

Results ==
    /\ res = [p \in Procs |-> res[p]]
    /\ \A p \in Procs : work[p] # <<>> => res[p] \in Values

(***************************************************************************)
(* Thresholds: an execution that is inside frame n has still to count.     *)
(***************************************************************************)
Marks(op, n) == Do(op) = "counts" /\ On(op) = n

Limited(n) ==
    /\ count[n] <= Frames[n].threshold
    /\ \A p \in Procs : \A i \in DOMAIN work[p] :
        Marks(work[p][i], n) =>
            /\ count[n] < Frames[n].threshold
            /\ \A q \in Procs : \A j \in DOMAIN work[q] :
                Marks(work[q][j], n) => q = p /\ j = i

Limits ==
    /\ count \in [DOMAIN Frames -> Nat]
    /\ \A n \in DOMAIN Frames :
        Frames[n].kind = "threshold" /\ n \notin overlapped => Limited(n)

FrameInv ==
    /\ scenario \in Scenarios
    /\ Stacks
    /\ Results
    /\ OrphansAreAborted
    /\ Limits

(***************************************************************************)
(* The registry: a slot for each type filed, whose newest instance is the  *)
(* one filed last.                                                         *)
(***************************************************************************)
Mirrors(slots, history) ==
    /\ IsSeq(slots)
    /\ IsSeq(history)
    /\ \A i \in DOMAIN slots :
        /\ IsSeq(slots[i].instances)
        /\ slots[i].instances # <<>>
        /\ slots[i].id = FiledUnder(get(slots[i].instances))
        /\ \E m \in DOMAIN history :
            /\ history[m] = get(slots[i].instances)
            /\ \A l \in DOMAIN history : history[l].type = history[m].type => l <= m
    /\ \A i, j \in DOMAIN slots : slots[i].id = slots[j].id => i = j
    /\ \A m \in DOMAIN history : \E i \in DOMAIN slots : slots[i].id = FiledUnder(history[m])
    /\ \A l, m \in DOMAIN history : history[l] = history[m] => l = m

Numbered(history, n) == \A m \in DOMAIN history : history[m].id \in Nat /\ history[m].id < n

\* An entry mirrors part of what was attached to it, and all of it as long as
\* nobody has detached a type there.
Keeps(slots, history, untouched) ==
    \E part :
        /\ Mirrors(slots, part)
        /\ Range(part) \subseteq Range(history)
        /\ untouched => part = history

Registry ==
    /\ nextHook \in Nat
    /\ DOMAIN registry = DOMAIN filed
    /\ \A key \in DOMAIN filed :
        /\ IsSeq(filed[key]) /\ Numbered(filed[key], nextHook)
        /\ Keeps(registry[key], filed[key], \A d \in detached : d.key # key)

-----------------------------------------------------------------------------
(***************************************************************************)
(* Sequences of anything.                                                  *)
(***************************************************************************)
(* What lies in some Seq(S) is a sequence, and the other way round.        *)
LEMMA SeqRange ==
  ASSUME NEW S, NEW s \in Seq(S)
  PROVE  IsSeq(s)
<1>1. s \in [1 .. Len(s) -> S] /\ Len(s) \in Nat
  OBVIOUS
<1>2. s \in [1 .. Len(s) -> Range(s)]
  BY <1>1 DEF Range
<1> QED
  BY <1>1, <1>2 DEF IsSeq

(* The shape of a sequence.                                                *)
LEMMA SeqShape ==
  ASSUME NEW s, IsSeq(s)
  PROVE  /\ Len(s) \in Nat /\ DOMAIN s = 1 .. Len(s)
         /\ s = <<>> <=> Len(s) = 0
         /\ s \in [1 .. Len(s) -> Range(s)]
  BY DEF IsSeq

(* A function on an initial segment is a sequence.                         *)
LEMMA SeqFunction ==
  ASSUME NEW n \in Nat, NEW S, NEW f \in [1 .. n -> S]
  PROVE  IsSeq(f) /\ Len(f) = n
<1>1. f \in Seq(S) /\ Len(f) = n
  OBVIOUS
<1> QED
  BY <1>1, SeqRange

(* Short sequences.                                                        *)
LEMMA SeqLiteral ==
  ASSUME NEW a, NEW b, NEW c, NEW d
  PROVE  IsSeq(<<>>) /\ IsSeq(<<a>>) /\ IsSeq(<<a, b>>) /\ IsSeq(<<a, b, c>>)
         /\ IsSeq(<<a, b, c, d>>)
  BY DEF IsSeq, Range

(* Concatenation.                                                          *)
LEMMA SeqConcat ==
  ASSUME NEW s, NEW t, IsSeq(s), IsSeq(t)
  PROVE  /\ IsSeq(s \o t)
         /\ Len(s \o t) = Len(s) + Len(t)
         /\ \A i \in 1 .. Len(s) : (s \o t)[i] = s[i]
         /\ \A i \in 1 .. Len(t) : (s \o t)[i + Len(s)] = t[i]
<1> DEFINE S == Range(s) \cup Range(t)
<1>1. s \in Seq(S) /\ t \in Seq(S)
  BY SeqShape
<1> HIDE DEF S
<1>2. s \o t \in Seq(S) /\ Len(s \o t) = Len(s) + Len(t)
  BY <1>1
<1>3. IsSeq(s \o t)
  BY <1>2, SeqRange
<1>4. \A i \in 1 .. Len(s) : (s \o t)[i] = s[i]
  BY <1>1
<1>5. \A i \in 1 .. Len(t) : (s \o t)[i + Len(s)] = t[i]
  BY <1>1
<1> QED
  BY <1>2, <1>3, <1>4, <1>5

(* The empty sequence.                                                     *)
LEMMA SeqEmpty ==
  IsSeq(<<>>) /\ Len(<<>>) = 0 /\ DOMAIN <<>> = {} /\ <<>> \o <<>> = <<>>
<1>1. IsSeq(<<>>)
  BY SeqLiteral
<1>2. Len(<<>>) = 0 /\ DOMAIN <<>> = {}
  BY <1>1, SeqShape
<1>3. IsSeq(<<>> \o <<>>) /\ Len(<<>> \o <<>>) = 0
  BY <1>1, <1>2, SeqConcat
<1> QED
  BY <1>1, <1>2, <1>3, SeqShape

(* A sequence with one more element.                                       *)
LEMMA SeqAppend ==
  ASSUME NEW s, IsSeq(s), NEW x
  PROVE  /\ IsSeq(Append(s, x))
         /\ Len(Append(s, x)) = Len(s) + 1
         /\ DOMAIN Append(s, x) = 1 .. Len(s) + 1
         /\ \A i \in 1 .. Len(s) : Append(s, x)[i] = s[i]
         /\ Append(s, x)[Len(s) + 1] = x
<1> DEFINE S == Range(s) \cup {x}
<1>1. s \in Seq(S) /\ x \in S
  BY SeqShape
<1> HIDE DEF S
<1>2. Append(s, x) \in Seq(S) /\ Len(Append(s, x)) = Len(s) + 1
  BY <1>1
<1>3. IsSeq(Append(s, x))
  BY <1>2, SeqRange
<1>4. DOMAIN Append(s, x) = 1 .. Len(s) + 1
  BY <1>2
<1>5. \A i \in 1 .. Len(s) : Append(s, x)[i] = s[i]
  BY <1>1
<1>6. Append(s, x)[Len(s) + 1] = x
  BY <1>1
<1> QED
  BY <1>2, <1>3, <1>4, <1>5, <1>6

(* The tail of a sequence.                                                 *)
LEMMA SeqTail ==
  ASSUME NEW s, IsSeq(s), s # <<>>
  PROVE  /\ IsSeq(Tail(s))
         /\ Len(Tail(s)) = Len(s) - 1
         /\ \A i \in 1 .. Len(Tail(s)) : Tail(s)[i] = s[i + 1]
<1> DEFINE S == Range(s)
<1>1. s \in Seq(S)
  BY DEF IsSeq
<1> HIDE DEF S
<1>2. Tail(s) \in Seq(S) /\ Len(Tail(s)) = Len(s) - 1
  BY <1>1
<1>3. \A i \in 1 .. Len(Tail(s)) : Tail(s)[i] = s[i + 1]
  BY <1>1, <1>2
<1> QED
  BY <1>2, <1>3, SeqRange

(* What is left of a sequence from some place on.                          *)
LEMMA SeqRest ==
  ASSUME NEW s, IsSeq(s), NEW i \in 1 .. Len(s)
  PROVE  LET t == SubSeq(s, i + 1, Len(s))
         IN /\ IsSeq(t)
            /\ Len(t) = Len(s) - i
            /\ \A j \in 1 .. Len(t) : t[j] = s[j + i]
<1> DEFINE S == Range(s)
           t == SubSeq(s, i + 1, Len(s))
<1>1. s \in Seq(S) /\ Len(s) \in Nat
  BY DEF IsSeq
<1> HIDE DEF S
<1>2. t \in Seq(S) /\ Len(t) = Len(s) - i
  BY <1>1
<1>3. \A j \in 1 .. Len(t) : t[j] = s[j + i]
  BY <1>1, <1>2
<1> QED
  BY <1>2, <1>3, SeqRange

-----------------------------------------------------------------------------
(***************************************************************************)
(* Unwinding.  Whatever process p does, its stack is cut somewhere and     *)
(* grows from there; the children of the collections cut off are aborted.  *)
(***************************************************************************)
AllKnown(ops) == IsSeq(ops) /\ \A i \in DOMAIN ops : Known(ops[i])

\* Known steps of which none counts a run of a threshold.
Plain(ops) ==
    /\ IsSeq(ops)
    /\ \A i \in DOMAIN ops : Known(ops[i]) /\ Do(ops[i]) # "counts"

\* rest is the stack of p without its first m steps.
Cut(p, m, rest) ==
    /\ m \in 0 .. Len(work[p])
    /\ IsSeq(rest)
    /\ Len(rest) = Len(work[p]) - m
    /\ \A j \in 1 .. Len(rest) : rest[j] = work[p][j + m]

\* The joins among the first m steps of p have no living child outside kids.
Covers(kids, p, m) ==
    \A i \in 1 .. m : Do(work[p][i]) = "join" =>
        \A k \in Arg(work[p][i]) : work[k] # <<>> => k \in kids

Unwinds(p, m, rest, ops, r, kids) ==
    /\ Cut(p, m, rest)
    /\ AllKnown(ops)
    /\ Covers(kids \cup JoinedIn(ops), p, m)
    /\ work[p] # <<>> \/ ops = <<>>
    /\ ops \o rest = <<>> \/ r \in Values
    /\ Leaves(p, ops \o rest, r, kids)

(* The children that a stretch of work owns.                               *)
LEMMA JoinedHere ==
  ASSUME NEW ops, NEW k
  PROVE  k \in JoinedIn(ops) <=>
           \E i \in DOMAIN ops : Do(ops[i]) = "join" /\ k \in Arg(ops[i])
  BY DEF JoinedIn

(* The new stack: new steps, and below them the old ones at their place.   *)
LEMMA NewStack ==
  ASSUME Stacks, NEW p \in Procs, NEW m, NEW rest, NEW ops, NEW r, NEW kids,
         Unwinds(p, m, rest, ops, r, kids)
  PROVE  /\ work' = [work EXCEPT ![p] = ops \o rest]
         /\ \A q \in Procs : q # p => work'[q] = work[q]
         /\ IsSeq(work'[p])
         /\ Len(work[p]) \in Nat /\ m \in 0 .. Len(work[p]) /\ Len(ops) \in Nat
         /\ Len(work'[p]) = Len(ops) + (Len(work[p]) - m)
         /\ \A i \in 1 .. Len(ops) : work'[p][i] = ops[i]
         /\ \A j \in m + 1 .. Len(work[p]) : work'[p][j + Len(ops) - m] = work[p][j]
<1>1. work' = [work EXCEPT ![p] = ops \o rest]
  BY DEF Unwinds, Leaves
<1>2. work'[p] = ops \o rest /\ \A q \in Procs : q # p => work'[q] = work[q]
  BY <1>1 DEF Stacks
<1>3. IsSeq(ops) /\ IsSeq(rest) /\ IsSeq(work[p])
  BY DEF Unwinds, AllKnown, Cut, Stacks
<1>4. /\ Len(ops) \in Nat /\ Len(work[p]) \in Nat
      /\ m \in 0 .. Len(work[p]) /\ Len(rest) = Len(work[p]) - m
  BY <1>3, SeqShape DEF Unwinds, Cut
<1>5. IsSeq(work'[p]) /\ Len(work'[p]) = Len(ops) + (Len(work[p]) - m)
  <2>1. IsSeq(ops \o rest) /\ Len(ops \o rest) = Len(ops) + Len(rest)
    BY <1>3, SeqConcat
  <2> QED
    BY <1>2, <1>4, <2>1
<1>6. \A i \in 1 .. Len(ops) : work'[p][i] = ops[i]
  BY <1>2, <1>3, SeqConcat
<1>7. ASSUME NEW j \in m + 1 .. Len(work[p])
      PROVE  work'[p][j + Len(ops) - m] = work[p][j]
  <2>1. j - m \in 1 .. Len(rest) /\ (j - m) + m = j
        /\ (j - m) + Len(ops) = j + Len(ops) - m
    BY <1>4
  <2>2. rest[j - m] = work[p][j]
    BY <2>1 DEF Unwinds, Cut
  <2>3. (ops \o rest)[(j - m) + Len(ops)] = rest[j - m]
    BY <1>3, <2>1, SeqConcat
  <2> QED
    BY <1>2, <2>1, <2>2, <2>3
<1> QED
  BY <1>1, <1>2, <1>4, <1>5, <1>6, <1>7

(* A step of the new stack is a new one or an old one at its old height.   *)
LEMMA StepsComeFrom ==
  ASSUME Stacks, NEW p \in Procs, NEW m, NEW rest, NEW ops, NEW r, NEW kids,
         Unwinds(p, m, rest, ops, r, kids), NEW i \in DOMAIN work'[p]
  PROVE  \/ i \in DOMAIN ops /\ work'[p][i] = ops[i]
         \/ \E j \in DOMAIN work[p] :
              /\ j > m /\ j + Len(work'[p]) = i + Len(work[p])
              /\ work'[p][i] = work[p][j]
<1> DEFINE L == Len(work[p])
<1>1. /\ L \in Nat /\ m \in 0 .. L /\ Len(ops) \in Nat
      /\ Len(work'[p]) = Len(ops) + (L - m)
      /\ IsSeq(work'[p]) /\ IsSeq(ops) /\ IsSeq(work[p])
  BY NewStack DEF Stacks, Unwinds, AllKnown
<1>2. i \in 1 .. Len(work'[p]) /\ DOMAIN ops = 1 .. Len(ops) /\ DOMAIN work[p] = 1 .. L
  BY <1>1, SeqShape
<1>3. CASE i <= Len(ops)
  BY <1>1, <1>2, <1>3, NewStack
<1>4. CASE i > Len(ops)
  <2> DEFINE j == i + L - Len(work'[p])
  <2>1. j \in m + 1 .. L /\ j + Len(ops) - m = i /\ j > m
    BY <1>1, <1>2, <1>4
  <2>4. i \in Nat /\ Len(work'[p]) \in Nat
    BY <1>1, <1>2
  <2>5. j + Len(work'[p]) = i + L
    BY <1>1, <2>4
  <2> HIDE DEF j
  <2>2. work'[p][j + Len(ops) - m] = work[p][j]
    BY <2>1, NewStack
  <2>3. j \in DOMAIN work[p] /\ j > m /\ work'[p][i] = work[p][j]
    BY <1>1, <1>2, <2>1, <2>2
  <2> QED
    BY <2>3, <2>5
<1> QED
  BY <1>1, <1>2, <1>3, <1>4

(* The stacks stay well-formed, and a process with work holds a value.     *)
LEMMA UnwindStacks ==
  ASSUME Stacks, Results, NEW p \in Procs, NEW m, NEW rest, NEW ops, NEW r, NEW kids,
         Unwinds(p, m, rest, ops, r, kids)
  PROVE  Stacks' /\ Results'
<1>1. UNCHANGED scenario /\ res' = [res EXCEPT ![p] = r]
  BY DEF Unwinds, Leaves
<1>3. ASSUME NEW i \in DOMAIN work'[p] PROVE Known(work'[p][i])
  <2>1. CASE i \in DOMAIN ops /\ work'[p][i] = ops[i]
    BY <2>1 DEF Unwinds, AllKnown
  <2>2. CASE \E j \in DOMAIN work[p] : work'[p][i] = work[p][j]
    BY <2>2 DEF Stacks
  <2> QED
    BY <2>1, <2>2, StepsComeFrom
<1>4. work' = [q \in Procs |-> work'[q]]
  BY NewStack DEF Stacks
<1>5. ASSUME NEW q \in Procs, NEW i \in DOMAIN work'[q] PROVE Known(work'[q][i])
  BY <1>3, NewStack DEF Stacks
<1>6. Stacks'
  <2>1. ASSUME NEW q \in Procs PROVE IsSeq(work'[q])
    BY NewStack DEF Stacks
  <2>2. \A q \in Procs : \A i \in DOMAIN work'[q] : (Known(work[q][i]))'
    BY <1>1, <1>5 DEF Known, Frames
  <2> QED
    BY <1>4, <2>1, <2>2 DEF Stacks
<1>7. ASSUME NEW q \in Procs, work'[q] # <<>> PROVE res'[q] \in Values
  <2>1. CASE q = p
    BY <1>1, <1>7, <2>1, NewStack DEF Unwinds, Results, Stacks
  <2>2. CASE q # p
    BY <1>1, <1>7, <2>2, NewStack DEF Results
  <2> QED
    BY <2>1, <2>2
<1> QED
  BY <1>1, <1>6, <1>7 DEF Results

(* No child is let loose.                                                  *)
LEMMA UnwindOrphans ==
  ASSUME Stacks, OrphansAreAborted,
         NEW p \in Procs, NEW m, NEW rest, NEW ops, NEW r, NEW kids,
         Unwinds(p, m, rest, ops, r, kids)
  PROVE  OrphansAreAborted'
<1>1. UNCHANGED scenario /\ doomed' = {q \in doomed \cup kids : work'[q] # <<>>}
  BY DEF Unwinds, Leaves, Doom
<1>2. SUFFICES ASSUME NEW k \in Procs \ Clients, work'[k] # <<>>,
                      ~\E q \in Procs : k \in JoinedIn(work'[q])
               PROVE  k \in doomed'
  BY <1>1 DEF OrphansAreAborted, Clients
<1>3. work[k] # <<>>
  <2>1. CASE k = p
    <3>1. work[p] = <<>> => m = 0 /\ rest = <<>> /\ ops = <<>> /\ ops \o rest = <<>>
      BY SeqShape DEF Unwinds, Cut, Stacks
    <3> QED
      BY <1>2, <2>1, <3>1, NewStack DEF Stacks
  <2>2. CASE k # p
    BY <1>2, <2>2, NewStack
  <2> QED
    BY <2>1, <2>2
<1>4. CASE k \in doomed
  BY <1>1, <1>2, <1>4
<1>5. CASE k \notin doomed
  <2>1. PICK q \in Procs : k \in JoinedIn(work[q])
    BY <1>3, <1>5 DEF OrphansAreAborted
  <2>2. q = p
    BY <1>2, <2>1, NewStack
  <2>3. PICK j \in DOMAIN work[p] : Do(work[p][j]) = "join" /\ k \in Arg(work[p][j])
    BY <2>1, <2>2, JoinedHere
  <2>4. j \in 1 .. Len(work[p])
    BY SeqShape DEF Stacks
  <2>5. CASE j <= m
    <3>1. k \in kids \cup JoinedIn(ops)
      BY <1>3, <2>3, <2>4, <2>5, NewStack DEF Unwinds, Covers
    <3>2. CASE k \in kids
      BY <1>1, <1>2, <3>2
    <3>3. CASE k \in JoinedIn(ops)
      <4>1. PICK i \in DOMAIN ops : Do(ops[i]) = "join" /\ k \in Arg(ops[i])
        BY <3>3, JoinedHere
      <4>2. i \in 1 .. Len(ops) /\ Len(ops) \in Nat
        BY <4>1, SeqShape DEF Unwinds, AllKnown
      <4>3. i \in 1 .. Len(work'[p])
        BY <4>2, NewStack
      <4>4. i \in DOMAIN work'[p] /\ work'[p][i] = ops[i]
        BY <4>2, <4>3, NewStack, SeqShape
      <4>5. k \in JoinedIn(work'[p])
        BY <4>1, <4>4, JoinedHere
      <4> QED
        BY <1>2, <4>5
    <3> QED
      BY <3>1, <3>2, <3>3
  <2>6. CASE j > m
    <3> DEFINE i == j + Len(ops) - m
    <3>1. i \in 1 .. Len(work'[p]) /\ j \in m + 1 .. Len(work[p])
      BY <2>4, <2>6, NewStack
    <3>2. work'[p][i] = work[p][j]
      BY <3>1, NewStack
    <3>3. i \in DOMAIN work'[p]
      BY <3>1, NewStack, SeqShape
    <3> HIDE DEF i
    <3>4. k \in JoinedIn(work'[p])
      BY <2>3, <3>2, <3>3, JoinedHere
    <3> QED
      BY <1>2, <3>4
  <2> QED
    BY <2>4, <2>5, <2>6, NewStack
<1> QED
  BY <1>4, <1>5

(* As long as the marks of a threshold only stay where they are, at the    *)
(* same height of the same stack, and its counter does, so does its limit. *)
LEMMA LimitedStays ==
  ASSUME Stacks, Stacks', UNCHANGED scenario, NEW n \in DOMAIN Frames, Limited(n),
         count'[n] = count[n],
         \A q \in Procs : \A i \in DOMAIN work'[q] : Marks(work'[q][i], n) =>
            \E j \in DOMAIN work[q] :
                j + Len(work'[q]) = i + Len(work[q]) /\ work'[q][i] = work[q][j]
  PROVE  Limited(n)'
<1>1. \A q \in Procs : /\ Len(work[q]) \in Nat /\ DOMAIN work[q] \subseteq Nat
                       /\ Len(work'[q]) \in Nat /\ DOMAIN work'[q] \subseteq Nat
  <2>1. \A q \in Procs : IsSeq(work[q]) /\ IsSeq(work'[q])
    BY DEF Stacks
  <2> QED
    BY <2>1, SeqShape
<1>2. SUFFICES ASSUME NEW q \in Procs, NEW i \in DOMAIN work'[q], Marks(work'[q][i], n)
               PROVE  /\ count[n] < Frames[n].threshold
                      /\ \A o \in Procs : \A l \in DOMAIN work'[o] :
                           Marks(work'[o][l], n) => o = q /\ l = i
  BY DEF Limited, Frames, Marks
<1>3. PICK j \in DOMAIN work[q] :
        j + Len(work'[q]) = i + Len(work[q]) /\ work'[q][i] = work[q][j]
  BY <1>2
<1>4. Marks(work[q][j], n)
  BY <1>2, <1>3
<1>5. ASSUME NEW o \in Procs, NEW l \in DOMAIN work'[o], Marks(work'[o][l], n)
      PROVE  o = q /\ l = i
  <2>1. PICK h \in DOMAIN work[o] :
          h + Len(work'[o]) = l + Len(work[o]) /\ work'[o][l] = work[o][h]
    BY <1>5
  <2>2. o = q /\ h = j
    BY <1>4, <1>5, <2>1 DEF Limited
  <2>3. i \in Nat /\ l \in Nat /\ j \in Nat /\ Len(work[q]) \in Nat /\ Len(work'[q]) \in Nat
    BY <1>1, <2>2
  <2> QED
    BY <1>3, <2>1, <2>2, <2>3
<1> QED
  BY <1>4, <1>5 DEF Limited

(* Where the marks come from in an unwinding.                              *)
LEMMA UnwindMarks ==
  ASSUME Stacks, NEW p \in Procs, NEW m, NEW rest, NEW ops, NEW r, NEW kids,
         Unwinds(p, m, rest, ops, r, kids), NEW q \in Procs, NEW i \in DOMAIN work'[q]
  PROVE  \/ q = p /\ i \in DOMAIN ops /\ work'[q][i] = ops[i]
         \/ \E j \in DOMAIN work[q] :
              /\ q = p => j > m
              /\ j + Len(work'[q]) = i + Len(work[q])
              /\ work'[q][i] = work[q][j]
<1>1. CASE q = p
  BY <1>1, StepsComeFrom
<1>2. CASE q # p
  BY <1>2, NewStack
<1> QED
  BY <1>1, <1>2

(* All that an unwinding preserves by itself, and with counters unchanged. *)
LEMMA UnwindStep ==
  ASSUME FrameInv, NEW p \in Procs, NEW m, NEW rest, NEW ops, NEW r, NEW kids,
         Unwinds(p, m, rest, ops, r, kids)
  PROVE  /\ UNCHANGED scenario /\ scenario' \in Scenarios
         /\ Stacks' /\ Results' /\ OrphansAreAborted'
         /\ Plain(ops) /\ UNCHANGED <<count, overlapped>> => FrameInv'
<1>1. Stacks /\ Results /\ OrphansAreAborted /\ Limits /\ scenario \in Scenarios
  BY DEF FrameInv
<1>2. Stacks' /\ Results'
  BY <1>1, UnwindStacks
<1>3. OrphansAreAborted'
  BY <1>1, UnwindOrphans
<1>4. UNCHANGED scenario
  BY DEF Unwinds, Leaves
<1>5. ASSUME Plain(ops), UNCHANGED <<count, overlapped>> PROVE Limits'
  <2>1. ASSUME NEW n \in DOMAIN Frames, Limited(n) PROVE Limited(n)'
    <3>1. ASSUME NEW q \in Procs, NEW i \in DOMAIN work'[q], Marks(work'[q][i], n)
          PROVE  \E j \in DOMAIN work[q] :
                   j + Len(work'[q]) = i + Len(work[q]) /\ work'[q][i] = work[q][j]
      <4>1. i \in DOMAIN ops => work'[q][i] # ops[i]
        BY <1>5, <3>1 DEF Plain, Marks
      <4> QED
        BY <1>1, <4>1, UnwindMarks
    <3> QED
      BY <1>1, <1>2, <1>4, <1>5, <2>1, <3>1, LimitedStays
  <2> QED
    BY <1>1, <1>4, <1>5, <2>1 DEF Limits, Frames
<1> QED
  BY <1>1, <1>2, <1>3, <1>4, <1>5 DEF FrameInv

(* The first step of p is done, new ones come in its place.                *)
LEMMA HeadStep ==
  ASSUME FrameInv, NEW p \in Procs, work[p] # <<>>, NEW ops, Plain(ops), NEW r \in Values,
         NEW kids, Covers(kids \cup JoinedIn(ops), p, 1), Leaves(p, ops \o Tail(work[p]), r, kids),
         UNCHANGED <<count, overlapped>>
  PROVE  FrameInv'
<1>1. IsSeq(work[p])
  BY DEF FrameInv, Stacks
<1>2. Len(work[p]) \in Nat /\ Len(work[p]) # 0
  BY <1>1, SeqShape
<1>3. Cut(p, 1, Tail(work[p]))
  BY <1>1, <1>2, SeqTail DEF Cut
<1>4. AllKnown(ops)
  BY DEF Plain, AllKnown
<1>5. Unwinds(p, 1, Tail(work[p]), ops, r, kids)
  BY <1>3, <1>4 DEF Unwinds
<1> QED
  BY <1>5, UnwindStep

(* The same where the first step owns nothing.                             *)
LEMMA ProceedStep ==
  ASSUME FrameInv, NEW p \in Procs, work[p] # <<>>, Do(work[p][1]) # "join",
         NEW ops, Plain(ops), NEW r \in Values, Proceeds(p, ops, r),
         UNCHANGED <<count, overlapped>>
  PROVE  FrameInv'
<1>1. Covers({} \cup JoinedIn(ops), p, 1)
  BY DEF Covers
<1> QED
  BY <1>1, HeadStep DEF Proceeds

(* The same with nothing but the stack changed.                            *)
LEMMA ContinueStep ==
  ASSUME FrameInv, NEW p \in Procs, work[p] # <<>>, Do(work[p][1]) # "join",
         NEW ops, Plain(ops), Continues(p, ops)
  PROVE  FrameInv'
<1>1. res[p] \in Values
  BY DEF FrameInv, Results
<1> QED
  BY <1>1, ProceedStep DEF Continues, counters

(* A future that is dropped or panics loses all it has and owns.           *)
LEMMA VanishStep ==
  ASSUME FrameInv, NEW p \in Procs, NEW r, Leaves(p, <<>>, r, LiveKids(work[p])),
         UNCHANGED <<count, overlapped>>
  PROVE  FrameInv'
<1>1. IsSeq(work[p])
  BY DEF FrameInv, Stacks
<1>2. Len(work[p]) \in Nat /\ DOMAIN work[p] = 1 .. Len(work[p])
  BY <1>1, SeqShape
<1>3. Cut(p, Len(work[p]), <<>>)
  BY <1>2, SeqEmpty DEF Cut
<1>4. Covers(LiveKids(work[p]) \cup JoinedIn(<<>>), p, Len(work[p]))
  BY <1>2, JoinedHere DEF Covers, LiveKids
<1>5. Plain(<<>>) /\ AllKnown(<<>>) /\ <<>> \o <<>> = <<>>
  BY SeqEmpty DEF Plain, AllKnown
<1>6. Unwinds(p, Len(work[p]), <<>>, <<>>, r, LiveKids(work[p]))
  BY <1>3, <1>4, <1>5 DEF Unwinds
<1> QED
  BY <1>5, <1>6, UnwindStep

-----------------------------------------------------------------------------
(***************************************************************************)
(* New steps.                                                              *)
(***************************************************************************)
PlainStep(op) == Known(op) /\ Do(op) # "counts"

(* Stretches of known steps.                                               *)
LEMMA PlainLiteral ==
  /\ Plain(<<>>)
  /\ \A a : PlainStep(a) => Plain(<<a>>)
  /\ \A a, b : PlainStep(a) /\ PlainStep(b) => Plain(<<a, b>>)
  /\ \A a, b, c : PlainStep(a) /\ PlainStep(b) /\ PlainStep(c) => Plain(<<a, b, c>>)
  /\ \A a, b, c, d : PlainStep(a) /\ PlainStep(b) /\ PlainStep(c) /\ PlainStep(d)
                       => Plain(<<a, b, c, d>>)
<1>1. Plain(<<>>)
  BY SeqEmpty DEF Plain
<1>2. ASSUME NEW a, PlainStep(a) PROVE Plain(<<a>>)
  <2>1. \A i \in DOMAIN <<a>> : <<a>>[i] \in {a}
    OBVIOUS
  <2>2. \A op \in {a} : Known(op) /\ Do(op) # "counts"
    BY <1>2 DEF PlainStep
  <2> QED
    BY <2>1, <2>2, SeqLiteral DEF Plain
<1>3. ASSUME NEW a, NEW b, PlainStep(a), PlainStep(b) PROVE Plain(<<a, b>>)
  <2>1. \A i \in DOMAIN <<a, b>> : <<a, b>>[i] \in {a, b}
    OBVIOUS
  <2>2. \A op \in {a, b} : Known(op) /\ Do(op) # "counts"
    BY <1>3 DEF PlainStep
  <2> QED
    BY <2>1, <2>2, SeqLiteral DEF Plain
<1>4. ASSUME NEW a, NEW b, NEW c, PlainStep(a), PlainStep(b), PlainStep(c)
      PROVE  Plain(<<a, b, c>>)
  <2>1. \A i \in DOMAIN <<a, b, c>> : <<a, b, c>>[i] \in {a, b, c}
    OBVIOUS
  <2>2. \A op \in {a, b, c} : Known(op) /\ Do(op) # "counts"
    BY <1>4 DEF PlainStep
  <2> QED
    BY <2>1, <2>2, SeqLiteral DEF Plain
<1>5. ASSUME NEW a, NEW b, NEW c, NEW d,
             PlainStep(a), PlainStep(b), PlainStep(c), PlainStep(d)
      PROVE  Plain(<<a, b, c, d>>)
  <2>1. \A i \in DOMAIN <<a, b, c, d>> : <<a, b, c, d>>[i] \in {a, b, c, d}
    OBVIOUS
  <2>2. \A op \in {a, b, c, d} : Known(op) /\ Do(op) # "counts"
    BY <1>5 DEF PlainStep
  <2> QED
    BY <2>1, <2>2, SeqLiteral DEF Plain
<1> QED
  BY <1>1, <1>2, <1>3, <1>4, <1>5

(* Two stretches, one after the other.                                     *)
LEMMA PlainConcat ==
  ASSUME NEW s, NEW t, Plain(s), Plain(t)
  PROVE  Plain(s \o t)
<1>1. /\ IsSeq(s) /\ IsSeq(t) /\ IsSeq(s \o t)
      /\ Len(s) \in Nat /\ Len(t) \in Nat /\ Len(s \o t) = Len(s) + Len(t)
      /\ DOMAIN s = 1 .. Len(s) /\ DOMAIN t = 1 .. Len(t)
      /\ DOMAIN (s \o t) = 1 .. Len(s \o t)
  BY SeqConcat, SeqShape DEF Plain
<1>2. ASSUME NEW i \in DOMAIN (s \o t)
      PROVE  Known((s \o t)[i]) /\ Do((s \o t)[i]) # "counts"
  <2>1. CASE i <= Len(s)
    <3>1. i \in 1 .. Len(s)
      BY <1>1, <1>2, <2>1
    <3> QED
      BY <1>1, <3>1, SeqConcat DEF Plain
  <2>2. CASE i > Len(s)
    <3>1. PICK j \in 1 .. Len(t) : i = j + Len(s)
      <4>1. i - Len(s) \in 1 .. Len(t) /\ i = (i - Len(s)) + Len(s)
        BY <1>1, <1>2, <2>2
      <4> QED
        BY <4>1
    <3>2. (s \o t)[i] = t[j]
      BY <1>1, <3>1, SeqConcat
    <3> QED
      BY <1>1, <3>2 DEF Plain
  <2> QED
    BY <1>1, <2>1, <2>2
<1> QED
  BY <1>1, <1>2 DEF Plain

(* Steps that are about no frame are known; the others name one.           *)
LEMMA PlainOp ==
  ASSUME NEW do, NEW on, NEW arg
  PROVE  /\ do \notin FrameSteps \cup {"run"} => PlainStep(Op(do, on, arg))
         /\ /\ do \in {"exec", "timed", "eval", "and", "or", "negate"}
            /\ on \in DOMAIN Frames
            => PlainStep(Op(do, on, arg))
         /\ do \in {"next", "quit"} /\ on \in DOMAIN Frames /\ arg \in Nat \ {0}
            => PlainStep(Op(do, on, arg))
<1>1. Do(Op(do, on, arg)) = do /\ On(Op(do, on, arg)) = on /\ Arg(Op(do, on, arg)) = arg
  BY DEF Op, Do, On, Arg
<1> HIDE DEF Op, Do, On, Arg
<1> QED
  BY <1>1 DEF PlainStep, Known, FrameSteps

(* Steps that need a frame of one kind.                                    *)
LEMMA PlainOpOfKind ==
  ASSUME NEW on \in DOMAIN Frames, NEW arg
  PROVE  /\ Frames[on].kind = "leaf" => PlainStep(Op("leaf", on, arg))
         /\ Frames[on].kind = "fallback" => PlainStep(Op("recover", on, arg))
         /\ Frames[on].kind = "retry"
            => PlainStep(Op("attempt", on, arg)) /\ PlainStep(Op("attempted", on, arg))
         /\ Frames[on].kind = "dependency" => PlainStep(Op("resolve", on, arg))
<1>1. \A do : /\ Do(Op(do, on, arg)) = do /\ On(Op(do, on, arg)) = on
              /\ Arg(Op(do, on, arg)) = arg
  BY DEF Op, Do, On, Arg
<1> HIDE DEF Op, Do, On, Arg
<1> QED
  BY <1>1 DEF PlainStep, Known, FrameSteps

-----------------------------------------------------------------------------
(***************************************************************************)
(* The invariant, action by action.                                        *)
(***************************************************************************)
(* The step a process is at is one of its own.                             *)
LEMMA FirstStep ==
  ASSUME FrameInv, NEW p \in Procs, NEW do, At(p, do)
  PROVE  work[p] # <<>> /\ Do(work[p][1]) = do /\ Known(work[p][1]) /\ res[p] \in Values
<1>1. IsSeq(work[p]) /\ work[p] # <<>>
  BY DEF FrameInv, Stacks, At
<1>2. 1 \in DOMAIN work[p]
  BY <1>1, SeqShape
<1> QED
  BY <1>1, <1>2 DEF FrameInv, Stacks, Results, At

(* The frame that a step is about, and its children.                       *)
LEMMA FrameFacts ==
  ASSUME FrameInv, NEW n \in DOMAIN Frames
  PROVE  /\ ProperFrame(scenario, Frames[n])
         /\ Len(Frames[n].kids) \in Nat /\ DOMAIN Frames[n].kids = 1 .. Len(Frames[n].kids)
         /\ \A i \in DOMAIN Frames[n].kids : Frames[n].kids[i] \in DOMAIN Frames
         /\ Frames[n].kind \in {"timeout", "delay", "retry", "threshold", "dependency"}
              => PlainStep(Exec(Frames[n].kids[1]))
         /\ Frames[n].kind \in {"fallback", "condition"}
              => PlainStep(Exec(Frames[n].kids[1])) /\ PlainStep(Exec(Frames[n].kids[2]))
<1>1. ProperFrame(scenario, Frames[n])
  BY ScenarioAssumption DEF FrameInv, Frames
<1>2. Frames[n].kids \in Seq(DOMAIN Frames)
  BY <1>1 DEF ProperFrame, Frames
<1>3. /\ Len(Frames[n].kids) \in Nat /\ DOMAIN Frames[n].kids = 1 .. Len(Frames[n].kids)
      /\ \A i \in DOMAIN Frames[n].kids : Frames[n].kids[i] \in DOMAIN Frames
  BY <1>2
<1>4. \A i \in DOMAIN Frames[n].kids : PlainStep(Exec(Frames[n].kids[i]))
  BY <1>3, PlainOp DEF Exec
<1> QED
  BY <1>1, <1>3, <1>4 DEF ProperFrame

(* What a client may do consists of plain steps.                           *)
LEMMA ProgramPlain ==
  ASSUME NEW ops, ProperProgram(scenario, ops)
  PROVE  Plain(ops)
<1>1. ASSUME NEW i \in DOMAIN ops PROVE Known(ops[i]) /\ Do(ops[i]) # "counts"
  <2>1. Do(ops[i]) \in Offered /\ (Do(ops[i]) = "run" => On(ops[i]) \in DOMAIN scenario.root)
    BY DEF ProperProgram
  <2> HIDE DEF Do, On
  <2> QED
    BY <2>1 DEF Offered, Known, FrameSteps
<1> QED
  BY <1>1 DEF ProperProgram, Plain

(* An emission puts a delivery for every hook found in its place.          *)
LEMMA EmitStep ==
  ASSUME FrameInv, Registry, NEW p \in Procs, Emit(p)
  PROVE  FrameInv'
<1> DEFINE event == Arg(work[p][1])
           task == On(work[p][1])
           slots == Entry(event, task)
<1>1. At(p, "emit") /\ UNCHANGED <<count, overlapped>>
  BY DEF Emit
<1>2. work[p] # <<>> /\ Do(work[p][1]) = "emit" /\ res[p] \in Values
  BY <1>1, FirstStep
<1>3. IsSeq(slots)
  BY SeqEmpty DEF Registry, Keeps, Mirrors, Entry
<1>4. CASE Unreachable(slots)
  BY <1>1, <1>4, VanishStep DEF Emit, Panics
<1>5. CASE ~Unreachable(slots)
  <2>1. PICK s \in Snapshots(slots) :
          Proceeds(p, [i \in DOMAIN s |-> Op("deliver", task, s[i])], res[p])
    BY <1>5 DEF Emit
  <2> DEFINE ops == [i \in DOMAIN s |-> Op("deliver", task, s[i])]
  <2>2. DOMAIN s = DOMAIN slots
    BY DEF Snapshots
  <2>3. DOMAIN ops = 1 .. Len(slots) /\ Len(slots) \in Nat
    BY <1>3, <2>2, SeqShape
  <2>4. \A i \in DOMAIN ops : PlainStep(ops[i])
    BY PlainOp DEF FrameSteps
  <2>5. ops \in [1 .. Len(slots) -> Range(ops)]
    BY <2>3 DEF Range
  <2> HIDE DEF ops
  <2>6. Plain(ops)
    BY <2>3, <2>4, <2>5, SeqFunction DEF Plain, PlainStep
  <2>7. Proceeds(p, ops, res[p])
    BY <2>1 DEF ops
  <2> QED
    BY <1>1, <1>2, <2>6, <2>7, ProceedStep
<1> QED
  BY <1>4, <1>5

(* The other uses of hooks and dependencies.                               *)
LEMMA HookFrames ==
  ASSUME FrameInv, Registry, NEW p \in Procs, HookStep(p)
  PROVE  FrameInv'
<1>1. ASSUME Deliver(p) PROVE FrameInv'
  <2>1. At(p, "deliver")
    BY <1>1 DEF Deliver
  <2>2. work[p] # <<>> /\ Do(work[p][1]) = "deliver" /\ res[p] \in Values
    BY <2>1, FirstStep
  <2>3. ASSUME NEW d, MonitorCounts(p, d) PROVE FrameInv'
    <3>1. UNCHANGED <<count, overlapped>>
      BY <2>3 DEF MonitorCounts
    <3>2. Plain(IF Raises(d) THEN <<Op("store", d, 0)>> ELSE <<>>)
      BY PlainLiteral, PlainOp DEF FrameSteps
    <3>3. CASE Panics(p)
      BY <3>1, <3>3, VanishStep DEF Panics
    <3>4. CASE Proceeds(p, IF Raises(d) THEN <<Op("store", d, 0)>> ELSE <<>>, res[p])
      BY <2>2, <3>1, <3>2, <3>4, ProceedStep
    <3> QED
      BY <2>3, <3>3, <3>4 DEF MonitorCounts
  <2>4. ASSUME Continues(p, <<>>) PROVE FrameInv'
    BY <2>2, <2>4, PlainLiteral, ContinueStep
  <2> QED
    BY <1>1, <2>3, <2>4 DEF Deliver
<1>2. ASSUME NEW do \in {"store", "attach", "detach", "shared", "instruct", "depend", "disable",
                         "enable"},
             At(p, do), NEW ops, Plain(ops), Proceeds(p, ops, res[p]),
             UNCHANGED <<count, overlapped>>
      PROVE  FrameInv'
  <2>1. work[p] # <<>> /\ Do(work[p][1]) = do /\ res[p] \in Values
    BY <1>2, FirstStep
  <2> QED
    BY <1>2, <2>1, ProceedStep
<1>3. \A event, task : Plain(<<EmitOp(event, task)>>)
  BY PlainLiteral, PlainOp DEF EmitOp, FrameSteps
<1>4. Plain(<<>>)
  BY PlainLiteral
<1>5. ASSUME StoreFlag(p) \/ disable(p) \/ enable(p) PROVE FrameInv'
  BY <1>2, <1>4, <1>5 DEF StoreFlag, disable, enable
<1>6. ASSUME attach_hook(p) \/ Depend(p) PROVE FrameInv'
  <2>1. PICK event, task : Proceeds(p, <<EmitOp(<<"OnHookAttach">> \o event, task)>>, res[p])
    BY <1>6 DEF attach_hook, Depend, Files
  <2>2. (At(p, "attach") \/ At(p, "depend")) /\ UNCHANGED <<count, overlapped>>
    BY <1>6 DEF attach_hook, Depend, counters
  <2> QED
    BY <1>2, <1>3, <2>1, <2>2
<1>7. ASSUME detach_hook(p) PROVE FrameInv'
  <2>1. PICK event, task :
          \/ Proceeds(p, <<>>, res[p])
          \/ Proceeds(p, <<EmitOp(<<"OnHookDetach">> \o event, task)>>, res[p])
    BY <1>7 DEF detach_hook
  <2>2. At(p, "detach") /\ UNCHANGED <<count, overlapped>>
    BY <1>7 DEF detach_hook, counters
  <2> QED
    BY <1>2, <1>3, <1>4, <2>1, <2>2
<1>8. ASSUME shared(p) PROVE FrameInv'
  <2>1. PICK event, task :
          \/ Proceeds(p, <<>>, res[p])
          \/ Proceeds(p, <<EmitOp(<<"OnHookAttach">> \o event, task)>>, res[p])
    BY <1>8 DEF shared, Files
  <2>2. At(p, "shared") /\ UNCHANGED <<count, overlapped>>
    BY <1>8 DEF shared, counters
  <2> QED
    BY <1>2, <1>3, <1>4, <2>1, <2>2
<1>9. ASSUME instruct(p) PROVE FrameInv'
  <2>1. At(p, "instruct") /\ UNCHANGED <<count, overlapped>>
    BY <1>9 DEF instruct, counters
  <2>2. Panics(p) \/ Proceeds(p, <<>>, res[p])
    BY <1>9 DEF instruct
  <2>3. CASE Panics(p)
    BY <2>1, <2>3, VanishStep DEF Panics
  <2>4. CASE Proceeds(p, <<>>, res[p])
    BY <1>2, <1>4, <2>1, <2>4
  <2> QED
    BY <2>2, <2>3, <2>4
<1> QED
  BY <1>1, <1>5, <1>6, <1>7, <1>8, <1>9, EmitStep DEF HookStep

(* A frame that begins: its execute() comes apart into its steps.          *)
LEMMA ExecuteFrames ==
  ASSUME FrameInv, NEW p \in Procs,
         \/ run(p) \/ Enter(p) \/ NoOperation(p) \/ Delay(p) \/ Fallback(p) \/ Condition(p)
         \/ Retry(p) \/ Timeout(p) \/ Dependency(p) \/ Sequential(p) \/ Selection(p)
  PROVE  FrameInv'
<1> DEFINE n == On(work[p][1])
<1>1. ASSUME NEW kind, Executes(p, kind)
      PROVE  /\ work[p] # <<>> /\ Do(work[p][1]) = "exec" /\ n \in DOMAIN Frames
             /\ Frames[n].kind = kind /\ Frame(p) = Frames[n] /\ res[p] \in Values
  BY <1>1, FirstStep DEF Executes, Known, FrameSteps, Frame
<1>2. \A event, task : PlainStep(EmitOp(event, task))
  BY PlainOp DEF EmitOp, FrameSteps
<1>3. ASSUME NEW kind, Executes(p, kind), NEW ops, Plain(ops), Continues(p, ops)
      PROVE  FrameInv'
  BY <1>1, <1>3, ContinueStep
<1>4. ASSUME NEW kind, Executes(p, kind), NEW r \in Outcomes, Returns(p, r) PROVE FrameInv'
  <2>1. Plain(<<>>) /\ r \in Values
    BY PlainLiteral DEF Outcomes, Values
  <2>2. work[p] # <<>> /\ Do(work[p][1]) # "join"
    BY <1>1, <1>4
  <2> QED
    BY <1>4, <2>1, <2>2, ProceedStep DEF Returns, counters
<1>5. ASSUME run(p) PROVE FrameInv'
  <2> DEFINE task == n
  <2>1. At(p, "run")
    BY <1>5 DEF run
  <2>2. work[p] # <<>> /\ Do(work[p][1]) # "join" /\ task \in DOMAIN scenario.root
    BY <2>1, FirstStep DEF Known
  <2>3. scenario.root[task] \in DOMAIN Frames
    BY <2>2, ScenarioAssumption DEF FrameInv, Frames
  <2>4. PlainStep(Exec(scenario.root[task]))
    BY <2>3, PlainOp DEF Exec
  <2>5. Plain(<<EmitOp(<<"OnTaskStart">>, task), Exec(scenario.root[task]),
                EmitOp(OnTaskEnd, task)>>)
    BY <1>2, <2>4, PlainLiteral
  <2> QED
    BY <1>5, <2>2, <2>5, ContinueStep DEF run
<1>6. ASSUME Enter(p) PROVE FrameInv'
  <2>1. Executes(p, "leaf")
    BY <1>6 DEF Enter
  <2>2. n \in DOMAIN Frames /\ Frames[n].kind = "leaf" /\ Frame(p) = Frames[n]
    BY <1>1, <2>1
  <2>3. Plain(Frame(p).acts)
    BY <2>2, FrameFacts, ProgramPlain DEF ProperFrame
  <2>4. Plain(<<Op("leaf", n, 0)>>)
    BY <2>2, PlainOpOfKind, PlainLiteral
  <2>5. Plain(Frame(p).acts \o <<Op("leaf", n, 0)>>)
    BY <2>3, <2>4, PlainConcat
  <2> QED
    BY <1>3, <1>6, <2>1, <2>5 DEF Enter
<1>7. ASSUME NoOperation(p) PROVE FrameInv'
  BY <1>4, <1>7 DEF NoOperation, Outcomes
<1>8. ASSUME Delay(p) PROVE FrameInv'
  <2>1. Executes(p, "delay")
    BY <1>8 DEF Delay
  <2>2. PlainStep(Exec(Frame(p).kids[1])) /\ PlainStep(Op("sleep", 0, Frame(p).delay))
    BY <1>1, <2>1, FrameFacts, PlainOp DEF FrameSteps
  <2>3. Plain(<<EmitOp(<<"OnDelayStart">>, Frame(p).task), Op("sleep", 0, Frame(p).delay),
                EmitOp(<<"OnDelayEnd">>, Frame(p).task), Exec(Frame(p).kids[1])>>)
    BY <1>2, <2>2, PlainLiteral
  <2> QED
    BY <1>3, <1>8, <2>1, <2>3 DEF Delay
<1>9. ASSUME Fallback(p) PROVE FrameInv'
  <2>1. Executes(p, "fallback")
    BY <1>9 DEF Fallback
  <2>2. PlainStep(Exec(Frame(p).kids[1])) /\ PlainStep(Op("recover", n, 0))
    BY <1>1, <2>1, FrameFacts, PlainOpOfKind
  <2>3. Plain(<<Exec(Frame(p).kids[1]), Op("recover", n, 0)>>)
    BY <2>2, PlainLiteral
  <2> QED
    BY <1>3, <1>9, <2>1, <2>3 DEF Fallback
<1>10. ASSUME Condition(p) PROVE FrameInv'
  <2>1. Executes(p, "condition")
    BY <1>10 DEF Condition
  <2>2. PlainStep(Exec(Frame(p).kids[1])) /\ PlainStep(Exec(Frame(p).kids[2]))
    BY <1>1, <2>1, FrameFacts
  <2>3. /\ Plain(<<EmitOp(<<"OnTruthyValueEvent">>, Frame(p).task), Exec(Frame(p).kids[1])>>)
        /\ Plain(<<EmitOp(<<"OnFalseyValueEvent">>, Frame(p).task), Exec(Frame(p).kids[2])>>)
    BY <1>2, <2>2, PlainLiteral
  <2> QED
    BY <1>3, <1>10, <2>1, <2>3 DEF Condition
<1>11. ASSUME Retry(p) PROVE FrameInv'
  <2>1. Executes(p, "retry")
    BY <1>11 DEF Retry
  <2>2. Plain(<<Op("attempt", n, 0)>>)
    BY <1>1, <2>1, PlainOpOfKind, PlainLiteral
  <2> QED
    BY <1>3, <1>11, <2>1, <2>2 DEF Retry
<1>12. ASSUME Timeout(p) PROVE FrameInv'
  <2>1. Executes(p, "timeout")
    BY <1>12 DEF Timeout
  <2>2. PlainStep(Exec(Frame(p).kids[1])) /\ PlainStep(Op("timed", n, 0))
    BY <1>1, <2>1, FrameFacts, PlainOp
  <2>3. Plain(<<Exec(Frame(p).kids[1]), Op("timed", n, 0)>>)
    BY <2>2, PlainLiteral
  <2> QED
    BY <1>3, <1>12, <2>1, <2>3 DEF Timeout
<1>13. ASSUME Dependency(p) PROVE FrameInv'
  <2> DEFINE rest == <<EmitOp(<<"OnDependencyValidation">>, Frame(p).task),
                       Op("resolve", n, 0)>>
  <2>1. Executes(p, "dependency")
    BY <1>13 DEF Dependency
  <2>2. work[p] # <<>> /\ Do(work[p][1]) # "join" /\ n \in DOMAIN Frames
    BY <1>1, <2>1
  <2>3. PlainStep(Op("resolve", n, 0)) /\ PlainStep(Op("eval", n, Frame(p).on))
    BY <1>1, <2>1, PlainOp, PlainOpOfKind
  <2>4. Plain(rest) /\ Plain(<<Op("eval", n, Frame(p).on)>>)
    BY <1>2, <2>3, PlainLiteral
  <2> HIDE DEF rest
  <2>5. Plain(<<Op("eval", n, Frame(p).on)>> \o rest)
    BY <2>4, PlainConcat
  <2>6. CASE Proceeds(p, rest, "false") /\ UNCHANGED <<hookVars, counters>>
    BY <2>2, <2>4, <2>6, ProceedStep DEF counters, Values
  <2>7. CASE Continues(p, <<Op("eval", n, Frame(p).on)>> \o rest)
    BY <1>3, <2>1, <2>5, <2>7
  <2> QED
    BY <1>13, <2>6, <2>7 DEF Dependency, rest
<1>14. ASSUME Sequential(p) PROVE FrameInv'
  <2>1. Executes(p, "sequential")
    BY <1>14 DEF Sequential
  <2>2. Plain(<<Op("next", n, 1)>>)
    BY <1>1, <2>1, PlainOp, PlainLiteral
  <2> QED
    BY <1>3, <1>14, <2>1, <2>2 DEF Sequential
<1>15. ASSUME Selection(p) PROVE FrameInv'
  <2>1. Executes(p, "selection")
    BY <1>15 DEF Selection
  <2>2. n \in DOMAIN Frames /\ Frame(p) = Frames[n]
    BY <1>1, <2>1
  <2>3. ASSUME NEW i \in DOMAIN Frame(p).kids, Continues(p, Child(n, i)) PROVE FrameInv'
    <3>1. PlainStep(Exec(Frames[n].kids[i]))
      BY <2>2, <2>3, FrameFacts, PlainOp DEF Exec
    <3>2. Plain(Child(n, i))
      BY <1>2, <3>1, PlainLiteral DEF Child
    <3> QED
      BY <1>3, <2>1, <2>3, <3>2
  <2> QED
    BY <1>4, <1>15, <2>1, <2>3 DEF Selection, Outcomes
<1> QED
  BY <1>5, <1>6, <1>7, <1>8, <1>9, <1>10, <1>11, <1>12, <1>13, <1>14, <1>15

(* A frame that goes on, with the result of its child or without one.      *)
LEMMA ResumeFrames ==
  ASSUME FrameInv, NEW p \in Procs,
         \/ Leaf(p) \/ Wake(p) \/ Recover(p) \/ Attempt(p) \/ Attempted(p) \/ InTime(p)
         \/ is_resolved(p) \/ Combine(p) \/ Resolve(p) \/ NextChild(p) \/ QuitOrNext(p)
  PROVE  FrameInv'
<1> DEFINE n == On(work[p][1])
<1>1. ASSUME NEW do \in FrameSteps, At(p, do)
      PROVE  /\ work[p] # <<>> /\ Do(work[p][1]) = do /\ Known(work[p][1])
             /\ n \in DOMAIN Frames /\ Frame(p) = Frames[n] /\ res[p] \in Values
  BY <1>1, FirstStep DEF Known, Frame
<1>2. \A event, task : PlainStep(EmitOp(event, task))
  BY PlainOp DEF EmitOp, FrameSteps
<1>3. Plain(<<>>)
  BY PlainLiteral
<1>4. ASSUME NEW do, do # "join", At(p, do), NEW ops, Plain(ops), Continues(p, ops)
      PROVE  FrameInv'
  BY <1>4, FirstStep, ContinueStep
<1>5. ASSUME NEW do, do # "join", At(p, do), NEW r \in Values, Returns(p, r) PROVE FrameInv'
  <2>1. work[p] # <<>> /\ Do(work[p][1]) # "join"
    BY <1>5, FirstStep
  <2> QED
    BY <1>3, <1>5, <2>1, ProceedStep DEF Returns, counters
<1>6. ASSUME Leaf(p) PROVE FrameInv'
  <2>1. At(p, "leaf")
    BY <1>6 DEF Leaf
  <2>2. n \in DOMAIN Frames /\ Frame(p) = Frames[n] /\ Frames[n].kind = "leaf"
    BY <1>1, <2>1 DEF FrameSteps, Known
  <2>3. Frame(p).outs \subseteq Outcomes \cup {"panic"}
    BY <2>2, FrameFacts DEF ProperFrame
  <2>4. PICK r \in Frame(p).outs :
          /\ IF r = "panic" THEN Panics(p) ELSE Proceeds(p, <<>>, r)
          /\ UNCHANGED <<hookVars, counters>>
    BY <1>6 DEF Leaf
  <2>5. CASE r = "panic"
    BY <2>4, <2>5, VanishStep DEF Panics, counters
  <2>6. CASE r # "panic"
    BY <1>5, <2>1, <2>3, <2>4, <2>6 DEF Outcomes, Values, Returns
  <2> QED
    BY <2>5, <2>6
<1>7. ASSUME Wake(p) \/ InTime(p) PROVE FrameInv'
  BY <1>3, <1>4, <1>7 DEF Wake, InTime
<1>8. ASSUME Recover(p) PROVE FrameInv'
  <2>1. At(p, "recover")
    BY <1>8 DEF Recover
  <2>2. n \in DOMAIN Frames /\ Frame(p) = Frames[n] /\ Frames[n].kind = "fallback"
    BY <1>1, <2>1 DEF FrameSteps, Known
  <2>3. Plain(<<EmitOp(<<"OnFallback">>, Frame(p).task), Exec(Frame(p).kids[2])>>)
    BY <1>2, <2>2, FrameFacts, PlainLiteral
  <2> QED
    BY <1>3, <1>4, <1>8, <2>1, <2>3 DEF Recover
<1>9. ASSUME Attempt(p) PROVE FrameInv'
  <2>1. At(p, "attempt")
    BY <1>9 DEF Attempt
  <2>2. n \in DOMAIN Frames /\ Frame(p) = Frames[n] /\ Frames[n].kind = "retry"
    BY <1>1, <2>1 DEF FrameSteps, Known
  <2>3. PlainStep(Exec(Frame(p).kids[1])) /\ PlainStep(Op("attempted", n, Arg(work[p][1])))
    BY <2>2, FrameFacts, PlainOpOfKind
  <2>4. Plain(<<EmitOp(<<"OnRetryAttemptStart">>, Frame(p).task), Exec(Frame(p).kids[1]),
                EmitOp(<<"OnRetryAttemptEnd">>, Frame(p).task),
                Op("attempted", n, Arg(work[p][1]))>>)
    BY <1>2, <2>3, PlainLiteral
  <2> QED
    BY <1>4, <1>9, <2>1, <2>4 DEF Attempt
<1>10. ASSUME is_resolved(p) PROVE FrameInv'
  <2> DEFINE e == Arg(work[p][1])
  <2>1. At(p, "eval")
    BY <1>10 DEF is_resolved
  <2>2. n \in DOMAIN Frames
    BY <1>1, <2>1 DEF FrameSteps
  <2>3. \A arg : /\ PlainStep(Op("eval", n, arg)) /\ PlainStep(Op("negate", n, arg))
                 /\ PlainStep(Op("and", n, arg)) /\ PlainStep(Op("or", n, arg))
    BY <2>2, PlainOp
  <2>4. /\ Plain(<<Op("eval", n, e.l), Op("negate", n, 0)>>)
        /\ Plain(<<Op("eval", n, e.l), Op("and", n, e.r)>>)
        /\ Plain(<<Op("eval", n, e.l), Op("or", n, e.r)>>)
    BY <2>3, PlainLiteral
  <2> QED
    BY <1>4, <1>5, <1>10, <2>1, <2>4 DEF is_resolved, Values
<1>11. ASSUME Combine(p) PROVE FrameInv'
  <2>1. CASE At(p, "negate")
    BY <1>5, <1>11, <2>1 DEF Combine, Values, At
  <2>2. ASSUME NEW do \in {"and", "or"}, At(p, do) PROVE FrameInv'
    <3>1. n \in DOMAIN Frames /\ Do(work[p][1]) = do
      BY <1>1, <2>2 DEF FrameSteps
    <3>2. Plain(<<Op("eval", n, Arg(work[p][1]))>>)
      BY <3>1, PlainOp, PlainLiteral
    <3>3. ~At(p, "negate")
      BY <2>2 DEF At
    <3>4. Continues(p, <<Op("eval", n, Arg(work[p][1]))>>) \/ Continues(p, <<>>)
      BY <1>11, <3>3 DEF Combine
    <3> QED
      BY <1>3, <1>4, <2>2, <3>2, <3>4
  <2> QED
    BY <1>11, <2>1, <2>2 DEF Combine
<1>12. ASSUME Resolve(p) PROVE FrameInv'
  <2>1. At(p, "resolve")
    BY <1>12 DEF Resolve
  <2>2. n \in DOMAIN Frames /\ Frame(p) = Frames[n] /\ Frames[n].kind = "dependency"
    BY <1>1, <2>1 DEF FrameSteps, Known
  <2>3. Plain(<<Exec(Frame(p).kids[1])>>) /\ Frame(p).unresolve \in Values
    BY <2>2, FrameFacts, PlainLiteral DEF ProperFrame, Outcomes, Values
  <2> QED
    BY <1>4, <1>5, <1>12, <2>1, <2>3 DEF Resolve
<1>13. ASSUME NextChild(p) PROVE FrameInv'
  <2> DEFINE i == Arg(work[p][1])
  <2>1. At(p, "next")
    BY <1>13 DEF NextChild
  <2>2. n \in DOMAIN Frames /\ Frame(p) = Frames[n] /\ i \in Nat \ {0}
    BY <1>1, <2>1 DEF FrameSteps, Known
  <2>3. CASE i > Len(Frame(p).kids)
    BY <1>5, <1>13, <2>1, <2>3 DEF NextChild, Values
  <2>4. CASE ~(i > Len(Frame(p).kids))
    <3>1. i \in DOMAIN Frames[n].kids
      BY <2>2, <2>4, FrameFacts
    <3>2. PlainStep(Exec(Frames[n].kids[i]))
      BY <2>2, <3>1, FrameFacts, PlainOp DEF Exec
    <3>3. Plain(Child(n, i))
      BY <1>2, <3>2, PlainLiteral DEF Child
    <3>4. Plain(<<Op("quit", n, i)>>)
      BY <2>2, PlainOp, PlainLiteral
    <3>5. Plain(Child(n, i) \o <<Op("quit", n, i)>>)
      BY <3>3, <3>4, PlainConcat
    <3> QED
      BY <1>4, <1>13, <2>1, <2>4, <3>5 DEF NextChild
  <2> QED
    BY <2>3, <2>4
<1>14. ASSUME QuitOrNext(p) PROVE FrameInv'
  <2> DEFINE verdict == should_quit(Frame(p).policy, res[p])
  <2>1. At(p, "quit")
    BY <1>14 DEF QuitOrNext
  <2>2. n \in DOMAIN Frames /\ Arg(work[p][1]) \in Nat \ {0}
    BY <1>1, <2>1 DEF FrameSteps, Known
  <2>3. Plain(<<Op("next", n, Arg(work[p][1]) + 1)>>)
    BY <2>2, PlainOp, PlainLiteral
  <2>4. verdict = "skip" \/ verdict \in Values
    BY DEF should_quit, Values
  <2> HIDE DEF verdict
  <2>5. \/ verdict = "skip" /\ Continues(p, <<Op("next", n, Arg(work[p][1]) + 1)>>)
        \/ verdict # "skip" /\ Returns(p, verdict)
    BY <1>14 DEF QuitOrNext, verdict
  <2> QED
    BY <1>4, <1>5, <2>1, <2>3, <2>4, <2>5
<1>15. ASSUME Attempted(p) PROVE FrameInv'
  <2> DEFINE k == Arg(work[p][1])
  <2>1. At(p, "attempted")
    BY <1>15 DEF Attempted
  <2>2. n \in DOMAIN Frames /\ Frames[n].kind = "retry"
    BY <1>1, <2>1 DEF FrameSteps, Known
  <2>3. CASE Continues(p, <<>>)
    BY <1>3, <1>4, <2>1, <2>3
  <2>4. ASSUME NEW delay, Continues(p, <<Op("sleep", 0, delay)>> \o NextAttempt(n, k))
        PROVE  FrameInv'
    <3>1. Plain(<<Op("sleep", 0, delay)>>)
      BY PlainOp, PlainLiteral DEF FrameSteps
    <3>2. Plain(NextAttempt(n, k))
      BY <2>2, <1>3, PlainLiteral, PlainOpOfKind DEF NextAttempt
    <3>3. Plain(<<Op("sleep", 0, delay)>> \o NextAttempt(n, k))
      BY <3>1, <3>2, PlainConcat
    <3> QED
      BY <1>4, <2>1, <2>4, <3>3
  <2> QED
    BY <1>15, <2>3, <2>4 DEF Attempted
<1> QED
  BY <1>6, <1>7, <1>8, <1>9, <1>10, <1>11, <1>12, <1>13, <1>14, <1>15

(* A threshold that is entered: the counter read is below the limit, and   *)
(* nobody else is inside unless the executions overlap.                    *)
LEMMA ThresholdStep ==
  ASSUME FrameInv, NEW p \in Procs, Threshold(p)
  PROVE  FrameInv'
<1> DEFINE n == On(work[p][1])
           ops == <<Exec(Frame(p).kids[1]), Op("counts", n, 0)>>
<1>1. Executes(p, "threshold")
  BY DEF Threshold
<1>2. /\ work[p] # <<>> /\ Do(work[p][1]) = "exec" /\ n \in DOMAIN Frames
      /\ Frames[n].kind = "threshold" /\ Frame(p) = Frames[n] /\ res[p] \in Values
  BY <1>1, FirstStep DEF Executes, Known, FrameSteps, Frame
<1>3. Frames[n].threshold \in Nat /\ Frames[n].reach \in Outcomes
  BY <1>2, FrameFacts DEF ProperFrame
<1>4. CASE Reached(n)
  <2>1. Returns(p, Frame(p).reach)
    BY <1>4 DEF Threshold
  <2>2. Plain(<<>>) /\ Frame(p).reach \in Values
    BY <1>2, <1>3, PlainLiteral DEF Outcomes, Values
  <2> QED
    BY <1>2, <2>1, <2>2, ProceedStep DEF Returns, counters
<1>5. CASE ~Reached(n)
  <2>1. /\ Proceeds(p, ops, res[p])
        /\ overlapped' = IF Inside(n) = {} THEN overlapped ELSE overlapped \cup {n}
        /\ UNCHANGED count
    BY <1>5 DEF Threshold
  <2>2. ops[1] = Exec(Frame(p).kids[1]) /\ ops[2] = Op("counts", n, 0) /\ DOMAIN ops = {1, 2}
    OBVIOUS
  <2>3. Known(ops[1]) /\ Do(ops[1]) # "counts"
    BY <1>2, FrameFacts DEF PlainStep
  <2>4. Known(ops[2]) /\ On(ops[2]) = n
    BY <1>2 DEF Known, Op, Do, On
  <2>5. AllKnown(ops)
    BY <2>2, <2>3, <2>4, SeqLiteral DEF AllKnown
  <2> HIDE DEF ops
  <2>6. IsSeq(work[p]) /\ Len(work[p]) \in Nat /\ Len(work[p]) # 0
    BY <1>2, SeqShape DEF FrameInv, Stacks
  <2>7. Unwinds(p, 1, Tail(work[p]), ops, res[p], {})
    <3>1. Cut(p, 1, Tail(work[p]))
      BY <1>2, <2>6, SeqTail DEF Cut
    <3>2. Covers({} \cup JoinedIn(ops), p, 1)
      BY <1>2 DEF Covers
    <3> QED
      BY <1>2, <2>1, <2>5, <3>1, <3>2 DEF Unwinds, Proceeds
  <2>8. Stacks /\ Stacks' /\ Limits /\ UNCHANGED scenario
    BY <2>7, UnwindStep DEF FrameInv
  <2>9. ASSUME NEW l \in DOMAIN Frames, l \notin overlapped', Frames[l].kind = "threshold"
        PROVE  Limited(l)'
    <3>1. Limited(l)
      BY <2>1, <2>8, <2>9 DEF Limits
    <3>2. CASE l # n
      <4>1. ASSUME NEW q \in Procs, NEW i \in DOMAIN work'[q], Marks(work'[q][i], l)
            PROVE  \E j \in DOMAIN work[q] :
                     j + Len(work'[q]) = i + Len(work[q]) /\ work'[q][i] = work[q][j]
        <5>1. i \in DOMAIN ops => work'[q][i] # ops[i]
          BY <2>2, <2>3, <2>4, <3>2, <4>1 DEF Marks
        <5> QED
          BY <2>7, <2>8, <5>1, UnwindMarks
      <4> QED
        BY <2>1, <2>8, <3>1, <4>1, LimitedStays
    <3>3. CASE l = n
      <4>1. Inside(n) = {}
        BY <2>1, <2>9, <3>3
      <4>2. count[n] < Frames[n].threshold
        BY <1>2, <1>3, <1>5, <2>8, <3>1, <3>3 DEF Limited, Limits, Reached
      <4>3. ASSUME NEW q \in Procs, NEW i \in DOMAIN work'[q], Marks(work'[q][i], n)
            PROVE  q = p /\ i = 2
        <5>1. ~\E j \in DOMAIN work[q] : work'[q][i] = work[q][j]
          BY <4>1, <4>3 DEF Inside, Marks
        <5>2. q = p /\ i \in DOMAIN ops /\ work'[q][i] = ops[i]
          BY <2>7, <2>8, <5>1, UnwindMarks
        <5> QED
          BY <2>2, <2>3, <4>3, <5>2 DEF Marks
      <4>4. /\ count'[n] <= Frames[n].threshold /\ count'[n] < Frames[n].threshold
            /\ Frames' = Frames
        BY <2>1, <2>8, <3>1, <3>3, <4>2 DEF Limited, Frames
      <4>5. ASSUME NEW q \in Procs, NEW i \in DOMAIN work'[q], Marks(work'[q][i], n)
            PROVE  \A o \in Procs : \A h \in DOMAIN work'[o] :
                     Marks(work'[o][h], n) => o = q /\ h = i
        BY <4>3, <4>5
      <4> QED
        BY <3>3, <4>4, <4>5 DEF Limited, Marks
    <3> QED
      BY <3>2, <3>3
  <2>10. Limits'
    BY <2>1, <2>8, <2>9 DEF Limits, Frames
  <2> QED
    BY <2>7, <2>8, <2>10, UnwindStep DEF FrameInv
<1> QED
  BY <1>4, <1>5

(* A run that counts: unless executions overlap it is the only one inside. *)
LEMMA CountStep ==
  ASSUME FrameInv, NEW p \in Procs, CountRun(p)
  PROVE  FrameInv'
<1> DEFINE n == On(work[p][1])
<1>1. At(p, "counts") /\ Proceeds(p, <<>>, res[p]) /\ UNCHANGED overlapped
  BY DEF CountRun
<1>2. /\ work[p] # <<>> /\ Do(work[p][1]) = "counts" /\ n \in DOMAIN Frames
      /\ res[p] \in Values
  BY <1>1, FirstStep DEF Known, FrameSteps
<1>3. IsSeq(work[p]) /\ Len(work[p]) \in Nat /\ Len(work[p]) # 0 /\ 1 \in DOMAIN work[p]
  BY <1>2, SeqShape DEF FrameInv, Stacks
<1>4. Unwinds(p, 1, Tail(work[p]), <<>>, res[p], {})
  <2>1. Cut(p, 1, Tail(work[p]))
    BY <1>2, <1>3, SeqTail DEF Cut
  <2>2. Covers({} \cup JoinedIn(<<>>), p, 1)
    BY <1>2 DEF Covers
  <2>3. AllKnown(<<>>)
    BY SeqEmpty DEF AllKnown
  <2> QED
    BY <1>1, <1>2, <2>1, <2>2, <2>3 DEF Unwinds, Proceeds
<1>5. Stacks /\ Stacks' /\ Limits /\ UNCHANGED scenario
  BY <1>4, UnwindStep DEF FrameInv
<1>6. /\ count' \in [DOMAIN Frames -> Nat]
      /\ \A l \in DOMAIN Frames : l # n => count'[l] = count[l]
      /\ count'[n] <= count[n] + 1
  BY <1>2, <1>5 DEF CountRun, Limits
<1>7. ASSUME NEW q \in Procs, NEW i \in DOMAIN work'[q]
      PROVE  \E j \in DOMAIN work[q] :
               /\ q = p => j > 1
               /\ j + Len(work'[q]) = i + Len(work[q])
               /\ work'[q][i] = work[q][j]
  BY <1>4, <1>5, SeqEmpty, UnwindMarks
<1>8. ASSUME NEW l \in DOMAIN Frames, l \notin overlapped, Frames[l].kind = "threshold"
      PROVE  Limited(l)'
  <2>1. Limited(l)
    BY <1>5, <1>8 DEF Limits
  <2>2. CASE l # n
    BY <1>5, <1>6, <1>7, <2>1, <2>2, LimitedStays
  <2>3. CASE l = n
    <3>1. Marks(work[p][1], n)
      BY <1>2 DEF Marks
    <3>2. count[n] < Frames[n].threshold
      BY <1>3, <2>1, <2>3, <3>1 DEF Limited
    <3>3. ASSUME NEW q \in Procs, NEW i \in DOMAIN work'[q] PROVE ~Marks(work'[q][i], n)
      <4>1. PICK j \in DOMAIN work[q] : (q = p => j > 1) /\ work'[q][i] = work[q][j]
        BY <1>7
      <4>2. SUFFICES ASSUME Marks(work[q][j], n) PROVE FALSE
        BY <4>1
      <4>3. q = p /\ j = 1
        BY <1>3, <2>1, <2>3, <3>1, <4>2 DEF Limited
      <4> QED
        BY <4>1, <4>3
    <3>4. Frames[n].threshold \in Nat /\ count[n] \in Nat /\ count'[n] \in Nat
      BY <1>2, <1>5, <1>6, <1>8, <2>3, FrameFacts DEF ProperFrame, Limits
    <3>5. count'[n] <= Frames[n].threshold /\ Frames' = Frames
      BY <1>5, <1>6, <3>2, <3>4 DEF Frames
    <3> QED
      BY <2>3, <3>3, <3>5 DEF Limited, Marks
  <2> QED
    BY <2>2, <2>3
<1>9. Limits'
  BY <1>1, <1>5, <1>6, <1>8 DEF Limits, Frames
<1> QED
  BY <1>4, <1>5, <1>9, UnwindStep DEF FrameInv

(* Processes that are idle, in some order, each of them once.              *)
LEMMA IdleInOrder ==
  /\ Len(SetToSeq(Idle)) \in Nat
  /\ \A i \in 1 .. Len(SetToSeq(Idle)) : SetToSeq(Idle)[i] \in Idle
  /\ \A i, j \in 1 .. Len(SetToSeq(Idle)) : SetToSeq(Idle)[i] = SetToSeq(Idle)[j] => i = j
<1>1. IsFiniteSet(Idle)
  <2>1. Idle \subseteq Procs
    BY DEF Idle
  <2> QED
    BY <2>1, ScenarioAssumption, FS_Subset
<1> DEFINE N == Cardinality(Idle)
<1>2. N \in Nat /\ \E f \in [1 .. N -> Idle] : IsInjective(f)
  <2>1. N \in Nat /\ ExistsBijection(1 .. N, Idle)
    BY <1>1, FS_CardinalityType
  <2>2. PICK f : f \in Bijection(1 .. N, Idle)
    BY <2>1 DEF ExistsBijection
  <2>3. f \in [1 .. N -> Idle] /\ IsInjective(f)
    BY <2>2 DEF Bijection, Injection, IsInjective
  <2> QED
    BY <2>1, <2>3
<1>3. SetToSeq(Idle) \in [1 .. N -> Idle] /\ IsInjective(SetToSeq(Idle))
  BY <1>2 DEF SetToSeq
<1> HIDE DEF N
<1>4. Len(SetToSeq(Idle)) = N
  BY <1>2, <1>3
<1>5. \A i, j \in 1 .. N : SetToSeq(Idle)[i] = SetToSeq(Idle)[j] => i = j
  BY <1>3 DEF IsInjective
<1> QED
  BY <1>2, <1>3, <1>4, <1>5

(* Children that are spawned were idle, and belong to the new JoinSet.     *)
LEMMA ParallelStep ==
  ASSUME FrameInv, NEW p \in Procs, Parallel(p)
  PROVE  FrameInv'
<1> DEFINE n == On(work[p][1])
           kids == Frame(p).kids
           procs == SetToSeq(Idle)
           spawned == {procs[i] : i \in DOMAIN kids}
           joins == <<Op("join", n, spawned)>>
<1>1. Executes(p, "parallel")
  BY DEF Parallel
<1>2. /\ work[p] # <<>> /\ Do(work[p][1]) = "exec" /\ n \in DOMAIN Frames
      /\ Frame(p) = Frames[n] /\ res[p] \in Values
  BY <1>1, FirstStep DEF Executes, Known, FrameSteps, Frame
<1>3. CASE kids = <<>>
  <2>1. Returns(p, "ok")
    BY <1>3 DEF Parallel
  <2>2. Plain(<<>>) /\ "ok" \in Values
    BY PlainLiteral DEF Values
  <2> QED
    BY <1>2, <2>1, <2>2, ProceedStep DEF Returns, counters
<1>4. CASE kids # <<>>
  <2>1. /\ Len(procs) >= Len(kids)
        /\ work' = [q \in Procs |->
             IF q = p THEN joins \o Tail(work[p])
             ELSE IF q \in spawned THEN Child(n, CHOOSE i \in DOMAIN kids : procs[i] = q)
             ELSE work[q]]
        /\ res' = [q \in Procs |-> IF q \in spawned THEN "ok" ELSE res[q]]
        /\ UNCHANGED <<hookVars, counters, doomed, scenario>>
    BY <1>4 DEF Parallel
  <2>2. \A q \in spawned : q \in Idle
    <3>1. Len(kids) \in Nat /\ DOMAIN kids = 1 .. Len(kids)
      BY <1>2, FrameFacts
    <3> QED
      BY <2>1, <3>1, IdleInOrder
  <2>3. \A q \in spawned : work[q] = <<>> /\ q # p
    BY <1>2, <2>2 DEF Idle
  <2>4. ASSUME NEW q \in spawned PROVE Plain(work'[q])
    <3>1. PICK i \in DOMAIN kids : procs[i] = q /\ work'[q] = Child(n, i)
      <4> DEFINE c == CHOOSE i \in DOMAIN kids : procs[i] = q
      <4>1. c \in DOMAIN kids /\ procs[c] = q
        BY <2>4
      <4>2. q \in Procs /\ q # p
        BY <2>2, <2>3 DEF Idle
      <4>3. work'[q] = Child(n, c)
        BY <2>1, <4>2
      <4> QED
        BY <4>1, <4>3
    <3>2. PlainStep(Exec(Frames[n].kids[i]))
      BY <1>2, <3>1, FrameFacts, PlainOp DEF Exec
    <3>3. \A event, task : PlainStep(EmitOp(event, task))
      BY PlainOp DEF EmitOp, FrameSteps
    <3> QED
      BY <3>1, <3>2, <3>3, PlainLiteral DEF Child
  <2>5. IsSeq(work[p]) /\ Len(work[p]) \in Nat /\ Len(work[p]) # 0
    BY <1>2, SeqShape DEF FrameInv, Stacks
  <2>6. /\ joins[1] = Op("join", n, spawned) /\ Len(joins) = 1 /\ DOMAIN joins = {1}
        /\ IsSeq(joins)
    <3>1. \A x : <<x>>[1] = x /\ Len(<<x>>) = 1 /\ DOMAIN <<x>> = {1}
      OBVIOUS
    <3> QED
      BY <3>1, SeqLiteral
  <2>7. Known(joins[1]) /\ Do(joins[1]) = "join" /\ Arg(joins[1]) = spawned
    BY <1>2, <2>6 DEF Known, Op, Do, On, Arg
  <2> HIDE DEF joins, spawned, procs, kids
  <2>8. work'[p] = joins \o Tail(work[p])
    BY <2>1
  <2>9. /\ IsSeq(work'[p]) /\ Len(work'[p]) = Len(work[p])
        /\ work'[p][1] = joins[1] /\ DOMAIN work'[p] = 1 .. Len(work[p])
        /\ \A i \in 2 .. Len(work[p]) : work'[p][i] = work[p][i]
    <3>1. PICK t : t = Tail(work[p])
      OBVIOUS
    <3>2. /\ IsSeq(t) /\ Len(t) = Len(work[p]) - 1
          /\ \A i \in 1 .. Len(t) : t[i] = work[p][i + 1]
      BY <1>2, <2>5, <3>1, SeqTail
    <3>3. /\ IsSeq(joins \o t) /\ Len(joins \o t) = 1 + Len(t)
          /\ (joins \o t)[1] = joins[1]
          /\ \A i \in 1 .. Len(t) : (joins \o t)[i + 1] = t[i]
      <4>1. IsSeq(joins) /\ IsSeq(t) /\ Len(joins) = 1
        BY <2>6, <3>2
      <4>2. PICK j : j = joins
        OBVIOUS
      <4>3. /\ IsSeq(j \o t) /\ Len(j \o t) = Len(j) + Len(t)
            /\ \A i \in 1 .. Len(j) : (j \o t)[i] = j[i]
            /\ \A i \in 1 .. Len(t) : (j \o t)[i + Len(j)] = t[i]
        <5>1. IsSeq(j) /\ IsSeq(t)
          BY <4>1, <4>2
        <5> QED
          BY <5>1, SeqConcat
      <4>4. Len(j) = 1 /\ 1 \in 1 .. Len(j)
        BY <4>1, <4>2
      <4> QED
        BY <4>2, <4>3, <4>4
    <3>5. ASSUME NEW i \in 2 .. Len(work[p]) PROVE work'[p][i] = work[p][i]
      <4>1. i - 1 \in 1 .. Len(t) /\ (i - 1) + 1 = i
        BY <2>5, <3>2
      <4> QED
        BY <2>8, <3>1, <3>2, <3>3, <4>1
    <3>4. IsSeq(work'[p]) /\ Len(work'[p]) = Len(work[p]) /\ work'[p][1] = joins[1]
      BY <2>5, <2>8, <3>1, <3>2, <3>3
    <3> QED
      BY <3>4, <3>5, SeqShape
  <2>10. ASSUME NEW q \in Procs, NEW i \in DOMAIN work'[q]
         PROVE  \/ Known(work'[q][i]) /\ Do(work'[q][i]) # "counts"
                \/ i \in DOMAIN work[q] /\ work'[q][i] = work[q][i] /\ Len(work'[q]) = Len(work[q])
    <3>1. CASE q = p
      <4>1. i \in 1 .. Len(work[p]) /\ DOMAIN work[p] = 1 .. Len(work[p])
        BY <2>5, <2>9, <2>10, <3>1, SeqShape
      <4>2. CASE i = 1
        BY <2>7, <2>9, <3>1, <4>2
      <4>3. CASE i # 1
        BY <2>9, <2>5, <3>1, <4>1, <4>3
      <4> QED
        BY <4>2, <4>3
    <3>2. CASE q \in spawned
      BY <2>4, <2>10, <3>2 DEF Plain
    <3>3. CASE q # p /\ q \notin spawned
      BY <2>1, <2>10, <3>3
    <3> QED
      BY <3>1, <3>2, <3>3
  <2>11. Stacks'
    <3>1. ASSUME NEW q \in Procs PROVE IsSeq(work'[q])
      <4>1. CASE q = p
        BY <2>9, <4>1
      <4>2. CASE q \in spawned
        BY <2>4, <4>2 DEF Plain
      <4>3. CASE q # p /\ q \notin spawned
        BY <2>1, <4>3 DEF FrameInv, Stacks
      <4> QED
        BY <4>1, <4>2, <4>3
    <3>2. ASSUME NEW q \in Procs, NEW i \in DOMAIN work'[q] PROVE Known(work'[q][i])
      BY <2>10 DEF FrameInv, Stacks
    <3>3. UNCHANGED scenario
      BY <2>1
    <3>4. \A q \in Procs : \A i \in DOMAIN work'[q] : (Known(work[q][i]))'
      BY <3>2, <3>3 DEF Known, Frames
    <3>5. work' = [q \in Procs |-> work'[q]]
      BY <2>1
    <3> QED
      BY <3>1, <3>4, <3>5 DEF Stacks
  <2>12. Results'
    <3>1. ASSUME NEW q \in Procs, work'[q] # <<>> PROVE res'[q] \in Values
      BY <1>2, <2>1, <3>1 DEF FrameInv, Results, Values
    <3>2. res' = [q \in Procs |-> res'[q]]
      BY <2>1
    <3> QED
      BY <3>1, <3>2 DEF Results
  <2>13. OrphansAreAborted'
    <3>1. SUFFICES ASSUME NEW k \in Procs \ Clients, work'[k] # <<>>, k \notin doomed
                   PROVE  \E q \in Procs : k \in JoinedIn(work'[q])
      BY <2>1 DEF OrphansAreAborted, Clients
    <3>2. 1 \in DOMAIN work'[p]
      BY <2>5, <2>9
    <3>3. CASE k \in spawned
      BY <2>7, <2>9, <3>2, <3>3, JoinedHere
    <3>4. CASE k \notin spawned
      <4>1. work[k] # <<>>
        BY <1>2, <2>1, <3>1, <3>4
      <4>2. PICK q \in Procs : k \in JoinedIn(work[q])
        BY <3>1, <4>1 DEF FrameInv, OrphansAreAborted
      <4>3. PICK j \in DOMAIN work[q] : Do(work[q][j]) = "join" /\ k \in Arg(work[q][j])
        BY <4>2, JoinedHere
      <4>4. q \notin spawned
        BY <2>3, <4>3, SeqEmpty
      <4>5. CASE q # p
        BY <2>1, <4>2, <4>4, <4>5
      <4>6. CASE q = p
        <5>1. j \in 2 .. Len(work[p])
          <6>1. j \in 1 .. Len(work[p])
            BY <2>5, <4>3, <4>6, SeqShape
          <6>2. j # 1
            BY <1>2, <4>3, <4>6
          <6> QED
            BY <6>1, <6>2
        <5>2. j \in DOMAIN work'[p] /\ work'[p][j] = work[p][j]
          BY <2>5, <2>9, <5>1
        <5> QED
          BY <4>3, <4>6, <5>2, JoinedHere
      <4> QED
        BY <4>5, <4>6
    <3> QED
      BY <3>3, <3>4
  <2>14. Limits'
    <3>1. ASSUME NEW l \in DOMAIN Frames, Limited(l) PROVE Limited(l)'
      <4>1. ASSUME NEW q \in Procs, NEW i \in DOMAIN work'[q], Marks(work'[q][i], l)
            PROVE  \E j \in DOMAIN work[q] :
                     j + Len(work'[q]) = i + Len(work[q]) /\ work'[q][i] = work[q][j]
        BY <2>10, <4>1 DEF Marks
      <4> QED
        BY <2>1, <2>11, <3>1, <4>1, LimitedStays DEF FrameInv, counters
    <3> QED
      BY <2>1, <3>1 DEF FrameInv, Limits, Frames, counters
  <2> QED
    BY <2>1, <2>11, <2>12, <2>13, <2>14 DEF FrameInv
<1> QED
  BY <1>3, <1>4

(* join_next(): a child that has ended leaves the set; a return aborts the *)
(* rest.                                                                   *)
LEMMA JoinStep ==
  ASSUME FrameInv, NEW p \in Procs, Join(p)
  PROVE  FrameInv'
<1> DEFINE n == On(work[p][1])
           kids == Arg(work[p][1])
<1>1. At(p, "join")
  BY DEF Join
<1>2. /\ work[p] # <<>> /\ Do(work[p][1]) = "join" /\ n \in DOMAIN Frames
      /\ res[p] \in Values
  BY <1>1, FirstStep DEF Known, FrameSteps
<1>3. Plain(<<>>)
  BY PlainLiteral
<1>4. CASE kids = {} /\ Returns(p, "ok")
  <2>1. Covers({} \cup JoinedIn(<<>>), p, 1)
    BY <1>4 DEF Covers
  <2> QED
    BY <1>2, <1>3, <1>4, <2>1, HeadStep DEF Returns, Proceeds, Values, counters
<1>5. ASSUME NEW k \in kids, work[k] = <<>>,
             Continues(p, <<Op("join", n, kids \ {k})>>)
      PROVE  FrameInv'
  <2> DEFINE ops == <<Op("join", n, kids \ {k})>>
  <2>1. PlainStep(Op("join", n, kids \ {k}))
    BY <1>2 DEF PlainStep, Known, Op, Do, On, Arg
  <2>2. Plain(ops)
    BY <2>1, PlainLiteral
  <2>3. ASSUME NEW q \in kids, work[q] # <<>> PROVE q \in JoinedIn(ops)
    <3>1. 1 \in DOMAIN ops /\ ops[1] = Op("join", n, kids \ {k})
      OBVIOUS
    <3>2. Do(ops[1]) = "join" /\ q \in Arg(ops[1])
      BY <1>5, <2>3, <3>1 DEF Op, Do, Arg
    <3> HIDE DEF ops
    <3> QED
      BY <3>1, <3>2, JoinedHere
  <2>4. Covers({} \cup JoinedIn(ops), p, 1)
    BY <2>3 DEF Covers
  <2> HIDE DEF ops
  <2>5. Leaves(p, ops \o Tail(work[p]), res[p], {}) /\ UNCHANGED <<count, overlapped>>
    BY <1>5 DEF Continues, Proceeds, counters, ops
  <2> QED
    BY <1>2, <2>2, <2>4, <2>5, HeadStep
<1>6. ASSUME NEW r \in Values, Leaves(p, Tail(work[p]), r, LiveKids(<<work[p][1]>>)),
             UNCHANGED <<hookVars, counters>>
      PROVE  FrameInv'
  <2>1. Tail(work[p]) = <<>> \o Tail(work[p])
    <3>1. PICK s : s = Tail(work[p])
      OBVIOUS
    <3>2. s \in Seq(Range(s))
      BY <1>2, <3>1, SeqTail DEF FrameInv, Stacks, IsSeq
    <3>3. <<>> \o s = s
      BY <3>2
    <3> QED
      BY <3>1, <3>3
  <2>2. ASSUME NEW q \in kids, work[q] # <<>> PROVE q \in LiveKids(<<work[p][1]>>)
    <3>1. PICK ops : ops = <<work[p][1]>>
      OBVIOUS
    <3>2. 1 \in DOMAIN ops /\ ops[1] = work[p][1]
      BY <3>1
    <3>3. q \in JoinedIn(ops)
      BY <1>2, <3>2, JoinedHere
    <3> QED
      BY <2>2, <3>1, <3>3 DEF LiveKids
  <2>3. Covers(LiveKids(<<work[p][1]>>) \cup JoinedIn(<<>>), p, 1)
    BY <2>2 DEF Covers
  <2> QED
    BY <1>2, <1>3, <1>6, <2>1, <2>3, HeadStep DEF counters
<1>7. \A r : should_quit(Frame(p).policy, r) \in Values \cup {"skip"}
  BY DEF should_quit, Values
<1>8. \/ kids = {} /\ Returns(p, "ok")
      \/ \E k \in kids :
           /\ work[k] = <<>>
           /\ \/ Continues(p, <<Op("join", n, kids \ {k})>>)
              \/ /\ should_quit(Frame(p).policy, res[k]) # "skip"
                 /\ Leaves(p, Tail(work[p]), should_quit(Frame(p).policy, res[k]),
                           LiveKids(<<work[p][1]>>))
                 /\ UNCHANGED <<hookVars, counters>>
  BY DEF Join
<1> QED
  BY <1>4, <1>5, <1>6, <1>7, <1>8

(* A deadline that passes: what is above its mark is dropped.              *)
LEMMA ElapseStep ==
  ASSUME FrameInv, NEW p \in Procs, Elapse(p)
  PROVE  FrameInv'
<1>1. PICK i \in DOMAIN work[p] :
        /\ Do(work[p][i]) = "timed"
        /\ Leaves(p, <<EmitOp(<<"OnTimeout">>, Frames[On(work[p][i])].task)>>
                       \o SubSeq(work[p], i + 1, Len(work[p])), "err", AbortedBy(p, i))
  BY DEF Elapse
<1> DEFINE ops == <<EmitOp(<<"OnTimeout">>, Frames[On(work[p][i])].task)>>
           rest == SubSeq(work[p], i + 1, Len(work[p]))
<1>2. /\ IsSeq(work[p]) /\ Len(work[p]) \in Nat /\ i \in 1 .. Len(work[p])
      /\ work[p] # <<>>
  BY SeqShape DEF FrameInv, Stacks
<1>3. IsSeq(rest) /\ Len(rest) = Len(work[p]) - i /\ \A j \in 1 .. Len(rest) : rest[j] = work[p][j + i]
  BY <1>2, SeqRest
<1>4. Plain(ops)
  BY PlainLiteral, PlainOp DEF EmitOp, FrameSteps
<1>5. Covers(AbortedBy(p, i), p, i)
  <2> DEFINE top == SubSeq(work[p], 1, i)
  <2>1. PICK S : work[p] \in Seq(S)
    BY <1>2 DEF IsSeq
  <2>2. DOMAIN top = 1 .. i /\ \A j \in 1 .. i : top[j] = work[p][j]
    BY <1>2, <2>1
  <2> HIDE DEF top
  <2>3. ASSUME NEW j \in 1 .. i, Do(work[p][j]) = "join",
               NEW k \in Arg(work[p][j]), work[k] # <<>>
        PROVE  k \in LiveKids(top)
    BY <2>2, <2>3, JoinedHere DEF LiveKids
  <2> QED
    BY <2>3 DEF Covers, AbortedBy, top
<1> HIDE DEF ops, rest
<1>6. Covers(AbortedBy(p, i) \cup JoinedIn(ops), p, i)
  BY <1>5 DEF Covers
<1>7. Cut(p, i, rest)
  BY <1>2, <1>3 DEF Cut
<1>8. Leaves(p, ops \o rest, "err", AbortedBy(p, i)) /\ UNCHANGED <<count, overlapped>>
  BY <1>1 DEF ops, rest, Elapse, counters
<1>9. AllKnown(ops) /\ "err" \in Values
  BY <1>4 DEF Plain, AllKnown, Values
<1>10. Unwinds(p, i, rest, ops, "err", AbortedBy(p, i))
  BY <1>2, <1>6, <1>7, <1>8, <1>9 DEF Unwinds
<1> QED
  BY <1>4, <1>8, <1>10, UnwindStep

(* Initially the clients have their programs, and nothing has been counted.*)
LEMMA FrameInit == Init => FrameInv
<1> SUFFICES ASSUME Init PROVE FrameInv
  OBVIOUS
<1>1. scenario \in Scenarios /\ work = [p \in Procs |-> IF p \in Clients THEN scenario.clients[p] ELSE <<>>]
  BY DEF Init
<1>2. ASSUME NEW p \in Procs PROVE Plain(work[p]) /\ (p \notin Clients => work[p] = <<>>)
  BY <1>1, ScenarioAssumption, ProgramPlain, PlainLiteral DEF Clients
<1>3. Stacks
  BY <1>1, <1>2 DEF Stacks, Plain
<1>4. Results
  BY DEF Init, Results, Values
<1>5. OrphansAreAborted
  BY <1>2 DEF OrphansAreAborted
<1>6. ASSUME NEW n \in DOMAIN Frames, Frames[n].kind = "threshold" PROVE Limited(n)
  <2>1. Frames[n].threshold \in Nat
    BY <1>1, <1>6, ScenarioAssumption DEF ProperFrame, Frames
  <2>2. count[n] = 0
    BY DEF Init
  <2>3. \A p \in Procs : \A i \in DOMAIN work[p] : ~Marks(work[p][i], n)
    BY <1>2 DEF Plain, Marks
  <2> QED
    BY <2>1, <2>2, <2>3 DEF Limited
<1>7. Limits
  BY <1>6 DEF Init, Limits
<1> QED
  BY <1>1, <1>3, <1>4, <1>5, <1>7 DEF FrameInv

(* Every step of every process, and every deadline.                        *)
LEMMA FrameNext ==
  FrameInv /\ Registry /\ [Next]_vars => FrameInv'
<1> SUFFICES ASSUME FrameInv, Registry, [Next]_vars PROVE FrameInv'
  OBVIOUS
<1>1. ASSUME UNCHANGED vars PROVE FrameInv'
  <2>1. UNCHANGED <<scenario, work, res, doomed, count, overlapped>>
    BY <1>1 DEF vars, counters
  <2>2. Stacks'
    BY <2>1 DEF FrameInv, Stacks, Known, Frames
  <2>3. Results' /\ OrphansAreAborted'
    BY <2>1 DEF FrameInv, Results, OrphansAreAborted, Clients
  <2>4. Limits'
    BY <2>1 DEF FrameInv, Limits, Limited, Marks, Frames
  <2> QED
    BY <2>1, <2>2, <2>3, <2>4 DEF FrameInv
<1>2. ASSUME NEW p \in Procs, Drop(p) PROVE FrameInv'
  BY <1>2, VanishStep DEF Drop, counters
<1>3. ASSUME NEW p \in Procs, FrameStep(p) PROVE FrameInv'
  BY <1>3, ExecuteFrames, ResumeFrames, ThresholdStep, CountStep, ParallelStep, JoinStep
  DEF FrameStep
<1>4. ASSUME NEW p \in Procs, HookStep(p) PROVE FrameInv'
  BY <1>4, HookFrames
<1>5. ASSUME NEW p \in Procs, Elapse(p) PROVE FrameInv'
  BY <1>5, ElapseStep
<1> QED
  BY <1>1, <1>2, <1>3, <1>4, <1>5 DEF Next, Step

-----------------------------------------------------------------------------
(***************************************************************************)
(* The registry.                                                           *)
(***************************************************************************)
(* Hooks are filed under one slot exactly if they have one type, and never *)
(* under the id that detach() looks for.                                   *)
LEMMA FiledApart ==
  /\ \A g, h : FiledUnder(g) = FiledUnder(h) <=> g.type = h.type
  /\ \A h, T : FiledUnder(h) # TypeIdOf(T)
<1>1. \A a, b, c, d : <<a, b>> = <<c, d>> <=> a = c /\ b = d
  OBVIOUS
<1>2. \A g, h : FiledUnder(g) = FiledUnder(h) <=> g.type = h.type
  BY <1>1 DEF FiledUnder
<1>3. \A h, T : FiledUnder(h) # TypeIdOf(T)
  BY <1>1 DEF FiledUnder, TypeIdOf
<1> QED
  BY <1>2, <1>3

(* attach(): the new hook becomes the newest of its type, in a slot of its *)
(* own or on top of the older ones.                                        *)
LEMMA PromoteMirrors ==
  ASSUME NEW slots, NEW history, NEW hook, Mirrors(slots, history),
         \A m \in DOMAIN history : history[m] # hook
  PROVE  Mirrors(promote(slots, FiledUnder(hook), hook), Append(history, hook))
<1> DEFINE longer == Append(history, hook)
           N == Len(history)
           id == FiledUnder(hook)
           more == promote(slots, id, hook)
<1>1. /\ IsSeq(slots) /\ IsSeq(history) /\ N \in Nat /\ Len(slots) \in Nat
      /\ DOMAIN history = 1 .. N /\ DOMAIN slots = 1 .. Len(slots)
  BY SeqShape DEF Mirrors
<1>2. /\ IsSeq(longer) /\ DOMAIN longer = 1 .. N + 1 /\ longer[N + 1] = hook
      /\ \A m \in 1 .. N : longer[m] = history[m]
  BY <1>1, SeqAppend
<1> HIDE DEF longer, id, N
<1>3. \A l, m \in DOMAIN longer : longer[l] = longer[m] => l = m
  <2>1. \A l \in 1 .. N : longer[l] # longer[N + 1]
    BY <1>1, <1>2
  <2>2. \A l, m \in 1 .. N : longer[l] = longer[m] => l = m
    BY <1>1, <1>2 DEF Mirrors
  <2>3. \A l \in DOMAIN longer : l \in 1 .. N \/ l = N + 1
    BY <1>1, <1>2
  <2> QED
    BY <2>1, <2>2, <2>3
<1>4. ASSUME NEW i \in DOMAIN slots, slots[i].id # id
      PROVE  \E m \in DOMAIN longer :
               /\ longer[m] = get(slots[i].instances)
               /\ \A l \in DOMAIN longer : longer[l].type = longer[m].type => l <= m
  <2>1. PICK m \in DOMAIN history :
          /\ history[m] = get(slots[i].instances)
          /\ \A l \in DOMAIN history : history[l].type = history[m].type => l <= m
    BY DEF Mirrors
  <2>2. slots[i].id = FiledUnder(history[m])
    BY <2>1 DEF Mirrors
  <2>3. hook.type # history[m].type
    BY <1>4, <2>2, FiledApart DEF id
  <2>4. ASSUME NEW l \in DOMAIN longer, longer[l].type = longer[m].type PROVE l <= m
    <3>1. l \in 1 .. N
      BY <1>1, <1>2, <2>1, <2>3, <2>4
    <3> QED
      BY <1>1, <1>2, <2>1, <2>4, <3>1
  <2> QED
    BY <1>1, <1>2, <2>1, <2>4
<1>5. /\ N + 1 \in DOMAIN longer
      /\ \A l \in DOMAIN longer : longer[l].type = longer[N + 1].type => l <= N + 1
  BY <1>1, <1>2
<1>6. CASE SlotsOf(slots, id) = {}
  <2> DEFINE new == [id |-> id, instances |-> <<hook>>]
             L == Len(slots)
  <2>1. more = Append(slots, new)
    BY <1>6 DEF promote
  <2>2. /\ IsSeq(more) /\ DOMAIN more = 1 .. L + 1 /\ more[L + 1] = new
        /\ \A i \in 1 .. L : more[i] = slots[i]
    BY <1>1, <2>1, SeqAppend
  <2>3. \A i \in 1 .. L : slots[i].id # id
    BY <1>1, <1>6 DEF SlotsOf
  <2>4. /\ IsSeq(new.instances) /\ new.instances # <<>> /\ get(new.instances) = hook
        /\ new.id = id
    <3>1. \A x : <<x>> # <<>> /\ Len(<<x>>) = 1 /\ <<x>>[1] = x
      OBVIOUS
    <3> QED
      BY <3>1, SeqLiteral DEF get, Last
  <2> HIDE DEF new, more
  <2>5. ASSUME NEW i \in DOMAIN more
        PROVE  /\ IsSeq(more[i].instances) /\ more[i].instances # <<>>
               /\ more[i].id = FiledUnder(get(more[i].instances))
               /\ \E m \in DOMAIN longer :
                    /\ longer[m] = get(more[i].instances)
                    /\ \A l \in DOMAIN longer : longer[l].type = longer[m].type => l <= m
    <3>1. CASE i = L + 1
      BY <1>2, <1>5, <2>2, <2>4, <3>1 DEF id
    <3>2. CASE i \in 1 .. L
      <4>1. more[i] = slots[i] /\ i \in DOMAIN slots /\ slots[i].id # id
        BY <1>1, <2>2, <2>3, <3>2
      <4>2. /\ IsSeq(slots[i].instances) /\ slots[i].instances # <<>>
            /\ slots[i].id = FiledUnder(get(slots[i].instances))
        BY <4>1 DEF Mirrors
      <4> QED
        BY <1>4, <4>1, <4>2
    <3> QED
      BY <1>1, <2>2, <2>5, <3>1, <3>2
  <2>6. \A i, j \in DOMAIN more : more[i].id = more[j].id => i = j
    <3>1. \A i, j \in 1 .. L : more[i].id = more[j].id => i = j
      BY <1>1, <2>2 DEF Mirrors
    <3>2. \A i \in 1 .. L : more[i].id # more[L + 1].id
      BY <2>2, <2>3, <2>4
    <3>3. \A i \in DOMAIN more : i \in 1 .. L \/ i = L + 1
      BY <1>1, <2>2
    <3> QED
      BY <3>1, <3>2, <3>3
  <2>7. ASSUME NEW m \in DOMAIN longer
        PROVE  \E i \in DOMAIN more : more[i].id = FiledUnder(longer[m])
    <3>1. CASE m = N + 1
      <4>1. L + 1 \in DOMAIN more
        BY <1>1, <2>2
      <4> QED
        BY <1>2, <2>2, <2>4, <3>1, <4>1 DEF id
    <3>2. CASE m \in 1 .. N
      <4>1. PICK i \in DOMAIN slots : slots[i].id = FiledUnder(history[m])
        BY <1>1, <3>2 DEF Mirrors
      <4>2. i \in DOMAIN more /\ more[i] = slots[i]
        BY <1>1, <2>2
      <4> QED
        BY <1>2, <3>2, <4>1, <4>2
    <3> QED
      BY <1>1, <1>2, <2>7, <3>1, <3>2
  <2>8. Mirrors(more, longer)
    BY <1>2, <1>3, <2>2, <2>5, <2>6, <2>7 DEF Mirrors
  <2> QED
    BY <2>8 DEF more, longer, id
<1>7. CASE SlotsOf(slots, id) # {}
  <2> DEFINE grown(i) == [slots[i] EXCEPT !.instances = push(@, hook)]
  <2>1. more = [i \in DOMAIN slots |-> IF slots[i].id = id THEN grown(i) ELSE slots[i]]
    BY <1>7 DEF promote
  <2>2. PICK f : f = more
    OBVIOUS
  <2>3. IsSeq(f) /\ DOMAIN f = DOMAIN slots
    <3>1. f \in [1 .. Len(slots) -> Range(f)]
      BY <1>1, <2>1, <2>2 DEF Range
    <3> QED
      BY <1>1, <3>1, SeqFunction
  <2>4. ASSUME NEW i \in DOMAIN slots, slots[i].id # id PROVE f[i] = slots[i]
    BY <2>1, <2>2, <2>4
  <2>5. ASSUME NEW i \in DOMAIN slots, slots[i].id = id
        PROVE  /\ f[i].id = id /\ IsSeq(f[i].instances) /\ f[i].instances # <<>>
               /\ get(f[i].instances) = hook
    <3>1. IsSeq(slots[i].instances)
      BY DEF Mirrors
    <3>2. f[i] = grown(i)
      BY <2>1, <2>2, <2>5
    <3>3. f[i].id = slots[i].id /\ f[i].instances = Append(slots[i].instances, hook)
      BY <3>2 DEF push, Mirrors
    <3> QED
      BY <2>5, <3>1, <3>3, SeqAppend, SeqShape DEF get, Last
  <2>6. ASSUME NEW i \in DOMAIN f
        PROVE  /\ IsSeq(f[i].instances) /\ f[i].instances # <<>>
               /\ f[i].id = FiledUnder(get(f[i].instances)) /\ f[i].id = slots[i].id
               /\ \E m \in DOMAIN longer :
                    /\ longer[m] = get(f[i].instances)
                    /\ \A l \in DOMAIN longer : longer[l].type = longer[m].type => l <= m
    <3>1. CASE slots[i].id = id
      BY <1>2, <1>5, <2>3, <2>5, <3>1 DEF id
    <3>2. CASE slots[i].id # id
      <4>1. f[i] = slots[i] /\ i \in DOMAIN slots
        BY <2>3, <2>4, <3>2
      <4>2. /\ IsSeq(slots[i].instances) /\ slots[i].instances # <<>>
            /\ slots[i].id = FiledUnder(get(slots[i].instances))
        BY <4>1 DEF Mirrors
      <4> QED
        BY <1>4, <3>2, <4>1, <4>2
    <3> QED
      BY <3>1, <3>2
  <2>7. \A i, j \in DOMAIN f : f[i].id = f[j].id => i = j
    BY <2>3, <2>6 DEF Mirrors
  <2>8. ASSUME NEW m \in DOMAIN longer
        PROVE  \E i \in DOMAIN f : f[i].id = FiledUnder(longer[m])
    <3>1. CASE m = N + 1
      <4>1. PICK i \in DOMAIN slots : slots[i].id = id
        BY <1>7 DEF SlotsOf
      <4> QED
        BY <1>2, <2>3, <2>5, <3>1, <4>1 DEF id
    <3>2. CASE m \in 1 .. N
      <4>1. PICK i \in DOMAIN slots : slots[i].id = FiledUnder(history[m])
        BY <1>1, <3>2 DEF Mirrors
      <4> QED
        BY <1>2, <2>3, <2>6, <3>2, <4>1
    <3> QED
      BY <1>1, <1>2, <2>8, <3>1, <3>2
  <2>9. Mirrors(f, longer)
    BY <1>2, <1>3, <2>3, <2>6, <2>7, <2>8 DEF Mirrors
  <2> QED
    BY <2>2, <2>9 DEF longer, id
<1> QED
  BY <1>6, <1>7

(* A newly filed hook covers others and uncovers none.                     *)
LEMMA NewestBefore ==
  ASSUME NEW f, IsSeq(f), NEW x
  PROVE  /\ Range(Append(f, x)) = Range(f) \cup {x}
         /\ \A h \in Range(f) :
              h \in NewestOfEachType(Append(f, x)) => h \in NewestOfEachType(f)
<1>1. PICK g : g = Append(f, x)
  OBVIOUS
<1>2. /\ DOMAIN f = 1 .. Len(f) /\ Len(f) \in Nat /\ DOMAIN g = 1 .. Len(f) + 1
      /\ g[Len(f) + 1] = x /\ \A i \in DOMAIN f : i \in DOMAIN g /\ g[i] = f[i]
  BY <1>1, SeqAppend, SeqShape
<1>3. \A i \in DOMAIN g : i \in DOMAIN f \/ i = Len(f) + 1
  BY <1>2
<1>4. Len(f) + 1 \in DOMAIN g
  BY <1>2
<1>5. Range(g) = Range(f) \cup {x}
  BY <1>2, <1>3, <1>4 DEF Range
<1>6. ASSUME NEW h \in Range(f), h \in NewestOfEachType(g) PROVE h \in NewestOfEachType(f)
  BY <1>2, <1>6 DEF NewestOfEachType
<1> QED
  BY <1>1, <1>5, <1>6

(* Of one type there is one newest hook.                                   *)
LEMMA NewestOnce ==
  ASSUME NEW f, IsSeq(f), NEW g \in NewestOfEachType(f), NEW h \in NewestOfEachType(f),
         g.type = h.type
  PROVE  g = h
<1>1. PICK i \in DOMAIN f : f[i] = g
  BY DEF NewestOfEachType, Range
<1>2. PICK j \in DOMAIN f : f[j] = h
  BY DEF NewestOfEachType, Range
<1>3. j <= i /\ i <= j
  BY <1>1, <1>2 DEF NewestOfEachType
<1>4. DOMAIN f = 1 .. Len(f) /\ Len(f) \in Nat
  BY SeqShape
<1> QED
  BY <1>1, <1>2, <1>3, <1>4

(* The filed entry of a pair, whether or not it is there.                  *)
LEMMA EntryMirrors ==
  ASSUME Registry, NEW event, NEW task
  PROVE  /\ IsSeq(Filed(event, task)) /\ Numbered(Filed(event, task), nextHook)
         /\ Keeps(Entry(event, task), Filed(event, task), Untouched(event, task))
<1>1. CASE <<event, task>> \in DOMAIN filed
  <2>1. Entry(event, task) = registry[<<event, task>>] /\ Filed(event, task) = filed[<<event, task>>]
    BY <1>1 DEF Registry, Entry, Filed
  <2> QED
    BY <1>1, <2>1 DEF Registry, Untouched
<1>2. CASE <<event, task>> \notin DOMAIN filed
  <2>1. Entry(event, task) = <<>> /\ Filed(event, task) = <<>>
    BY <1>2 DEF Registry, Entry, Filed
  <2>2. Mirrors(<<>>, <<>>)
    BY SeqEmpty DEF Mirrors
  <2>3. Keeps(<<>>, <<>>, Untouched(event, task))
    BY <2>2 DEF Keeps
  <2> QED
    BY <2>1, <2>3, SeqEmpty DEF Numbered
<1> QED
  BY <1>1, <1>2

(* The slots of an entry, whatever they stand for.                         *)
LEMMA EntrySlots ==
  ASSUME Registry, NEW event, NEW task
  PROVE  /\ IsSeq(Entry(event, task))
         /\ \A i \in DOMAIN Entry(event, task) :
              /\ Entry(event, task)[i].instances # <<>>
              /\ \A T : Entry(event, task)[i].id # TypeIdOf(T)
<1>1. PICK part : Mirrors(Entry(event, task), part)
  BY EntryMirrors DEF Keeps
<1> QED
  BY <1>1, FiledApart DEF Mirrors

(* attach(): a hook with a number of its own is filed in both places.      *)
LEMMA AttachKeeps ==
  ASSUME NEW slots, NEW history, NEW untouched, NEW n \in Nat, NEW hook, hook.id = n,
         IsSeq(history), Numbered(history, n), Keeps(slots, history, untouched)
  PROVE  /\ IsSeq(Append(history, hook)) /\ Numbered(Append(history, hook), n + 1)
         /\ Keeps(promote(slots, FiledUnder(hook), hook), Append(history, hook), untouched)
<1>1. PICK longer : longer = Append(history, hook)
  OBVIOUS
<1>2. /\ DOMAIN longer = 1 .. Len(history) + 1 /\ DOMAIN history = 1 .. Len(history)
      /\ Len(history) \in Nat /\ longer[Len(history) + 1] = hook
      /\ \A m \in 1 .. Len(history) : longer[m] = history[m]
      /\ IsSeq(longer)
  BY <1>1, SeqAppend, SeqShape
<1>3. Numbered(longer, n + 1)
  <2>1. \A m \in DOMAIN longer : m \in 1 .. Len(history) \/ m = Len(history) + 1
    BY <1>2
  <2>2. \A m \in 1 .. Len(history) : longer[m].id \in Nat /\ longer[m].id < n + 1
    BY <1>2 DEF Numbered
  <2>3. longer[Len(history) + 1].id \in Nat /\ longer[Len(history) + 1].id < n + 1
    BY <1>2
  <2> QED
    BY <2>1, <2>2, <2>3 DEF Numbered
<1>4. PICK part : /\ Mirrors(slots, part) /\ Range(part) \subseteq Range(history)
                  /\ untouched => part = history
  BY DEF Keeps
<1>5. hook \notin Range(history)
  BY DEF Numbered, Range
<1>6. \A m \in DOMAIN part : part[m] # hook
  BY <1>4, <1>5 DEF Range
<1>7. Mirrors(promote(slots, FiledUnder(hook), hook), Append(part, hook))
  BY <1>4, <1>6, PromoteMirrors
<1>8. /\ Range(Append(part, hook)) = Range(part) \cup {hook}
      /\ Range(Append(history, hook)) = Range(history) \cup {hook}
  <2>1. IsSeq(part)
    BY <1>4 DEF Mirrors
  <2> QED
    BY <2>1, NewestBefore
<1>9. Keeps(promote(slots, FiledUnder(hook), hook), Append(history, hook), untouched)
  BY <1>4, <1>7, <1>8 DEF Keeps
<1> QED
  BY <1>1, <1>2, <1>3, <1>9

LEMMA FilesStep ==
  ASSUME Registry, NEW event, NEW task, NEW hook, hook.id = nextHook,
         attach(event, task, hook), nextHook' = nextHook + 1
  PROVE  Registry'
<1> DEFINE key == <<event, task>>
           slots == promote(Entry(event, task), FiledUnder(hook), hook)
           history == Append(Filed(event, task), hook)
<1>1. nextHook \in Nat
  BY DEF Registry
<1>2. /\ IsSeq(history) /\ Numbered(history, nextHook + 1)
      /\ Keeps(slots, history, \A d \in detached : d.key # key)
  BY <1>1, EntryMirrors, AttachKeeps DEF Untouched
<1>3. /\ registry' = Put(registry, key, slots)
      /\ filed' = Put(filed, key, history)
      /\ detached' = detached
  BY DEF attach
<1> HIDE DEF slots, history, key
<1>4. DOMAIN registry' = DOMAIN registry \cup {key} /\ DOMAIN filed' = DOMAIN filed \cup {key}
  BY <1>3 DEF Put
<1>5. ASSUME NEW k \in DOMAIN filed'
      PROVE  /\ IsSeq(filed'[k]) /\ Numbered(filed'[k], nextHook')
             /\ Keeps(registry'[k], filed'[k], \A d \in detached' : d.key # k)
  <2>1. CASE k = key
    <3>1. registry'[k] = slots /\ filed'[k] = history
      BY <1>3, <2>1 DEF Put
    <3> QED
      BY <1>2, <1>3, <2>1, <3>1
  <2>2. CASE k # key
    <3>1. k \in DOMAIN filed /\ k \in DOMAIN registry
      BY <1>4, <1>5, <2>2 DEF Registry
    <3>2. registry'[k] = registry[k] /\ filed'[k] = filed[k]
      BY <1>3, <2>2, <3>1 DEF Put
    <3>3. /\ IsSeq(filed[k]) /\ Numbered(filed[k], nextHook)
          /\ Keeps(registry[k], filed[k], \A d \in detached : d.key # k)
      BY <3>1 DEF Registry
    <3>4. Numbered(filed[k], nextHook + 1)
      BY <1>1, <3>3 DEF Numbered
    <3> QED
      BY <1>3, <3>2, <3>3, <3>4
  <2> QED
    BY <2>1, <2>2
<1>6. nextHook' \in Nat /\ DOMAIN registry' = DOMAIN filed'
  BY <1>1, <1>4 DEF Registry
<1> QED
  BY <1>5, <1>6 DEF Registry

(* detach() looks for an id that nothing is filed under: it pops nothing,  *)
(* and empties the entry if that has but one slot.                         *)
LEMMA RemoveNothing ==
  ASSUME NEW slots, IsSeq(slots), NEW T, \A i \in DOMAIN slots : slots[i].id # TypeIdOf(T)
  PROVE  /\ remove(slots, TypeIdOf(T)).popped = {}
         /\ remove(slots, TypeIdOf(T)).slots \in {<<>>, slots}
<1>1. SlotsOf(slots, TypeIdOf(T)) = {} /\ Len(slots) \in Nat
  BY SeqShape DEF SlotsOf
<1>2. CASE Len(slots) <= 1
  BY <1>1, <1>2 DEF remove
<1>3. CASE Len(slots) > 1
  <2>1. ~(Len(slots) <= 1)
    BY <1>1, <1>3
  <2> QED
    BY <1>1, <1>3, <2>1 DEF remove
<1> QED
  BY <1>1, <1>2, <1>3

LEMMA DetachStep ==
  ASSUME Registry, NEW event, NEW task, NEW T, detach(event, task, T), UNCHANGED nextHook
  PROVE  Registry'
<1> DEFINE key == <<event, task>>
           call == [key |-> key, type |-> T, before |-> nextHook]
<1>1. filed' = filed /\ detached' = detached \cup {call} /\ call.key = key
  BY DEF detach
<1>2. PICK new : /\ registry' = IF key \in DOMAIN registry
                                THEN [registry EXCEPT ![key] = new] ELSE registry
                 /\ key \in DOMAIN registry => new \in {<<>>, registry[key]}
  <2>1. registry' = IF key \in DOMAIN registry
                    THEN [registry EXCEPT ![key] = remove(registry[key], TypeIdOf(T)).slots]
                    ELSE registry
    BY DEF detach
  <2>2. key \in DOMAIN registry => Entry(event, task) = registry[key]
    BY DEF Entry
  <2>3. PICK slots : slots = Entry(event, task)
    OBVIOUS
  <2>4. IsSeq(slots) /\ \A i \in DOMAIN slots : slots[i].id # TypeIdOf(T)
    BY <2>3, EntrySlots
  <2>5. remove(slots, TypeIdOf(T)).slots \in {<<>>, slots}
    BY <2>4, RemoveNothing
  <2>6. PICK new : new = remove(registry[key], TypeIdOf(T)).slots
    OBVIOUS
  <2>7. key \in DOMAIN registry => new \in {<<>>, registry[key]}
    BY <2>2, <2>3, <2>5, <2>6
  <2> QED
    BY <2>1, <2>6, <2>7
<1> HIDE DEF key, call
<1>3. DOMAIN registry' = DOMAIN registry
  BY <1>2
<1>4. ASSUME NEW k \in DOMAIN filed'
      PROVE  /\ IsSeq(filed'[k]) /\ Numbered(filed'[k], nextHook')
             /\ Keeps(registry'[k], filed'[k], \A d \in detached' : d.key # k)
  <2>1. /\ k \in DOMAIN registry /\ IsSeq(filed[k]) /\ Numbered(filed[k], nextHook)
        /\ Keeps(registry[k], filed[k], \A d \in detached : d.key # k)
    BY <1>1, <1>4 DEF Registry
  <2>2. PICK part : /\ Mirrors(registry[k], part) /\ Range(part) \subseteq Range(filed[k])
                    /\ (\A d \in detached : d.key # k) => part = filed[k]
    BY <2>1 DEF Keeps
  <2>3. (\A d \in detached' : d.key # k) => k # key /\ \A d \in detached : d.key # k
    BY <1>1
  <2>4. CASE registry'[k] = registry[k]
    BY <1>1, <2>1, <2>2, <2>3, <2>4 DEF Keeps
  <2>5. CASE k = key /\ registry'[k] = <<>>
    <3>1. Mirrors(<<>>, <<>>) /\ Range(<<>>) = {}
      BY SeqEmpty DEF Mirrors, Range
    <3> QED
      BY <1>1, <2>1, <2>3, <2>5, <3>1 DEF Keeps
  <2> QED
    BY <1>2, <2>1, <2>4, <2>5
<1> QED
  BY <1>1, <1>3, <1>4 DEF Registry

(* The registry mirrors what has been filed, always.                       *)
LEMMA RegistryInit == Init => Registry
<1>1. Init => DOMAIN registry = {} /\ DOMAIN filed = {}
  BY SeqEmpty DEF Init, InitHooks
<1> QED
  BY <1>1 DEF Init, InitHooks, Registry

LEMMA RegistryNext ==
  Registry /\ [Next]_vars => Registry'
<1> SUFFICES ASSUME Registry, [Next]_vars PROVE Registry'
  OBVIOUS
<1>1. ASSUME UNCHANGED hookVars PROVE Registry'
  BY <1>1 DEF hookVars, Registry
<1>2. ASSUME NEW p \in Procs, HookStep(p) PROVE Registry'
  <2>1. ASSUME NEW event, NEW task, NEW hook, hook.id = nextHook, Files(p, event, task, hook)
        PROVE  Registry'
    BY <2>1, FilesStep DEF Files
  <2>2. \A T, d : [type |-> T, id |-> nextHook, dep |-> d].id = nextHook
    OBVIOUS
  <2>3. ASSUME attach_hook(p) PROVE Registry'
    BY <2>1, <2>2, <2>3 DEF attach_hook
  <2>4. ASSUME shared(p) PROVE Registry'
    BY <1>1, <2>1, <2>2, <2>4 DEF shared
  <2>5. ASSUME Depend(p) PROVE Registry'
    BY <2>1, <2>2, <2>5 DEF Depend
  <2>6. ASSUME detach_hook(p) PROVE Registry'
    BY <2>6, DetachStep DEF detach_hook
  <2>7. ASSUME Emit(p) \/ Deliver(p) \/ StoreFlag(p) \/ instruct(p) \/ disable(p) \/ enable(p)
        PROVE  UNCHANGED hookVars
    BY <2>7 DEF Emit, Deliver, MonitorCounts, Continues, StoreFlag, instruct, disable, enable
  <2> QED
    BY <1>1, <1>2, <2>3, <2>4, <2>5, <2>6, <2>7 DEF HookStep
<1>3. ASSUME NEW p \in Procs, FrameStep(p) \/ Drop(p) \/ Elapse(p) PROVE UNCHANGED hookVars
  <2>1. ASSUME Drop(p) \/ Elapse(p) PROVE UNCHANGED hookVars
    BY <2>1 DEF Drop, Elapse
  <2>2. ASSUME \/ run(p) \/ Enter(p) \/ Leaf(p) \/ NoOperation(p) \/ Delay(p) \/ Wake(p)
               \/ Fallback(p) \/ Recover(p) \/ Condition(p) \/ Retry(p) \/ Attempt(p)
        PROVE  UNCHANGED hookVars
    BY <2>2 DEF run, Enter, Leaf, NoOperation, Delay, Wake, Fallback, Recover, Condition, Retry,
                Attempt, Continues, Returns
  <2>3. ASSUME \/ Attempted(p) \/ Timeout(p) \/ InTime(p) \/ Threshold(p) \/ CountRun(p)
               \/ Dependency(p) \/ is_resolved(p) \/ Combine(p) \/ Resolve(p)
        PROVE  UNCHANGED hookVars
    BY <2>3 DEF Attempted, Timeout, InTime, Threshold, CountRun, Dependency, is_resolved, Combine,
                Resolve, Continues, Returns
  <2>4. ASSUME \/ Sequential(p) \/ NextChild(p) \/ QuitOrNext(p) \/ Selection(p)
               \/ Parallel(p) \/ Join(p)
        PROVE  UNCHANGED hookVars
    BY <2>4 DEF Sequential, NextChild, QuitOrNext, Selection, Parallel, Join, Continues, Returns
  <2> QED
    BY <1>3, <2>1, <2>2, <2>3, <2>4 DEF FrameStep
<1> QED
  BY <1>1, <1>2, <1>3 DEF Next, Step, vars

-----------------------------------------------------------------------------
(***************************************************************************)
(* Emissions.                                                              *)
(***************************************************************************)
(* No slot is ever without an instance: the unreachable!() of get() is.    *)
LEMMA NeverUnreachable ==
  ASSUME Registry, NEW event, NEW task
  PROVE  ~Unreachable(Entry(event, task))
  BY EntrySlots DEF Unreachable

(* The snapshot of an emission holds the newest hook of each type, once,   *)
(* in whatever order a map walks its slots.                                *)
LEMMA SnapshotIsNewest ==
  ASSUME NEW slots, NEW history, Mirrors(slots, history), NEW s \in Snapshots(slots)
  PROVE  /\ DOMAIN s = DOMAIN slots
         /\ Range(s) = NewestOfEachType(history)
         /\ \A i, j \in DOMAIN s : s[i] = s[j] => i = j
<1> DEFINE D == DOMAIN slots
           newest(i) == get(slots[i].instances)
<1>1. D = 1 .. Len(slots) /\ DOMAIN history = 1 .. Len(history)
      /\ Len(slots) \in Nat /\ Len(history) \in Nat
  BY SeqShape DEF Mirrors
<1>2. PICK o \in [D -> D] : IsInjective(o) /\ s = [i \in D |-> newest(o[i])]
  <2>1. [i \in D |-> i] \in [D -> D] /\ IsInjective([i \in D |-> i])
    BY DEF IsInjective
  <2> QED
    BY <2>1 DEF Snapshots
<1>3. \A i \in D : \E j \in D : o[j] = i
  <2>1. IsFiniteSet(D)
    BY <1>1, FS_Interval
  <2>2. o \in Injection(D, D)
    BY <1>2 DEF Injection
  <2> HIDE DEF D
  <2>3. o \in Surjection(D, D)
    BY <2>1, <2>2, FS_Injection
  <2> QED
    BY <2>3 DEF Surjection
<1>4. ASSUME NEW i \in D PROVE newest(i) \in NewestOfEachType(history)
  <2>1. PICK m \in DOMAIN history :
          /\ history[m] = newest(i)
          /\ \A l \in DOMAIN history : history[l].type = history[m].type => l <= m
    BY DEF Mirrors
  <2>2. newest(i) \in Range(history)
    BY <2>1 DEF Range
  <2>3. \A l \in DOMAIN history : history[l] = newest(i) => l = m
    BY <2>1 DEF Mirrors
  <2> QED
    BY <2>1, <2>2, <2>3 DEF NewestOfEachType
<1>5. ASSUME NEW h \in NewestOfEachType(history) PROVE \E i \in D : newest(i) = h
  <2>1. PICK m \in DOMAIN history : history[m] = h
    BY DEF NewestOfEachType, Range
  <2>2. PICK i \in D : slots[i].id = FiledUnder(h)
    BY <2>1 DEF Mirrors
  <2>3. PICK l \in DOMAIN history :
          /\ history[l] = newest(i)
          /\ \A k \in DOMAIN history : history[k].type = history[l].type => k <= l
    BY DEF Mirrors
  <2>4. history[l].type = h.type
    BY <2>2, <2>3, FiledApart DEF Mirrors
  <2>5. m <= l /\ l <= m
    BY <2>1, <2>3, <2>4 DEF NewestOfEachType
  <2> QED
    BY <1>1, <2>1, <2>3, <2>5
<1>6. \A i, j \in D : newest(i) = newest(j) => i = j
  BY DEF Mirrors
<1> HIDE DEF newest
<1>7. DOMAIN s = D /\ \A i \in D : s[i] = newest(o[i]) /\ o[i] \in D
  BY <1>2
<1>8. Range(s) = NewestOfEachType(history)
  <2>1. ASSUME NEW h \in Range(s) PROVE h \in NewestOfEachType(history)
    <3>1. PICK i \in D : h = newest(o[i]) /\ o[i] \in D
      BY <1>7 DEF Range
    <3> QED
      BY <1>4, <3>1
  <2>2. ASSUME NEW h \in NewestOfEachType(history) PROVE h \in Range(s)
    <3>1. PICK i \in D : newest(i) = h
      BY <1>5
    <3>2. PICK j \in D : o[j] = i
      BY <1>3
    <3> QED
      BY <1>7, <3>1, <3>2 DEF Range
  <2> QED
    BY <2>1, <2>2
<1>9. \A i, j \in D : s[i] = s[j] => i = j
  BY <1>2, <1>6, <1>7 DEF IsInjective
<1> QED
  BY <1>7, <1>8, <1>9

(* A sequence in front of another is what one takes off again.             *)
LEMMA SeqFront ==
  ASSUME NEW s, NEW t, IsSeq(s), IsSeq(t)
  PROVE  LET front == SubSeq(s \o t, 1, Len(s \o t) - Len(t))
         IN DOMAIN front = DOMAIN s /\ \A i \in DOMAIN s : front[i] = s[i]
<1> DEFINE S == Range(s) \cup Range(t)
<1>1. s \in Seq(S) /\ t \in Seq(S) /\ DOMAIN s = 1 .. Len(s) /\ Len(s) \in Nat /\ Len(t) \in Nat
  BY SeqShape
<1> HIDE DEF S
<1>2. PICK u : u = s \o t
  OBVIOUS
<1>3. u \in Seq(S) /\ Len(u) = Len(s) + Len(t) /\ \A i \in 1 .. Len(s) : u[i] = s[i]
  BY <1>1, <1>2
<1>4. PICK n \in Nat : n = Len(s)
  BY <1>1
<1>5. Len(u) - Len(t) = n /\ n <= Len(u)
  BY <1>1, <1>3, <1>4
<1>6. DOMAIN SubSeq(u, 1, n) = 1 .. n /\ \A i \in 1 .. n : SubSeq(u, 1, n)[i] = u[i]
  BY <1>3, <1>5
<1> QED
  BY <1>1, <1>2, <1>3, <1>4, <1>5, <1>6

(* The work of p moves only when p does.                                   *)
Only(p) == \A q \in Procs : q # p => work'[q] = work[q]

LEMMA LeavesOnly ==
  ASSUME Stacks, NEW p \in Procs, NEW ops, NEW r, NEW kids, Leaves(p, ops, r, kids)
  PROVE  Only(p)
  BY DEF Stacks, Leaves, Only

(* A process about to emit is changed by its own emission, or its drop.    *)
LEMMA EmitsAlone ==
  ASSUME FrameInv, NEW p \in Procs, At(p, "emit"), work'[p] # work[p], Next
  PROVE  Emit(p) \/ Drop(p)
<1>1. \A do : At(p, do) => do = "emit"
  BY DEF At
<1>2. \A kind : ~Executes(p, kind)
  BY <1>1 DEF Executes
<1>3. Stacks
  BY DEF FrameInv
<1> HIDE DEF At, Executes
<1>4. PICK q \in Procs : Step(q) \/ Elapse(q)
  BY DEF Next
<1>5. Only(q) => q = p
  BY DEF Only
<1>6. \A ops, r, kids : Leaves(q, ops, r, kids) => q = p
  BY <1>3, <1>5, LeavesOnly
<1>7. /\ \A ops, r : Proceeds(q, ops, r) \/ Returns(q, r) \/ Continues(q, ops) => q = p
      /\ Panics(q) => q = p
  BY <1>6 DEF Proceeds, Panics, Continues, Returns
<1>8. ASSUME HookStep(q) PROVE Emit(p)
  <2>1. q = p
    <3>1. ASSUME NEW event, NEW task, NEW hook, Files(q, event, task, hook) PROVE q = p
      BY <1>7, <3>1 DEF Files
    <3>2. ASSUME Deliver(q) \/ StoreFlag(q) PROVE q = p
      <4>1. ASSUME NEW d, MonitorCounts(q, d) PROVE q = p
        BY <1>7, <4>1 DEF MonitorCounts
      <4> QED
        BY <1>7, <3>2, <4>1 DEF Deliver, StoreFlag
    <3>3. ASSUME Emit(q) PROVE q = p
      <4>1. \/ Panics(q)
            \/ \E s \in Snapshots(Entry(Arg(work[q][1]), On(work[q][1]))) :
                 Proceeds(q, [i \in DOMAIN s |-> Op("deliver", On(work[q][1]), s[i])], res[q])
        BY <3>3 DEF Emit
      <4>2. \A s : Proceeds(q, [i \in DOMAIN s |-> Op("deliver", On(work[q][1]), s[i])], res[q])
                     => q = p
        BY <1>7, Zenon
      <4> QED
        BY <1>7, <4>1, <4>2
    <3>4. ASSUME attach_hook(q) \/ shared(q) \/ Depend(q) PROVE q = p
      BY <1>7, <3>1, <3>4 DEF attach_hook, shared, Depend
    <3>5. ASSUME detach_hook(q) \/ instruct(q) \/ disable(q) \/ enable(q) PROVE q = p
      BY <1>7, <3>5 DEF detach_hook, instruct, disable, enable
    <3> QED
      BY <1>8, <3>2, <3>3, <3>4, <3>5 DEF HookStep
  <2> QED
    BY <1>1, <1>8, <2>1 DEF HookStep, Deliver, StoreFlag, attach_hook, detach_hook, shared, instruct,
                            Depend, disable, enable
<1>9. ASSUME FrameStep(q) PROVE FALSE
  <2>1. ASSUME \/ run(q) \/ Enter(q) \/ Leaf(q) \/ NoOperation(q) \/ Delay(q) \/ Wake(q)
               \/ Fallback(q) \/ Recover(q) \/ Condition(q) \/ Retry(q) \/ Attempt(q)
        PROVE  FALSE
    <3>1. q = p
      BY <1>7, <2>1 DEF run, Enter, Leaf, NoOperation, Delay, Wake, Fallback, Recover, Condition,
                        Retry, Attempt
    <3> QED
      BY <1>1, <1>2, <2>1, <3>1 DEF run, Enter, Leaf, NoOperation, Delay, Wake, Fallback, Recover,
                                    Condition, Retry, Attempt
  <2>2. ASSUME \/ Attempted(q) \/ Timeout(q) \/ InTime(q) \/ Threshold(q) \/ CountRun(q)
               \/ Dependency(q) \/ is_resolved(q) \/ Combine(q) \/ Resolve(q)
        PROVE  FALSE
    <3>1. q = p
      BY <1>7, <2>2 DEF Attempted, Timeout, InTime, Threshold, CountRun, Dependency, is_resolved,
                        Combine, Resolve
    <3> QED
      BY <1>1, <1>2, <2>2, <3>1 DEF Attempted, Timeout, InTime, Threshold, CountRun, Dependency,
                                    is_resolved, Combine, Resolve
  <2>3. ASSUME Sequential(q) \/ NextChild(q) \/ QuitOrNext(q) \/ Selection(q) \/ Join(q)
        PROVE  FALSE
    <3>1. q = p
      BY <1>6, <1>7, <2>3 DEF Sequential, NextChild, QuitOrNext, Selection, Join
    <3> QED
      BY <1>1, <1>2, <2>3, <3>1 DEF Sequential, NextChild, QuitOrNext, Selection, Join
  <2>4. ASSUME Parallel(q) PROVE FALSE
    <3> DEFINE kids == Frames[On(work[q][1])].kids
               procs == SetToSeq(Idle)
    <3>1. Executes(q, "parallel") /\ p # q
      BY <1>2, <2>4 DEF Parallel
    <3>2. CASE kids = <<>>
      BY <1>7, <2>4, <3>1, <3>2 DEF Parallel, Frame
    <3>3. CASE kids # <<>>
      <4>1. At(q, "exec")
        BY <3>1 DEF Executes
      <4>2. On(work[q][1]) \in DOMAIN Frames
        BY <4>1, FirstStep DEF Known, FrameSteps
      <4>3. DOMAIN kids = 1 .. Len(kids) /\ Len(kids) \in Nat
        BY <4>2, FrameFacts
      <4>4. Len(procs) >= Len(kids)
        BY <2>4, <3>3 DEF Parallel, Frame
      <4>5. \A i \in DOMAIN kids : procs[i] \in Idle
        BY <4>3, <4>4, IdleInOrder
      <4>6. work[p] # <<>>
        BY FirstStep
      <4>7. p \notin {procs[i] : i \in DOMAIN kids}
        BY <4>5, <4>6 DEF Idle
      <4>8. work'[p] = work[p]
        BY <2>4, <3>1, <3>3, <4>7 DEF Parallel, Frame
      <4> QED
        BY <4>8
    <3> QED
      BY <3>2, <3>3
  <2> QED
    BY <1>9, <2>1, <2>2, <2>3, <2>4 DEF FrameStep
<1>10. ASSUME Elapse(q) PROVE FALSE
  <2>1. q = p
    BY <1>6, <1>10 DEF Elapse
  <2> QED
    BY <1>1, <1>10, <2>1 DEF Elapse, Suspended
<1>11. ASSUME Drop(q) PROVE Drop(p)
  BY <1>6, <1>11 DEF Drop
<1> QED
  BY <1>4, <1>8, <1>9, <1>10, <1>11 DEF Step

(* What an emission puts on the stack: the newest hook of each type.       *)
LEMMA EmitsNewest ==
  ASSUME FrameInv, Registry, NEW p \in Procs, Emit(p)
  PROVE  LET event == Arg(work[p][1])
             task == On(work[p][1])
             before == Len(work[p]) - 1
             steps == SubSeq(work'[p], 1, Len(work'[p]) - before)
             called == Range([i \in DOMAIN steps |-> Arg(steps[i])])
         IN /\ called \subseteq Range(Filed(event, task))
            /\ \A i, j \in DOMAIN steps : Arg(steps[i]).type = Arg(steps[j]).type => i = j
            /\ Untouched(event, task) => called = NewestOfEachType(Filed(event, task))
<1> DEFINE event == Arg(work[p][1])
           task == On(work[p][1])
           slots == Entry(event, task)
           rest == Tail(work[p])
           steps == SubSeq(work'[p], 1, Len(work'[p]) - (Len(work[p]) - 1))
<1>1. At(p, "emit") /\ IsSeq(work[p]) /\ work[p] # <<>>
  BY DEF Emit, At, FrameInv, Stacks
<1>2. PICK s \in Snapshots(slots) :
        Proceeds(p, [i \in DOMAIN s |-> Op("deliver", task, s[i])], res[p])
  BY NeverUnreachable DEF Emit
<1>3. PICK part : /\ Mirrors(slots, part) /\ Range(part) \subseteq Range(Filed(event, task))
                  /\ Untouched(event, task) => part = Filed(event, task)
  BY EntryMirrors DEF Keeps
<1>4. /\ DOMAIN s = DOMAIN slots
       /\ Range(s) = NewestOfEachType(part)
       /\ \A i, j \in DOMAIN s : s[i] = s[j] => i = j
  BY <1>3, SnapshotIsNewest
<1>5. \A i, j \in DOMAIN s : s[i].type = s[j].type => i = j
  <2>1. \A i \in DOMAIN s : s[i] \in NewestOfEachType(part)
    BY <1>4 DEF Range
  <2>2. IsSeq(part)
    BY <1>3 DEF Mirrors
  <2> QED
    BY <1>4, <2>1, <2>2, NewestOnce
<1>6. NewestOfEachType(part) \subseteq Range(part)
  BY DEF NewestOfEachType
<1>7. PICK ops : ops = [i \in DOMAIN s |-> Op("deliver", task, s[i])]
  OBVIOUS
<1>8. DOMAIN ops = DOMAIN s /\ \A i \in DOMAIN s : Arg(ops[i]) = s[i]
  BY <1>7 DEF Op, Arg
<1>9. IsSeq(ops)
  <2>1. DOMAIN s = 1 .. Len(slots) /\ Len(slots) \in Nat
    BY <1>4, EntrySlots, SeqShape
  <2>2. ops \in [1 .. Len(slots) -> Range(ops)]
    BY <1>7, <2>1 DEF Range
  <2> QED
    BY <2>1, <2>2, SeqFunction
<1>10. IsSeq(rest) /\ Len(rest) = Len(work[p]) - 1
  BY <1>1, SeqTail
<1>11. work'[p] = ops \o rest
  BY <1>2, <1>7 DEF Proceeds, Leaves, FrameInv, Stacks
<1>12. DOMAIN steps = DOMAIN ops /\ \A i \in DOMAIN ops : steps[i] = ops[i]
  BY <1>9, <1>10, <1>11, SeqFront
<1> HIDE DEF steps, event, task
<1>13. DOMAIN steps = DOMAIN s /\ \A i \in DOMAIN s : Arg(steps[i]) = s[i]
  BY <1>8, <1>12
<1>14. Range([i \in DOMAIN steps |-> Arg(steps[i])]) = Range(s)
  BY <1>13 DEF Range
<1>15. \A i, j \in DOMAIN steps : Arg(steps[i]).type = Arg(steps[j]).type => i = j
  BY <1>13, <1>5
<1> QED
  BY <1>3, <1>14, <1>15, <1>4, <1>6 DEF steps, event, task

-----------------------------------------------------------------------------
(***************************************************************************)
(* The theorems.                                                           *)
(***************************************************************************)
(* Both invariants hold together: a step keeps FrameInv in a state whose   *)
(* registry mirrors what was filed.                                        *)
LEMMA Invariants == Spec => [](FrameInv /\ Registry)
<1>1. Init => FrameInv /\ Registry
  BY FrameInit, RegistryInit
<1>2. FrameInv /\ Registry /\ [Next]_vars => (FrameInv /\ Registry)'
  <2>1. FrameInv /\ Registry /\ [Next]_vars => FrameInv'
    BY FrameNext
  <2>2. FrameInv /\ Registry /\ [Next]_vars => Registry'
    BY RegistryNext
  <2> QED
    BY <2>1, <2>2
<1> QED
  BY <1>1, <1>2, PTL DEF Spec

(* A child of a parallel collection outlives no JoinSet: early returns,    *)
(* panics, deadlines and drops abort it (collectionframe.rs, execute).     *)
THEOREM ChildrenStayOwned == Spec => []OrphansAreAborted
<1>1. FrameInv /\ Registry => OrphansAreAborted
  BY DEF FrameInv
<1> QED
  BY <1>1, Invariants, PTL

(* A threshold frame whose executions do not overlap counts no run beyond  *)
(* its threshold, whatever unwinds them (thresholdframe.rs, execute).      *)
THEOREM ThresholdIsKept == Spec => []ThresholdHolds
<1>1. FrameInv /\ Registry => ThresholdHolds
  BY DEF FrameInv, Limits, Limited, ThresholdHolds
<1> QED
  BY <1>1, Invariants, PTL

(* An emission calls hooks that were attached, no two of one type, and as  *)
(* long as no type is detached there, the newest of each, through every    *)
(* promotion of the container (hooks.rs, promote and emit).                *)
THEOREM NewestHooksAreCalled == Spec => EmissionReachesTheNewest
<1> DEFINE Reaches ==
             \A p \in Procs :
                At(p, "emit") /\ work'[p] # work[p] /\ res'[p] = res[p] =>
                    LET event == Arg(work[p][1])
                        task == On(work[p][1])
                        before == Len(work[p]) - 1
                        steps == SubSeq(work'[p], 1, Len(work'[p]) - before)
                        called == Range([i \in DOMAIN steps |-> Arg(steps[i])])
                    IN /\ called \subseteq Range(Filed(event, task))
                       /\ \A i, j \in DOMAIN steps :
                             Arg(steps[i]).type = Arg(steps[j]).type => i = j
                       /\ Untouched(event, task) => called = NewestOfEachType(Filed(event, task))
<1>1. FrameInv /\ Registry /\ [Next]_vars => [Reaches]_vars
  <2> SUFFICES ASSUME FrameInv, Registry, Next,
                      NEW p \in Procs, At(p, "emit"), work'[p] # work[p], res'[p] = res[p]
               PROVE  Emit(p)
    BY EmitsNewest
  <2>1. ASSUME Drop(p) PROVE FALSE
    <3>1. res'[p] = "dropped"
      BY <2>1 DEF Drop, Leaves, FrameInv, Results
    <3>2. res[p] \in Values
      BY FirstStep
    <3> QED
      BY <3>1, <3>2 DEF Values
  <2> QED
    BY <2>1, EmitsAlone
<1> QED
  BY <1>1, Invariants, PTL DEF Spec, EmissionReachesTheNewest

=============================================================================
