------------------------ MODULE WorkflowResultsProofs ------------------------
(***************************************************************************)
(* Theorems about the results of runs, for every set of processes and      *)
(* every proper scenario: a run ends with what its workflow promises,      *)
(* through retries, deadlines, aborted children and skipped panics, and a  *)
(* dependency on a task is resolved when enough of its runs have ended.    *)
(***************************************************************************)
EXTENDS WorkflowFramesProofs, Recursion

(***************************************************************************)
(* What a step hands on.  With a result of the set in, op ends with one of *)
(* out, or with a panic where it is risky.                                 *)
(***************************************************************************)
Returned(s, n) == PromisedBy(s)[n] \cap Values

Passive ==
    {"emit", "deliver", "store", "sleep", "attach", "detach", "shared", "depend", "disable",
     "enable"}

HandsOn == Passive \cup {"counts", "timed", "attempted", "and", "or"}

ReturnsOwn == {"exec", "attempt", "attempted", "resolve", "next", "quit", "join"}

\* The children of sequential frame f before the i-th can all succeed.
PassedUntil(s, f, i) ==
    /\ f.kind = "sequential"
    /\ f.policy = "QuitOnFailure" => \A j \in 1 .. i - 1 : "ok" \in PromisedBy(s)[f.kids[j]]

Carries(s, op, in, out) ==
    LET n == On(op)
        f == s.frames[n]
    IN /\ Do(op) \in HandsOn => in \subseteq out
       /\ Do(op) \in ReturnsOwn => Returned(s, n) \subseteq out
       /\ Do(op) = "emit" /\ Arg(op) = OnTaskEnd => in \subseteq PromisedBy(s)[s.root[n]]
       /\ Do(op) \in {"attach", "detach"} => IsSeq(Arg(op).event)
       /\ Do(op) = "run" => in = {} \/ Values \subseteq out
       /\ Do(op) = "leaf" => in = {} \/ f.outs \cap Values \subseteq out
       /\ Do(op) = "recover" =>
            /\ in \subseteq PromisedBy(s)[f.kids[1]]
            /\ in \cap {"ok"} \subseteq out
            /\ in \subseteq {"ok"} \/ Returned(s, f.kids[2]) \subseteq out
       /\ Do(op) = "timed" => "err" \in out
       /\ Do(op) \in {"eval", "and", "or", "negate"} => {"true", "false"} \subseteq out
       /\ Do(op) \in {"next", "quit"} => PassedUntil(s, f, Arg(op))
       /\ Do(op) = "quit" =>
            Arg(op) \in DOMAIN f.kids /\ in \subseteq PromisedBy(s)[f.kids[Arg(op)]]
       /\ Do(op) = "join" => f.kind = "parallel"

Risky(s, op) ==
    \/ Do(op) \in {"instruct", "run"}
    \/ Do(op) \in FrameSteps /\ "panic" \in PromisedBy(s)[On(op)]

\* A stretch of work takes any result of in to one of out.
Chain(s, ops, in, out) ==
    \E B \in [1 .. Len(ops) + 1 -> SUBSET Values] :
        /\ in \subseteq B[1]
        /\ B[Len(ops) + 1] \subseteq out
        /\ \A i \in 1 .. Len(ops) : Carries(s, ops[i], B[i], B[i + 1])

\* Work ops that holds r ends, if it is not dropped, with a result of G.
Fits(s, ops, r, G) ==
    /\ ops = <<>> => r \in G
    /\ ops # <<>> => Chain(s, ops, {r}, G)
    /\ \A i \in DOMAIN ops : Risky(s, ops[i]) => "panic" \in G

Works(p, G) == Fits(scenario, work[p], res[p], G)

(***************************************************************************)
(* The children of a JoinSet: none is aborted while it lives, and those of *)
(* a collection that quits on a failure stand for the children that are    *)
(* not known to have passed.                                               *)
(***************************************************************************)
KidPromise(n, c) == Promised[Frames[n].kids[c]]

Gathers(op) ==
    /\ \A k \in Arg(op) :
        /\ k \in Procs \ doomed
        /\ \E c \in DOMAIN Frames[On(op)].kids : Works(k, KidPromise(On(op), c))
    /\ Frames[On(op)].policy = "QuitOnFailure" =>
        \A c \in DOMAIN Frames[On(op)].kids :
            \/ KidPromise(On(op), c) \cap Passes("parallel") # {}
            \/ \E k \in Arg(op) : Works(k, KidPromise(On(op), c))

PromiseInv ==
    /\ \A p \in Procs : work[p] # <<>> => Works(p, Values \cup {"panic"})
    /\ doomed \subseteq {q \in Procs : work[q] # <<>>}
    /\ \A p \in Procs : \A i \in DOMAIN work[p] :
        Do(work[p][i]) = "join" => Gathers(work[p][i])
    /\ \A p, q \in Procs : \A i \in DOMAIN work[p], j \in DOMAIN work[q] :
        /\ Do(work[p][i]) = "join" /\ Do(work[q][j]) = "join"
        /\ Arg(work[p][i]) \cap Arg(work[q][j]) # {}
        => p = q /\ i = j

-----------------------------------------------------------------------------
(***************************************************************************)
(* Chains.                                                                 *)
(***************************************************************************)
(* A step that takes more results takes fewer, and may give more.          *)
LEMMA CarriesLess ==
  ASSUME NEW s, NEW op, NEW in, NEW out, Carries(s, op, in, out),
         NEW less, less \subseteq in, NEW more, out \subseteq more
  PROVE  Carries(s, op, less, more)
<1> HIDE DEF Do, On, Arg
<1> QED
  BY DEF Carries

(* No step.                                                                *)
LEMMA ChainNil ==
  ASSUME NEW s, NEW r \in Values, NEW out, r \in out
  PROVE  Chain(s, <<>>, {r}, out)
<1> DEFINE B == [i \in 1 .. 1 |-> {r}]
<1>1. Len(<<>>) = 0
  BY SeqEmpty
<1>2. B \in [1 .. 0 + 1 -> SUBSET Values] /\ B[1] = {r}
  OBVIOUS
<1> HIDE DEF B
<1>3. {r} \subseteq B[1] /\ B[0 + 1] \subseteq out
  BY <1>2
<1>4. \A i \in 1 .. 0 : Carries(s, <<>>[i], B[i], B[i + 1])
  OBVIOUS
<1> QED
  BY <1>1, <1>2, <1>3, <1>4 DEF Chain

(* Where there is no step left, the result is one of those allowed.        *)
LEMMA ChainEnds ==
  ASSUME NEW s, NEW in, NEW out, Chain(s, <<>>, in, out)
  PROVE  in \subseteq out
<1>1. Len(<<>>) = 0
  BY SeqEmpty
<1>2. PICK B \in [1 .. 0 + 1 -> SUBSET Values] :
         in \subseteq B[1] /\ B[0 + 1] \subseteq out
  BY <1>1 DEF Chain
<1> QED
  BY <1>2

(* One step more.                                                          *)
LEMMA ChainStep ==
  ASSUME NEW s, NEW a, NEW X \in SUBSET Values, NEW Y \in SUBSET Values, Carries(s, a, X, Y)
  PROVE  Chain(s, <<a>>, X, Y)
<1> DEFINE B == [i \in 1 .. 2 |-> IF i = 1 THEN X ELSE Y]
<1>1. <<a>>[1] = a /\ Len(<<a>>) = 1
  OBVIOUS
<1>2. B \in [1 .. 1 + 1 -> SUBSET Values] /\ B[1] = X /\ B[1 + 1] = Y
  OBVIOUS
<1> HIDE DEF B
<1>3. \A i \in 1 .. 1 : Carries(s, <<a>>[i], B[i], B[i + 1])
  <2>1. \A i \in 1 .. 1 : i = 1
    OBVIOUS
  <2> QED
    BY <1>1, <1>2, <2>1
<1>4. /\ X \subseteq B[1]
      /\ B[1 + 1] \subseteq Y
  BY <1>2
<1> QED
  BY <1>1, <1>2, <1>3, <1>4 DEF Chain

(* Two stretches, one after the other.                                     *)
LEMMA ChainConcat ==
  ASSUME NEW s, NEW f, NEW g, IsSeq(f), IsSeq(g), NEW in, NEW mid, NEW out,
         Chain(s, f, in, mid), Chain(s, g, mid, out)
  PROVE  Chain(s, f \o g, in, out)
<1>1. PICK A \in [1 .. Len(f) + 1 -> SUBSET Values] :
        /\ in \subseteq A[1]
        /\ A[Len(f) + 1] \subseteq mid
        /\ \A i \in 1 .. Len(f) : Carries(s, f[i], A[i], A[i + 1])
  BY DEF Chain
<1>2. PICK B \in [1 .. Len(g) + 1 -> SUBSET Values] :
        /\ mid \subseteq B[1]
        /\ B[Len(g) + 1] \subseteq out
        /\ \A i \in 1 .. Len(g) : Carries(s, g[i], B[i], B[i + 1])
  BY DEF Chain
<1>3. PICK m, l, h : /\ m = Len(f) /\ l = Len(g) /\ h = f \o g
  OBVIOUS
<1>4. /\ m \in Nat /\ l \in Nat /\ Len(h) = m + l
      /\ \A i \in 1 .. m : h[i] = f[i]
      /\ \A i \in 1 .. l : h[i + m] = g[i]
  BY <1>3, SeqShape, SeqConcat
<1> DEFINE C == [i \in 1 .. m + l + 1 |-> IF i <= m THEN A[i] ELSE B[i - m]]
<1>5. C \in [1 .. m + l + 1 -> SUBSET Values]
  <2>1. ASSUME NEW i \in 1 .. m + l + 1 PROVE (IF i <= m THEN A[i] ELSE B[i - m]) \in SUBSET Values
    <3>1. CASE i <= m
      BY <1>1, <1>3, <1>4, <3>1
    <3>2. CASE ~(i <= m)
      <4>1. i - m \in 1 .. l + 1
        BY <1>4, <3>2
      <4> QED
        BY <1>2, <1>3, <3>2, <4>1
    <3> QED
      BY <3>1, <3>2
  <2> QED
    BY <2>1
<1>6. A[m + 1] \subseteq B[1]
  BY <1>1, <1>2, <1>3
<1>7. /\ \A i \in 1 .. m : C[i] = A[i]
      /\ \A i \in 1 .. l + 1 : C[i + m] = B[i]
  <2>1. ASSUME NEW i \in 1 .. l + 1 PROVE C[i + m] = B[i]
    <3>1. i + m \in 1 .. m + l + 1 /\ ~(i + m <= m) /\ (i + m) - m = i
      BY <1>4
    <3> QED
      BY <3>1
  <2> QED
    BY <1>4, <2>1
<1> HIDE DEF C
<1>8. in \subseteq C[1]
  <2>1. CASE m = 0
    <3>1. C[1] = B[1] /\ in \subseteq A[m + 1] /\ 0 + 1 = 1
      <4>1. 1 \in 1 .. l + 1 /\ 1 + m = 1 /\ m + 1 = 1
        BY <1>4, <2>1
      <4> QED
        BY <1>1, <1>7, <4>1
    <3> QED
      BY <1>6, <3>1
  <2>2. CASE m # 0
    BY <1>1, <1>4, <1>7, <2>2
  <2> QED
    BY <2>1, <2>2
<1>9. C[m + l + 1] \subseteq out
  <2>1. l + 1 \in 1 .. l + 1 /\ (l + 1) + m = m + l + 1
    BY <1>4
  <2> QED
    BY <1>2, <1>3, <1>7, <2>1
<1>10. ASSUME NEW i \in 1 .. m + l PROVE Carries(s, h[i], C[i], C[i + 1])
  <2>1. CASE i < m
    <3>1. i \in 1 .. m /\ i + 1 \in 1 .. m
      BY <1>4, <2>1
    <3> QED
      BY <1>1, <1>3, <1>4, <1>7, <3>1
  <2>2. CASE i = m
    <3>1. C[i] = A[i] /\ C[i + 1] = B[1] /\ h[i] = f[i] /\ i \in 1 .. m
      <4>1. i \in 1 .. m /\ 1 \in 1 .. l + 1 /\ i + 1 = 1 + m
        BY <1>4, <2>2
      <4> QED
        BY <1>4, <1>7, <4>1
    <3>2. Carries(s, f[i], A[i], A[i + 1])
      BY <1>1, <1>3, <3>1
    <3> QED
      BY <1>6, <2>2, <3>1, <3>2, CarriesLess
  <2>3. CASE i > m
    <3> DEFINE j == i - m
    <3>1. j \in 1 .. l /\ j \in 1 .. l + 1 /\ j + 1 \in 1 .. l + 1
          /\ j + m = i /\ (j + 1) + m = i + 1
      BY <1>4, <2>3
    <3> HIDE DEF j
    <3>2. C[i] = B[j] /\ C[i + 1] = B[j + 1] /\ h[i] = g[j]
      BY <1>4, <1>7, <3>1
    <3> QED
      BY <1>2, <1>3, <3>1, <3>2
  <2> QED
    BY <1>4, <2>1, <2>2, <2>3
<1>11. Chain(s, h, in, out)
  BY <1>4, <1>5, <1>8, <1>9, <1>10 DEF Chain
<1> QED
  BY <1>3, <1>11

(* What is left of a chain below its m-th step.                            *)
LEMMA ChainCut ==
  ASSUME NEW s, NEW ops, IsSeq(ops), NEW in, NEW out, Chain(s, ops, in, out),
         NEW m \in 1 .. Len(ops), NEW rest, Len(rest) = Len(ops) - m,
         \A j \in 1 .. Len(rest) : rest[j] = ops[j + m]
  PROVE  \E X \in SUBSET Values, Y \in SUBSET Values :
           /\ Carries(s, ops[m], Y, X)
           /\ m = 1 => in \subseteq Y
           /\ Chain(s, rest, X, out)
<1>1. PICK B \in [1 .. Len(ops) + 1 -> SUBSET Values] :
        /\ in \subseteq B[1]
        /\ B[Len(ops) + 1] \subseteq out
        /\ \A i \in 1 .. Len(ops) : Carries(s, ops[i], B[i], B[i + 1])
  BY DEF Chain
<1>2. PICK l : l = Len(ops)
  OBVIOUS
<1>3. l \in Nat /\ m \in 1 .. l /\ Len(rest) = l - m
  BY <1>2, SeqShape
<1> DEFINE C == [i \in 1 .. (l - m) + 1 |-> B[i + m]]
<1>4. C \in [1 .. (l - m) + 1 -> SUBSET Values]
  <2>1. ASSUME NEW i \in 1 .. (l - m) + 1 PROVE B[i + m] \in SUBSET Values
    <3>1. i + m \in 1 .. l + 1
      BY <1>3
    <3> QED
      BY <1>1, <1>2, <3>1
  <2> QED
    BY <2>1
<1>5. \A i \in 1 .. (l - m) + 1 : C[i] = B[i + m]
  OBVIOUS
<1> HIDE DEF C
<1>6. C[1] = B[m + 1] /\ C[(l - m) + 1] = B[l + 1]
  <2>1. /\ 1 \in 1 .. (l - m) + 1 /\ 1 + m = m + 1
        /\ (l - m) + 1 \in 1 .. (l - m) + 1 /\ ((l - m) + 1) + m = l + 1
    BY <1>3
  <2> QED
    BY <1>5, <2>1
<1>7. ASSUME NEW i \in 1 .. l - m PROVE Carries(s, rest[i], C[i], C[i + 1])
  <2>1. /\ i \in 1 .. (l - m) + 1 /\ i + 1 \in 1 .. (l - m) + 1 /\ i + m \in 1 .. l
        /\ (i + 1) + m = (i + m) + 1
    BY <1>3
  <2>2. rest[i] = ops[i + m] /\ C[i] = B[i + m] /\ C[i + 1] = B[(i + m) + 1]
    <3>1. rest[i] = ops[i + m]
      BY <1>3
    <3>2. C[i] = B[i + m] /\ C[i + 1] = B[(i + 1) + m]
      BY <1>5, <2>1
    <3> QED
      BY <2>1, <3>1, <3>2
  <2> QED
    BY <1>1, <1>2, <2>1, <2>2
<1>8. Chain(s, rest, B[m + 1], out)
  BY <1>1, <1>2, <1>3, <1>4, <1>6, <1>7 DEF Chain
<1>9. /\ B[m] \in SUBSET Values /\ B[m + 1] \in SUBSET Values
      /\ Carries(s, ops[m], B[m], B[m + 1])
  BY <1>1, <1>2, <1>3
<1>10. m = 1 => in \subseteq B[m]
  BY <1>1
<1> QED
  BY <1>8, <1>9, <1>10

-----------------------------------------------------------------------------
(***************************************************************************)
(* Steps.                                                                  *)
(***************************************************************************)
\* With ops in its place, op is done as well if the result is now r.
Replaces(s, op, in, ops, r) ==
    /\ IsSeq(ops)
    /\ \A i \in DOMAIN ops : Risky(s, ops[i]) => Risky(s, op)
    /\ \A out \in SUBSET Values : Carries(s, op, in, out) => Chain(s, ops, {r}, out)

(* Work whose first m steps are replaced as the last of them may be.       *)
LEMMA FitsOn ==
  ASSUME NEW s, NEW old, IsSeq(old), NEW v, NEW G, Fits(s, old, v, G),
         NEW m \in 1 .. Len(old), NEW rest, IsSeq(rest), Len(rest) = Len(old) - m,
         \A j \in 1 .. Len(rest) : rest[j] = old[j + m],
         NEW in, in = {} \/ (m = 1 /\ in = {v}),
         NEW ops, NEW r, Replaces(s, old[m], in, ops, r)
  PROVE  Fits(s, ops \o rest, r, G)
<1>1. /\ Len(old) \in Nat /\ DOMAIN old = 1 .. Len(old) /\ old # <<>>
      /\ Len(rest) \in Nat /\ DOMAIN rest = 1 .. Len(rest)
  BY SeqShape
<1>2. IsSeq(ops) /\ \A out \in SUBSET Values : Carries(s, old[m], in, out) => Chain(s, ops, {r}, out)
  BY DEF Replaces
<1>3. Chain(s, old, {v}, G)
  BY <1>1 DEF Fits
<1>4. PICK X \in SUBSET Values, Y \in SUBSET Values :
        /\ Carries(s, old[m], Y, X)
        /\ m = 1 => {v} \subseteq Y
        /\ Chain(s, rest, X, G)
  BY <1>3, ChainCut
<1>5. Carries(s, old[m], in, X)
  BY <1>4, CarriesLess
<1>6. Chain(s, ops, {r}, X)
  BY <1>2, <1>5
<1>7. Chain(s, ops \o rest, {r}, G)
  BY <1>2, <1>4, <1>6, ChainConcat
<1>8. ops \o rest = <<>> => r \in G
  BY <1>7, ChainEnds
<1>9. ASSUME NEW i \in DOMAIN (ops \o rest), Risky(s, (ops \o rest)[i]) PROVE "panic" \in G
  <2>1. \A j \in DOMAIN old : Risky(s, old[j]) => "panic" \in G
    BY DEF Fits
  <2>2. /\ Len(ops) \in Nat /\ DOMAIN ops = 1 .. Len(ops)
        /\ IsSeq(ops \o rest) /\ Len(ops \o rest) = Len(ops) + Len(rest)
        /\ DOMAIN (ops \o rest) = 1 .. Len(ops \o rest)
    BY <1>2, SeqConcat, SeqShape
  <2>3. CASE i <= Len(ops)
    <3>1. i \in 1 .. Len(ops)
      BY <1>9, <2>2, <2>3
    <3>2. (ops \o rest)[i] = ops[i]
      BY <1>2, <3>1, SeqConcat
    <3>3. Risky(s, old[m])
      BY <1>9, <2>2, <3>1, <3>2 DEF Replaces
    <3> QED
      BY <1>1, <2>1, <3>3
  <2>4. CASE i > Len(ops)
    <3>1. PICK j \in 1 .. Len(rest) : i = j + Len(ops)
      <4>1. PICK l, k : l = Len(ops) /\ k = Len(rest)
        OBVIOUS
      <4>2. l \in Nat /\ k \in Nat /\ i \in 1 .. l + k /\ i > l
        BY <1>1, <1>9, <2>2, <2>4, <4>1
      <4>3. i - l \in 1 .. k /\ i = (i - l) + l
        BY <4>2
      <4> QED
        BY <4>1, <4>3
    <3>2. (ops \o rest)[i] = rest[j]
      BY <1>2, <3>1, SeqConcat
    <3>3. j + m \in DOMAIN old /\ rest[j] = old[j + m]
      BY <1>1, <3>1
    <3> QED
      BY <1>9, <2>1, <3>2, <3>3
  <2> QED
    BY <2>2, <2>3, <2>4
<1> QED
  BY <1>7, <1>8, <1>9 DEF Fits

(* A process that replaces the last step it cuts off still fits.           *)
LEMMA WorksOn ==
  ASSUME Stacks, Results, NEW p \in Procs, NEW m, NEW rest, NEW ops, NEW r, NEW kids,
         Unwinds(p, m, rest, ops, r, kids), m \in 1 .. Len(work[p]),
         NEW in, in = {} \/ (m = 1 /\ in = {res[p]}),
         Replaces(scenario, work[p][m], in, ops, r),
         NEW G, Works(p, G)
  PROVE  Fits(scenario, work'[p], res'[p], G)
<1>1. PICK s, old, v : s = scenario /\ old = work[p] /\ v = res[p]
  OBVIOUS
<1>2. /\ IsSeq(old) /\ IsSeq(rest) /\ Len(rest) = Len(old) - m
      /\ \A j \in 1 .. Len(rest) : rest[j] = old[j + m]
  BY <1>1 DEF Stacks, Unwinds, Cut
<1>3. work'[p] = ops \o rest /\ res'[p] = r
  BY NewStack DEF Stacks, Results, Unwinds, Leaves
<1>4. Fits(s, old, v, G) /\ Replaces(s, old[m], in, ops, r) /\ m \in 1 .. Len(old)
  BY <1>1 DEF Works
<1>5. in = {} \/ (m = 1 /\ in = {v})
  BY <1>1
<1>6. Fits(s, ops \o rest, r, G)
  BY <1>2, <1>4, <1>5, FitsOn
<1> QED
  BY <1>1, <1>3, <1>6

(* A JoinSet whose children go on as they were bound to stays one.         *)
LEMMA GathersStay ==
  ASSUME UNCHANGED scenario, NEW op, Gathers(op),
         \A k \in Arg(op) : k \notin doomed',
         \A k \in Arg(op) : \A G : Works(k, G) => Fits(scenario, work'[k], res'[k], G)
  PROVE  Gathers(op)'
<1> DEFINE n == On(op)
           f == Frames[n]
<1>1. Frames' = Frames /\ Promised' = Promised
  BY DEF Frames, Promised
<1>2. \A c : KidPromise(n, c)' = KidPromise(n, c)
  BY <1>1 DEF KidPromise
<1>3. \A k \in Arg(op) : \A c : Works(k, KidPromise(n, c)) => Works(k, KidPromise(n, c))'
  BY <1>2 DEF Works
<1>4. \A k \in Arg(op) : k \in Procs \ doomed' /\ \E c \in DOMAIN f.kids : Works(k, KidPromise(n, c))'
  BY <1>3 DEF Gathers
<1>5. f.policy = "QuitOnFailure" =>
        \A c \in DOMAIN f.kids :
            \/ KidPromise(n, c)' \cap Passes("parallel") # {}
            \/ \E k \in Arg(op) : Works(k, KidPromise(n, c))'
  BY <1>2, <1>3 DEF Gathers
<1>6. f' = f
  BY <1>1
<1> QED
  BY <1>4, <1>5, <1>6 DEF Gathers

(* The invariant survives a process that goes on, or ends, as it may.      *)
LEMMA PromiseStep ==
  ASSUME FrameInv, PromiseInv, NEW p \in Procs, NEW m, NEW rest, NEW ops, NEW r, NEW kids,
         Unwinds(p, m, rest, ops, r, kids), work[p] # <<>>,
         \/ \A G : Works(p, G) => Fits(scenario, work'[p], res'[p], G)
         \/ p \in doomed /\ work'[p] = <<>>,
         \A k \in kids : \E i \in 1 .. m : Do(work[p][i]) = "join" /\ k \in Arg(work[p][i]),
         \A i \in DOMAIN ops : Do(ops[i]) = "join" =>
            /\ Gathers(ops[i])
            /\ kids = {}
            /\ \E j \in 1 .. m : Do(work[p][j]) = "join" /\ Arg(ops[i]) \subseteq Arg(work[p][j]),
         \A i, j \in DOMAIN ops : Do(ops[i]) = "join" /\ Do(ops[j]) = "join" => i = j
  PROVE  PromiseInv'
<1>1. /\ UNCHANGED scenario
      /\ doomed' = {q \in doomed \cup kids : work'[q] # <<>>}
      /\ res' = [res EXCEPT ![p] = r]
      /\ \A q \in Procs : q # p => work'[q] = work[q] /\ res'[q] = res[q]
  BY NewStack DEF FrameInv, Results, Unwinds, Leaves, Doom
<1>2. /\ \A q \in Procs : IsSeq(work[q]) /\ Len(work[q]) \in Nat /\ DOMAIN work[q] = 1 .. Len(work[q])
      /\ m \in 0 .. Len(work[p])
  BY SeqShape DEF FrameInv, Stacks, Unwinds, Cut
<1>3. ASSUME NEW k \in Procs, k \notin doomed \/ work'[k] # <<>>, NEW G, Works(k, G)
      PROVE  Fits(scenario, work'[k], res'[k], G)
  BY <1>1, <1>3 DEF Works
<1>4. ASSUME NEW q \in Procs, NEW l \in DOMAIN work'[q]
      PROVE  \/ q = p /\ l \in DOMAIN ops /\ work'[q][l] = ops[l]
             \/ \E j \in DOMAIN work[q] :
                  /\ j + Len(work'[q]) = l + Len(work[q]) /\ work'[q][l] = work[q][j]
                  /\ q = p => j > m
  <2>1. CASE q = p
    BY <1>4, <2>1, StepsComeFrom DEF FrameInv
  <2>2. CASE q # p
    BY <1>1, <1>2, <1>4, <2>2
  <2> QED
    BY <2>1, <2>2
<1>5. \A q, o \in Procs : \A i \in DOMAIN work[q], j \in DOMAIN work[o] : \A k :
        /\ Do(work[q][i]) = "join" /\ Do(work[o][j]) = "join"
        /\ k \in Arg(work[q][i]) /\ k \in Arg(work[o][j])
        => q = o /\ i = j
  BY DEF PromiseInv
<1>6. ASSUME NEW q \in Procs, NEW j \in DOMAIN work[q], Do(work[q][j]) = "join", q = p => j > m,
             NEW k \in Arg(work[q][j])
      PROVE  k \notin doomed' /\ k \in Procs \ doomed
  <2>1. k \in Procs \ doomed
    BY <1>6 DEF PromiseInv, Gathers
  <2>2. k \notin kids
    <3>1. SUFFICES ASSUME k \in kids PROVE FALSE
      OBVIOUS
    <3>2. PICK i \in 1 .. m : Do(work[p][i]) = "join" /\ k \in Arg(work[p][i])
      BY <3>1
    <3>3. i \in DOMAIN work[p]
      BY <1>2
    <3>4. q = p /\ i = j
      BY <1>5, <1>6, <3>2, <3>3
    <3> QED
      BY <1>2, <1>6, <3>4
  <2> QED
    BY <1>1, <2>1, <2>2
<1>7. ASSUME NEW q \in Procs, NEW l \in DOMAIN work'[q], Do(work'[q][l]) = "join"
      PROVE  Gathers(work[q][l])'
  <2>1. PICK op : op = work'[q][l]
    OBVIOUS
  <2>2. Gathers(op) /\ \A k \in Arg(op) : k \in Procs \ doomed /\ k \notin doomed'
    <3>1. CASE q = p /\ l \in DOMAIN ops /\ work'[q][l] = ops[l]
      <4>1. Gathers(op) /\ kids = {}
        BY <1>7, <2>1, <3>1
      <4> QED
        BY <1>1, <4>1 DEF Gathers
    <3>2. ASSUME NEW j \in DOMAIN work[q], work'[q][l] = work[q][j], q = p => j > m
          PROVE  Gathers(op) /\ \A k \in Arg(op) : k \in Procs \ doomed /\ k \notin doomed'
      BY <1>6, <1>7, <2>1, <3>2 DEF PromiseInv
    <3> QED
      BY <1>4, <3>1, <3>2
  <2>3. \A k \in Arg(op) : \A G : Works(k, G) => Fits(scenario, work'[k], res'[k], G)
    BY <1>3, <2>2
  <2>4. Gathers(op)'
    BY <1>1, <2>2, <2>3, GathersStay
  <2> QED
    BY <2>1, <2>4 DEF Gathers
<1>8. ASSUME NEW q \in Procs, NEW o \in Procs,
             NEW i \in DOMAIN work'[q], NEW j \in DOMAIN work'[o],
             Do(work'[q][i]) = "join", Do(work'[o][j]) = "join",
             NEW k \in Arg(work'[q][i]) \cap Arg(work'[o][j])
      PROVE  q = o /\ i = j
  <2> DEFINE New(x, l) == x = p /\ l \in DOMAIN ops /\ work'[x][l] = ops[l]
             Old(x, l, h) ==
               /\ h \in DOMAIN work[x]
               /\ h + Len(work'[x]) = l + Len(work[x]) /\ work'[x][l] = work[x][h]
               /\ x = p => h > m
  <2>1. ASSUME NEW x \in Procs, NEW l, New(x, l), Do(work'[x][l]) = "join", k \in Arg(work'[x][l])
        PROVE  \E h \in DOMAIN work[p] : h <= m /\ Do(work[p][h]) = "join" /\ k \in Arg(work[p][h])
    <3>1. PICK h \in 1 .. m : Do(work[p][h]) = "join" /\ Arg(ops[l]) \subseteq Arg(work[p][h])
      BY <2>1
    <3>2. h \in DOMAIN work[p] /\ h <= m
      BY <1>2
    <3> QED
      BY <2>1, <3>1, <3>2
  <2>2. ASSUME NEW x \in Procs, NEW l, New(x, l), Do(work'[x][l]) = "join", k \in Arg(work'[x][l]),
               NEW y \in Procs, NEW d, NEW h, Old(y, d, h), Do(work'[y][d]) = "join",
               k \in Arg(work'[y][d])
        PROVE  FALSE
    <3>1. PICK g \in DOMAIN work[p] : g <= m /\ Do(work[p][g]) = "join" /\ k \in Arg(work[p][g])
      BY <2>1, <2>2
    <3>2. h \in DOMAIN work[y] /\ Do(work[y][h]) = "join" /\ k \in Arg(work[y][h]) /\ (y = p => h > m)
      BY <2>2
    <3>4. y = p /\ g = h
      BY <1>5, <3>1, <3>2
    <3> QED
      BY <1>2, <3>1, <3>2, <3>4
  <2>3. CASE New(q, i) /\ New(o, j)
    BY <1>8, <2>3
  <2>4. CASE New(q, i) /\ \E h : Old(o, j, h)
    BY <1>8, <2>2, <2>4
  <2>5. CASE New(o, j) /\ \E h : Old(q, i, h)
    BY <1>8, <2>2, <2>5
  <2>6. ASSUME NEW g, NEW h, Old(q, i, g), Old(o, j, h) PROVE q = o /\ i = j
    <3>4. /\ g \in DOMAIN work[q] /\ Do(work[q][g]) = "join" /\ k \in Arg(work[q][g])
          /\ h \in DOMAIN work[o] /\ Do(work[o][h]) = "join" /\ k \in Arg(work[o][h])
      BY <1>8, <2>6
    <3>1. q = o /\ g = h
      BY <1>5, <3>4
    <3>2. Len(work[q]) \in Nat /\ i \in Nat /\ j \in Nat /\ IsSeq(work'[q])
      <4>1. IsSeq(work'[q])
        BY <1>1, <1>2, NewStack DEF FrameInv
      <4> QED
        BY <1>2, <1>8, <3>1, <4>1, SeqShape
    <3>3. i + Len(work[q]) = j + Len(work[q])
      BY <2>6, <3>1
    <3> QED
      BY <3>1, <3>2, <3>3
  <2>7. New(q, i) \/ \E h : Old(q, i, h)
    BY <1>4
  <2>8. New(o, j) \/ \E h : Old(o, j, h)
    BY <1>4
  <2> QED
    BY <2>3, <2>4, <2>5, <2>6, <2>7, <2>8
<1>9. ASSUME NEW q \in Procs, work'[q] # <<>> PROVE Works(q, Values \cup {"panic"})'
  <2>1. work[q] # <<>>
    BY <1>1, <1>9
  <2>2. Works(q, Values \cup {"panic"})
    BY <2>1 DEF PromiseInv
  <2>3. Values' = Values
    BY DEF Values
  <2> QED
    BY <1>1, <1>3, <1>9, <2>2, <2>3 DEF Works
<1>10. doomed' \subseteq {q \in Procs : work'[q] # <<>>}
  <2>1. ASSUME NEW k \in kids PROVE k \in Procs
    <3>1. PICK i \in 1 .. m : Do(work[p][i]) = "join" /\ k \in Arg(work[p][i])
      BY <2>1
    <3>2. i \in DOMAIN work[p]
      BY <1>2, <3>1
    <3> QED
      BY <3>1, <3>2 DEF PromiseInv, Gathers
  <2> QED
    BY <1>1, <2>1 DEF PromiseInv
<1>11. \A q \in Procs : work'[q] # <<>> => Works(q, Values \cup {"panic"})'
  BY <1>9
<1>12. \A q \in Procs : \A i \in DOMAIN work'[q] : Do(work'[q][i]) = "join" => Gathers(work[q][i])'
  BY <1>7
<1>13. \A q, o \in Procs : \A i \in DOMAIN work'[q], j \in DOMAIN work'[o] :
         /\ Do(work'[q][i]) = "join" /\ Do(work'[o][j]) = "join"
         /\ Arg(work'[q][i]) \cap Arg(work'[o][j]) # {}
         => q = o /\ i = j
  BY <1>8
<1> QED
  BY <1>10, <1>11, <1>12, <1>13 DEF PromiseInv

(* A process that goes on from its first step has cut off that step alone. *)
LEMMA HeadUnwinds ==
  ASSUME FrameInv, FrameInv', NEW p \in Procs, work[p] # <<>>, NEW ops, IsSeq(ops), NEW r, NEW kids,
         Leaves(p, ops \o Tail(work[p]), r, kids), Covers(kids \cup JoinedIn(ops), p, 1)
  PROVE  Unwinds(p, 1, Tail(work[p]), ops, r, kids) /\ 1 \in 1 .. Len(work[p])
<1>1. PICK rest : rest = Tail(work[p])
  OBVIOUS
<1>2. IsSeq(work[p]) /\ Len(work[p]) \in Nat /\ Len(work[p]) # 0 /\ IsSeq(rest)
  BY <1>1, SeqShape, SeqTail DEF FrameInv, Stacks
<1>3. /\ UNCHANGED scenario /\ work'[p] = ops \o rest /\ res'[p] = r
  BY <1>1 DEF FrameInv, Stacks, Results, Leaves
<1>4. Cut(p, 1, rest)
  BY <1>1, <1>2, SeqTail DEF Cut
<1>5. AllKnown(ops)
  <2>1. ASSUME NEW i \in DOMAIN ops PROVE Known(ops[i])
    <3>1. i \in DOMAIN (ops \o rest) /\ (ops \o rest)[i] = ops[i]
      <4>1. /\ DOMAIN ops = 1 .. Len(ops) /\ DOMAIN (ops \o rest) = 1 .. Len(ops \o rest)
            /\ Len(ops \o rest) = Len(ops) + Len(rest) /\ Len(ops) \in Nat /\ Len(rest) \in Nat
        BY <1>2, SeqConcat, SeqShape
      <4> QED
        BY <1>2, <4>1, SeqConcat
    <3>2. (\A q \in Procs : \A j \in DOMAIN work[q] : Known(work[q][j]))'
      BY DEF FrameInv, Stacks
    <3> QED
      BY <1>3, <3>1, <3>2 DEF Known, Frames
  <2> QED
    BY <2>1 DEF AllKnown
<1>6. ops \o rest = <<>> \/ r \in Values
  BY <1>3 DEF FrameInv, Results, Values
<1> QED
  BY <1>1, <1>2, <1>4, <1>5, <1>6 DEF Unwinds

\* Steps that join nobody and risk no more than op.
TameStep(s, op, a) == Do(a) # "join" /\ (Risky(s, a) => Risky(s, op))
Tame(s, op, ops) == IsSeq(ops) /\ \A i \in DOMAIN ops : TameStep(s, op, ops[i])

\* What goes on from op with r and ops loses nothing that op has promised.
Honours(s, op, in, ops, r) ==
    /\ Tame(s, op, ops)
    /\ \A out \in SUBSET Values : Carries(s, op, in, out) => Chain(s, ops, {r}, out)

(* The invariant, for a process that goes on from its first step.          *)
LEMMA ProceedKeeps ==
  ASSUME FrameInv, FrameInv', PromiseInv, NEW p \in Procs, work[p] # <<>>,
         Do(work[p][1]) # "join", NEW ops, NEW r, Proceeds(p, ops, r),
         Honours(scenario, work[p][1], {res[p]}, ops, r)
  PROVE  PromiseInv'
<1>1. PICK rest : rest = Tail(work[p])
  OBVIOUS
<1>2. IsSeq(ops) /\ Leaves(p, ops \o rest, r, {})
  BY <1>1 DEF Honours, Tame, Proceeds
<1>3. Covers({} \cup JoinedIn(ops), p, 1)
  BY DEF Covers
<1>4. Unwinds(p, 1, rest, ops, r, {}) /\ 1 \in 1 .. Len(work[p])
  BY <1>1, <1>2, <1>3, HeadUnwinds
<1>5. Replaces(scenario, work[p][1], {res[p]}, ops, r)
  BY DEF Honours, Tame, TameStep, Replaces
<1>6. ASSUME NEW G, Works(p, G) PROVE Fits(scenario, work'[p], res'[p], G)
  BY <1>4, <1>5, <1>6, WorksOn DEF FrameInv
<1>7. \A i \in DOMAIN ops : Do(ops[i]) # "join"
  BY DEF Honours, Tame, TameStep
<1> QED
  BY <1>4, <1>6, <1>7, PromiseStep

(* The invariant, for a process that panics where it may or is dropped.    *)
LEMMA VanishKeeps ==
  ASSUME FrameInv, PromiseInv, NEW p \in Procs, work[p] # <<>>,
         NEW r, Leaves(p, <<>>, r, LiveKids(work[p])),
         p \in doomed \/ (r = "panic" /\ Risky(scenario, work[p][1]))
  PROVE  PromiseInv'
<1>1. IsSeq(work[p]) /\ Len(work[p]) \in Nat /\ Len(work[p]) # 0 /\ DOMAIN work[p] = 1 .. Len(work[p])
  BY SeqShape DEF FrameInv, Stacks
<1>2. Cut(p, Len(work[p]), <<>>)
  BY <1>1, SeqEmpty DEF Cut
<1>3. Covers(LiveKids(work[p]) \cup JoinedIn(<<>>), p, Len(work[p]))
  BY <1>1, JoinedHere DEF Covers, LiveKids
<1>4. AllKnown(<<>>) /\ <<>> \o <<>> = <<>> /\ DOMAIN <<>> = {}
  BY SeqEmpty DEF AllKnown
<1>5. Unwinds(p, Len(work[p]), <<>>, <<>>, r, LiveKids(work[p]))
  BY <1>2, <1>3, <1>4 DEF Unwinds
<1>6. work'[p] = <<>> /\ res'[p] = r
  BY DEF Leaves, FrameInv, Stacks, Results
<1>7. ASSUME p \notin doomed, NEW G, Works(p, G) PROVE Fits(scenario, work'[p], res'[p], G)
  <2>1. 1 \in DOMAIN work[p]
    BY <1>1
  <2>2. r \in G
    BY <1>7, <2>1 DEF Works, Fits
  <2> QED
    BY <1>4, <1>6, <2>2 DEF Fits
<1>8. ASSUME NEW k \in LiveKids(work[p])
      PROVE  \E i \in 1 .. Len(work[p]) : Do(work[p][i]) = "join" /\ k \in Arg(work[p][i])
  BY <1>1, <1>8, JoinedHere DEF LiveKids
<1> QED
  BY <1>4, <1>5, <1>6, <1>7, <1>8, PromiseStep

-----------------------------------------------------------------------------
(***************************************************************************)
(* New steps.                                                              *)
(***************************************************************************)
(* Stretches of steps that risk nothing new.                               *)
LEMMA TameLiteral ==
  ASSUME NEW s, NEW op
  PROVE  /\ Tame(s, op, <<>>)
         /\ \A a : TameStep(s, op, a) => Tame(s, op, <<a>>)
         /\ \A a, b : TameStep(s, op, a) /\ TameStep(s, op, b) => Tame(s, op, <<a, b>>)
         /\ \A a, b, c : TameStep(s, op, a) /\ TameStep(s, op, b) /\ TameStep(s, op, c)
                           => Tame(s, op, <<a, b, c>>)
         /\ \A a, b, c, d :
              TameStep(s, op, a) /\ TameStep(s, op, b) /\ TameStep(s, op, c) /\ TameStep(s, op, d)
                => Tame(s, op, <<a, b, c, d>>)
<1>1. Tame(s, op, <<>>)
  BY SeqEmpty DEF Tame
<1>2. ASSUME NEW a, TameStep(s, op, a) PROVE Tame(s, op, <<a>>)
  <2>1. \A i \in DOMAIN <<a>> : <<a>>[i] \in {a}
    OBVIOUS
  <2> QED
    BY <1>2, <2>1, SeqLiteral DEF Tame
<1>3. ASSUME NEW a, NEW b, TameStep(s, op, a), TameStep(s, op, b) PROVE Tame(s, op, <<a, b>>)
  <2>1. \A i \in DOMAIN <<a, b>> : <<a, b>>[i] \in {a, b}
    OBVIOUS
  <2> QED
    BY <1>3, <2>1, SeqLiteral DEF Tame
<1>4. ASSUME NEW a, NEW b, NEW c, TameStep(s, op, a), TameStep(s, op, b), TameStep(s, op, c)
      PROVE  Tame(s, op, <<a, b, c>>)
  <2>1. \A i \in DOMAIN <<a, b, c>> : <<a, b, c>>[i] \in {a, b, c}
    OBVIOUS
  <2> QED
    BY <1>4, <2>1, SeqLiteral DEF Tame
<1>5. ASSUME NEW a, NEW b, NEW c, NEW d, TameStep(s, op, a), TameStep(s, op, b),
             TameStep(s, op, c), TameStep(s, op, d)
      PROVE  Tame(s, op, <<a, b, c, d>>)
  <2>1. \A i \in DOMAIN <<a, b, c, d>> : <<a, b, c, d>>[i] \in {a, b, c, d}
    OBVIOUS
  <2> QED
    BY <1>5, <2>1, SeqLiteral DEF Tame
<1> QED
  BY <1>1, <1>2, <1>3, <1>4, <1>5

(* One such stretch after the other.                                       *)
LEMMA TameConcat ==
  ASSUME NEW s, NEW op, NEW f, NEW g, Tame(s, op, f), Tame(s, op, g)
  PROVE  Tame(s, op, f \o g)
<1>1. /\ IsSeq(f) /\ IsSeq(g) /\ IsSeq(f \o g)
      /\ Len(f) \in Nat /\ Len(g) \in Nat /\ Len(f \o g) = Len(f) + Len(g)
      /\ DOMAIN f = 1 .. Len(f) /\ DOMAIN g = 1 .. Len(g)
      /\ DOMAIN (f \o g) = 1 .. Len(f \o g)
  BY SeqConcat, SeqShape DEF Tame
<1>2. ASSUME NEW i \in DOMAIN (f \o g) PROVE TameStep(s, op, (f \o g)[i])
  <2>1. CASE i <= Len(f)
    <3>1. i \in 1 .. Len(f)
      BY <1>1, <1>2, <2>1
    <3> QED
      BY <1>1, <3>1, SeqConcat DEF Tame
  <2>2. CASE i > Len(f)
    <3>1. PICK j \in 1 .. Len(g) : i = j + Len(f)
      <4>1. i - Len(f) \in 1 .. Len(g) /\ i = (i - Len(f)) + Len(f)
        BY <1>1, <1>2, <2>2
      <4> QED
        BY <4>1
    <3>2. (f \o g)[i] = g[j]
      BY <1>1, <3>1, SeqConcat
    <3> QED
      BY <1>1, <3>2 DEF Tame
  <2> QED
    BY <1>1, <2>1, <2>2
<1> QED
  BY <1>1, <1>2 DEF Tame

(* A chain depends on the steps alone.                                     *)
LEMMA ChainSame ==
  ASSUME NEW s, NEW f, NEW g, NEW in, NEW out, Chain(s, f, in, out),
         Len(g) = Len(f), \A i \in 1 .. Len(f) : g[i] = f[i]
  PROVE  Chain(s, g, in, out)
  BY DEF Chain

(* Short chains.                                                           *)
LEMMA ChainLiteral ==
  ASSUME NEW s, NEW V \in SUBSET Values, NEW W \in SUBSET Values, NEW X \in SUBSET Values,
         NEW Y \in SUBSET Values, NEW Z \in SUBSET Values
  PROVE  /\ \A a, b : Carries(s, a, V, W) /\ Carries(s, b, W, X) => Chain(s, <<a, b>>, V, X)
         /\ \A a, b, c : Carries(s, a, V, W) /\ Carries(s, b, W, X) /\ Carries(s, c, X, Y)
              => Chain(s, <<a, b, c>>, V, Y)
         /\ \A a, b, c, d :
              /\ Carries(s, a, V, W) /\ Carries(s, b, W, X)
              /\ Carries(s, c, X, Y) /\ Carries(s, d, Y, Z)
              => Chain(s, <<a, b, c, d>>, V, Z)
<1>1. ASSUME NEW a, NEW b, Carries(s, a, V, W), Carries(s, b, W, X) PROVE Chain(s, <<a, b>>, V, X)
  <2>1. Chain(s, <<a>>, V, W) /\ Chain(s, <<b>>, W, X)
    BY <1>1, ChainStep
  <2>2. IsSeq(<<a>>) /\ IsSeq(<<b>>)
    BY SeqLiteral
  <2>4. /\ Len(<<a, b>>) = Len(<<a>> \o <<b>>)
        /\ \A i \in 1 .. Len(<<a>> \o <<b>>) : <<a, b>>[i] = (<<a>> \o <<b>>)[i]
    <3>1. <<a>> \in Seq({a, b}) /\ <<b>> \in Seq({a, b})
      OBVIOUS
    <3> QED
      BY <3>1
  <2>3. Chain(s, <<a>> \o <<b>>, V, X)
    BY <2>1, <2>2, ChainConcat
  <2> QED
    BY <2>3, <2>4, ChainSame
<1>2. ASSUME NEW a, NEW b, NEW c, Carries(s, a, V, W), Carries(s, b, W, X), Carries(s, c, X, Y)
      PROVE  Chain(s, <<a, b, c>>, V, Y)
  <2>1. Chain(s, <<a, b>>, V, X) /\ Chain(s, <<c>>, X, Y)
    BY <1>1, <1>2, ChainStep
  <2>2. IsSeq(<<a, b>>) /\ IsSeq(<<c>>)
    BY SeqLiteral
  <2>4. /\ Len(<<a, b, c>>) = Len(<<a, b>> \o <<c>>)
        /\ \A i \in 1 .. Len(<<a, b>> \o <<c>>) : <<a, b, c>>[i] = (<<a, b>> \o <<c>>)[i]
    <3>1. <<a, b>> \in Seq({a, b, c}) /\ <<c>> \in Seq({a, b, c})
      OBVIOUS
    <3> QED
      BY <3>1
  <2>3. Chain(s, <<a, b>> \o <<c>>, V, Y)
    BY <2>1, <2>2, ChainConcat
  <2> QED
    BY <2>3, <2>4, ChainSame
<1>3. ASSUME NEW a, NEW b, NEW c, NEW d,
             Carries(s, a, V, W), Carries(s, b, W, X), Carries(s, c, X, Y), Carries(s, d, Y, Z)
      PROVE  Chain(s, <<a, b, c, d>>, V, Z)
  <2>1. Chain(s, <<a, b, c>>, V, Y) /\ Chain(s, <<d>>, Y, Z)
    BY <1>2, <1>3, ChainStep
  <2>2. IsSeq(<<a, b, c>>) /\ IsSeq(<<d>>)
    BY SeqLiteral
  <2>4. /\ Len(<<a, b, c, d>>) = Len(<<a, b, c>> \o <<d>>)
        /\ \A i \in 1 .. Len(<<a, b, c>> \o <<d>>) : <<a, b, c, d>>[i] = (<<a, b, c>> \o <<d>>)[i]
    <3>1. <<a, b, c>> \in Seq({a, b, c, d}) /\ <<d>> \in Seq({a, b, c, d})
      OBVIOUS
    <3> QED
      BY <3>1
  <2>3. Chain(s, <<a, b, c>> \o <<d>>, V, Z)
    BY <2>1, <2>2, ChainConcat
  <2> QED
    BY <2>3, <2>4, ChainSame
<1> QED
  BY <1>1, <1>2, <1>3

(* What the new steps of the actions hand on.                              *)
LEMMA CarriesOp ==
  ASSUME NEW s, NEW on, NEW arg, NEW in, NEW out
  PROVE  /\ \A do \in {"deliver", "store", "sleep", "counts"} :
              in \subseteq out => Carries(s, Op(do, on, arg), in, out)
         /\ arg # OnTaskEnd /\ in \subseteq out => Carries(s, Op("emit", on, arg), in, out)
         /\ \A do \in {"exec", "attempt", "resolve"} :
              Returned(s, on) \subseteq out => Carries(s, Op(do, on, arg), in, out)
         /\ Returned(s, on) \subseteq out /\ in \subseteq out
              => Carries(s, Op("attempted", on, arg), in, out)
         /\ in \subseteq out /\ "err" \in out => Carries(s, Op("timed", on, arg), in, out)
         /\ \A do \in {"eval", "negate"} :
              {"true", "false"} \subseteq out => Carries(s, Op(do, on, arg), in, out)
         /\ \A do \in {"and", "or"} :
              {"true", "false"} \subseteq out /\ in \subseteq out
                => Carries(s, Op(do, on, arg), in, out)
         /\ in = {} \/ s.frames[on].outs \cap Values \subseteq out
              => Carries(s, Op("leaf", on, arg), in, out)
         /\ Returned(s, on) \subseteq out /\ PassedUntil(s, s.frames[on], arg)
              => Carries(s, Op("next", on, arg), in, out)
         /\ /\ Returned(s, on) \subseteq out /\ PassedUntil(s, s.frames[on], arg)
            /\ arg \in DOMAIN s.frames[on].kids
            /\ in \subseteq PromisedBy(s)[s.frames[on].kids[arg]]
            => Carries(s, Op("quit", on, arg), in, out)
         /\ Returned(s, on) \subseteq out /\ s.frames[on].kind = "parallel"
              => Carries(s, Op("join", on, arg), in, out)
<1>1. \A do : /\ Do(Op(do, on, arg)) = do /\ On(Op(do, on, arg)) = on
              /\ Arg(Op(do, on, arg)) = arg
  BY DEF Op, Do, On, Arg
<1> HIDE DEF Op, Do, On, Arg
<1>2. ASSUME NEW do \in {"deliver", "store", "sleep", "counts"}, in \subseteq out
      PROVE  Carries(s, Op(do, on, arg), in, out)
  BY <1>1, <1>2 DEF Carries, HandsOn, Passive, ReturnsOwn
<1>3. ASSUME arg # OnTaskEnd, in \subseteq out PROVE Carries(s, Op("emit", on, arg), in, out)
  BY <1>1, <1>3 DEF Carries, HandsOn, Passive, ReturnsOwn
<1>4. ASSUME NEW do \in {"exec", "attempt", "resolve"}, Returned(s, on) \subseteq out
      PROVE  Carries(s, Op(do, on, arg), in, out)
  BY <1>1, <1>4 DEF Carries, HandsOn, Passive, ReturnsOwn
<1>5. ASSUME Returned(s, on) \subseteq out, in \subseteq out
      PROVE  Carries(s, Op("attempted", on, arg), in, out)
  BY <1>1, <1>5 DEF Carries, HandsOn, Passive, ReturnsOwn
<1>6. ASSUME in \subseteq out, "err" \in out PROVE Carries(s, Op("timed", on, arg), in, out)
  BY <1>1, <1>6 DEF Carries, HandsOn, Passive, ReturnsOwn
<1>7. ASSUME NEW do \in {"eval", "negate"}, {"true", "false"} \subseteq out
      PROVE  Carries(s, Op(do, on, arg), in, out)
  BY <1>1, <1>7 DEF Carries, HandsOn, Passive, ReturnsOwn
<1>8. ASSUME NEW do \in {"and", "or"}, {"true", "false"} \subseteq out, in \subseteq out
      PROVE  Carries(s, Op(do, on, arg), in, out)
  BY <1>1, <1>8 DEF Carries, HandsOn, Passive, ReturnsOwn
<1>9. ASSUME in = {} \/ s.frames[on].outs \cap Values \subseteq out
      PROVE  Carries(s, Op("leaf", on, arg), in, out)
  BY <1>1, <1>9 DEF Carries, HandsOn, Passive, ReturnsOwn
<1>10. ASSUME Returned(s, on) \subseteq out, PassedUntil(s, s.frames[on], arg)
       PROVE  Carries(s, Op("next", on, arg), in, out)
  BY <1>1, <1>10 DEF Carries, HandsOn, Passive, ReturnsOwn
<1>11. ASSUME Returned(s, on) \subseteq out, PassedUntil(s, s.frames[on], arg),
              arg \in DOMAIN s.frames[on].kids,
              in \subseteq PromisedBy(s)[s.frames[on].kids[arg]]
       PROVE  Carries(s, Op("quit", on, arg), in, out)
  BY <1>1, <1>11 DEF Carries, HandsOn, Passive, ReturnsOwn
<1>12. ASSUME Returned(s, on) \subseteq out, s.frames[on].kind = "parallel"
       PROVE  Carries(s, Op("join", on, arg), in, out)
  BY <1>1, <1>12 DEF Carries, HandsOn, Passive, ReturnsOwn
<1> QED
  BY <1>2, <1>3, <1>4, <1>5, <1>6, <1>7, <1>8, <1>9, <1>10, <1>11, <1>12

(* The step that waits for the first child of a fallback.                  *)
LEMMA CarriesRecover ==
  ASSUME NEW s, NEW on, NEW arg, NEW in, NEW out,
         in \subseteq PromisedBy(s)[s.frames[on].kids[1]], in \cap {"ok"} \subseteq out,
         in \subseteq {"ok"} \/ Returned(s, s.frames[on].kids[2]) \subseteq out
  PROVE  Carries(s, Op("recover", on, arg), in, out)
<1>1. \A do : /\ Do(Op(do, on, arg)) = do /\ On(Op(do, on, arg)) = on
              /\ Arg(Op(do, on, arg)) = arg
  BY DEF Op, Do, On, Arg
<1> HIDE DEF Op, Do, On, Arg
<1> QED
  BY <1>1 DEF Carries, HandsOn, Passive, ReturnsOwn

(* Emissions other than that of the end of a run.                          *)
LEMMA EmitCarries ==
  ASSUME NEW s, NEW event, event # OnTaskEnd, NEW task, NEW in, NEW out, in \subseteq out
  PROVE  Carries(s, EmitOp(event, task), in, out)
  BY CarriesOp DEF EmitOp

(* What new steps risk.                                                    *)
LEMMA TameOp ==
  ASSUME NEW s, NEW op, NEW do, NEW on, NEW arg, do # "join"
  PROVE  /\ do \notin FrameSteps \cup {"instruct", "run"} => TameStep(s, op, Op(do, on, arg))
         /\ do \in FrameSteps /\ ("panic" \in PromisedBy(s)[on] => Risky(s, op))
              => TameStep(s, op, Op(do, on, arg))
<1>1. Do(Op(do, on, arg)) = do /\ On(Op(do, on, arg)) = on
  BY DEF Op, Do, On
<1> HIDE DEF Op, Do, On, Arg
<1>2. "run" \notin FrameSteps /\ "instruct" \notin FrameSteps
  BY DEF FrameSteps
<1> QED
  BY <1>1, <1>2 DEF TameStep, Risky

(***************************************************************************)
(* The promises of a workflow are well defined.                            *)
(***************************************************************************)
Ends == Outcomes \cup {"panic"}

(* A frame's promise depends on those of its children only.                *)
LEMMA PromiseIsLocal ==
  ASSUME NEW s, NEW f, ProperFrame(s, f), NEW g, NEW h,
         \A i \in DOMAIN f.kids : g[f.kids[i]] = h[f.kids[i]]
  PROVE  PromiseOf(f, g) = PromiseOf(f, h)
<1>1. f.kids \in Seq(DOMAIN s.frames) /\ f.kind \in Kinds
  BY DEF ProperFrame
<1>2. ASSUME f.kind = "fallback" PROVE 1 \in DOMAIN f.kids /\ 2 \in DOMAIN f.kids
  BY <1>1, <1>2 DEF ProperFrame
<1> DEFINE all(of) == UNION {of[f.kids[i]] : i \in DOMAIN f.kids}
           passed(of) == \A i \in DOMAIN f.kids : of[f.kids[i]] \cap Passes(f.kind) # {}
<1>3. all(g) = all(h) /\ (passed(g) <=> passed(h))
  OBVIOUS
<1>4. CASE f.kind \in {"noop", "leaf"}
  BY <1>4 DEF PromiseOf
<1>5. CASE f.kind = "fallback"
  BY <1>2, <1>5 DEF PromiseOf
<1>6. CASE f.kind \in {"sequential", "parallel"}
  <2>1. CASE f.policy # "QuitOnFailure"
    BY <1>3, <1>6, <2>1 DEF PromiseOf
  <2>2. CASE f.policy = "QuitOnFailure"
    BY <1>3, <1>6, <2>2 DEF PromiseOf
  <2> QED
    BY <2>1, <2>2
<1>7. CASE f.kind \in {"delay", "condition", "retry", "timeout", "threshold", "dependency",
                       "selection"}
  BY <1>3, <1>7 DEF PromiseOf
<1> QED
  BY <1>1, <1>4, <1>5, <1>6, <1>7 DEF Kinds

(* A frame promises ends of a run if its children do.                      *)
LEMMA PromiseType ==
  ASSUME NEW s, NEW f, ProperFrame(s, f), NEW h,
         \A i \in DOMAIN f.kids : h[f.kids[i]] \subseteq Ends
  PROVE  PromiseOf(f, h) \subseteq Ends
<1>1. f.kids \in Seq(DOMAIN s.frames) /\ f.kind \in Kinds
  BY DEF ProperFrame
<1>2. ASSUME f.kind = "fallback" PROVE 1 \in DOMAIN f.kids /\ 2 \in DOMAIN f.kids
  BY <1>1, <1>2 DEF ProperFrame
<1> DEFINE all == UNION {h[f.kids[i]] : i \in DOMAIN f.kids}
<1>3. all \subseteq Ends /\ "ok" \in Ends /\ "err" \in Ends /\ "panic" \in Ends
  BY DEF Ends, Outcomes
<1>4. CASE f.kind = "noop"
  BY <1>3, <1>4 DEF PromiseOf
<1>5. CASE f.kind = "leaf"
  <2>1. f.outs \subseteq Ends
    BY <1>5 DEF ProperFrame, Ends
  <2> QED
    BY <1>3, <1>5, <2>1 DEF PromiseOf
<1>6. CASE f.kind = "fallback"
  BY <1>2, <1>6 DEF PromiseOf
<1>7. CASE f.kind \in {"sequential", "parallel"}
  <2>1. CASE f.policy # "QuitOnFailure"
    BY <1>3, <1>7, <2>1 DEF PromiseOf
  <2>2. CASE f.policy = "QuitOnFailure"
    BY <1>3, <1>7, <2>2 DEF PromiseOf
  <2> QED
    BY <2>1, <2>2
<1>8. CASE f.kind \in {"delay", "condition", "retry", "timeout", "selection"}
  BY <1>3, <1>8 DEF PromiseOf
<1>9. CASE f.kind = "threshold"
  <2>1. f.reach \in Ends
    BY <1>9 DEF ProperFrame, Ends
  <2> QED
    BY <1>3, <1>9, <2>1 DEF PromiseOf
<1>10. CASE f.kind = "dependency"
  <2>1. f.unresolve \in Ends
    BY <1>10 DEF ProperFrame, Ends
  <2> QED
    BY <1>3, <1>10, <2>1 DEF PromiseOf
<1> QED
  BY <1>1, <1>4, <1>5, <1>6, <1>7, <1>8, <1>9, <1>10 DEF Kinds

\* h has the promises of the last m frames of s.
Settles(s, h, m) ==
    /\ DOMAIN h = DOMAIN s.frames
    /\ h = [n \in DOMAIN h |-> h[n]]
    /\ \A n \in DOMAIN s.frames : n + m > Len(s.frames) => h[n] = PromiseOf(s.frames[n], h)

(* As every frame comes before its children, the promises of the last m    *)
(* frames are settled first, for every m.                                  *)
LEMMA PromisesSettle ==
  ASSUME NEW s \in Scenarios
  PROVE  \E h : Settles(s, h, Len(s.frames))
<1> DEFINE frames == s.frames
           size == Len(frames)
           settled == {m \in Nat : m <= size => \E h : Settles(s, h, m)}
<1>1. size \in Nat /\ DOMAIN frames = 1 .. size
  BY ScenarioAssumption, SeqShape
<1>2. 0 \in settled
  <2>1. Settles(s, [n \in DOMAIN frames |-> {}], 0)
    BY <1>1 DEF Settles
  <2> QED
    BY <2>1
<1>3. ASSUME NEW m \in Nat, m \in settled PROVE m + 1 \in settled
  <2> SUFFICES ASSUME m + 1 <= size PROVE \E h : Settles(s, h, m + 1)
    OBVIOUS
  <2>1. PICK g : Settles(s, g, m)
    BY <1>1, <1>3
  <2> DEFINE n0 == size - m
             h == [n \in DOMAIN frames |-> IF n = n0 THEN PromiseOf(frames[n0], g) ELSE g[n]]
  <2>2. n0 \in DOMAIN frames
    BY <1>1
  <2>3. ASSUME NEW n \in DOMAIN frames, n >= n0
        PROVE  PromiseOf(frames[n], h) = PromiseOf(frames[n], g)
    <3>1. ProperFrame(s, frames[n]) /\ frames[n].kids \in Seq(DOMAIN frames)
      BY ScenarioAssumption DEF ProperFrame
    <3>2. ASSUME NEW i \in DOMAIN frames[n].kids
          PROVE  frames[n].kids[i] > n /\ frames[n].kids[i] \in DOMAIN frames
      <4>1. frames[n].kids[i] \in Range(frames[n].kids)
        BY DEF Range
      <4> QED
        BY <3>1, <4>1, ScenarioAssumption
    <3>3. ASSUME NEW i \in DOMAIN frames[n].kids
          PROVE  h[frames[n].kids[i]] = g[frames[n].kids[i]]
      BY <1>1, <2>2, <2>3, <3>2
    <3> HIDE DEF h
    <3> QED
      BY <3>1, <3>3, PromiseIsLocal
  <2>4. ASSUME NEW n \in DOMAIN frames, n + (m + 1) > size
        PROVE  h[n] = PromiseOf(frames[n], h)
    <3>1. CASE n = n0
      <4>1. h[n] = PromiseOf(frames[n0], g)
        BY <2>2, <3>1
      <4> QED
        BY <1>1, <2>3, <3>1, <4>1
    <3>2. CASE n # n0
      <4>1. h[n] = g[n] /\ n + m > size /\ n >= n0
        BY <1>1, <2>4, <3>2
      <4>2. g[n] = PromiseOf(frames[n], g)
        BY <2>1, <4>1 DEF Settles
      <4> QED
        BY <2>3, <4>1, <4>2
    <3> QED
      BY <3>1, <3>2
  <2>5. DOMAIN h = DOMAIN frames /\ h = [n \in DOMAIN h |-> h[n]]
    OBVIOUS
  <2>6. Settles(s, h, m + 1)
    <3> HIDE DEF h
    <3> QED
      BY <2>4, <2>5 DEF Settles
  <2> QED
    BY <2>6
<1>4. size \in settled
  <2> HIDE DEF settled
  <2> QED
    BY <1>1, <1>2, <1>3, InductionOverNat
<1> QED
  BY <1>1, <1>4

(* The promises of a scenario's frames satisfy the equation they are       *)
(* written with and promise nothing but ends of a run.                     *)
LEMMA PromisesDefined ==
  ASSUME NEW s \in Scenarios
  PROVE  \A n \in DOMAIN s.frames :
            /\ PromisedBy(s)[n] = PromiseOf(s.frames[n], PromisedBy(s))
            /\ PromisedBy(s)[n] \subseteq Ends
<1> DEFINE frames == s.frames
           size == Len(frames)
           Solves(h) == h = [n \in DOMAIN frames |-> PromiseOf(frames[n], h)]
           P == PromisedBy(s)
<1>1. size \in Nat /\ DOMAIN frames = 1 .. size
  BY ScenarioAssumption, SeqShape
<1>2. \E h : Solves(h)
  <2>1. PICK h : Settles(s, h, size)
    BY PromisesSettle
  <2>2. \A n \in DOMAIN frames : h[n] = PromiseOf(frames[n], h)
    BY <1>1, <2>1 DEF Settles
  <2>3. DOMAIN h = DOMAIN frames /\ h = [n \in DOMAIN h |-> h[n]]
    BY <2>1 DEF Settles
  <2>4. [n \in DOMAIN h |-> h[n]] = [n \in DOMAIN frames |-> PromiseOf(frames[n], h)]
    BY <2>2, <2>3
  <2>5. Solves(h)
    BY <2>3, <2>4
  <2> QED
    BY <2>5
<1>3. P = CHOOSE h : Solves(h)
  BY DEF PromisedBy
<1>4. Solves(P)
  <2> HIDE DEF Solves, P
  <2> QED
    BY <1>2, <1>3
<1>5. \A n \in DOMAIN frames : P[n] = PromiseOf(frames[n], P)
  <2> HIDE DEF P
  <2> QED
    BY <1>4
<1> HIDE DEF P
<1> DEFINE typed == {m \in Nat : \A n \in DOMAIN frames : n + m > size => P[n] \subseteq Ends}
<1>6. 0 \in typed
  BY <1>1
<1>7. ASSUME NEW m \in Nat, m \in typed PROVE m + 1 \in typed
  <2> SUFFICES ASSUME NEW n \in DOMAIN frames, n + (m + 1) > size PROVE P[n] \subseteq Ends
    OBVIOUS
  <2>1. ProperFrame(s, frames[n]) /\ frames[n].kids \in Seq(DOMAIN frames)
    BY ScenarioAssumption DEF ProperFrame
  <2>2. ASSUME NEW i \in DOMAIN frames[n].kids PROVE P[frames[n].kids[i]] \subseteq Ends
    <3>1. frames[n].kids[i] \in Range(frames[n].kids)
      BY DEF Range
    <3>2. frames[n].kids[i] > n /\ frames[n].kids[i] \in DOMAIN frames
      BY <2>1, <3>1, ScenarioAssumption
    <3> QED
      BY <1>1, <1>7, <3>2
  <2>3. PromiseOf(frames[n], P) \subseteq Ends
    BY <2>1, <2>2, PromiseType
  <2> QED
    BY <1>5, <2>3
<1>8. size \in typed
  <2> HIDE DEF typed
  <2> QED
    BY <1>1, <1>6, <1>7, InductionOverNat
<1>9. \A n \in DOMAIN frames : P[n] \subseteq Ends
  BY <1>1, <1>8
<1> QED
  BY <1>5, <1>9 DEF P

(* What the frames of each kind promise of their children's promises.      *)
LEMMA FramePromise ==
  ASSUME FrameInv, NEW n \in DOMAIN Frames
  PROVE  LET s == scenario
             P == PromisedBy(s)
             f == Frames[n]
         IN /\ f = s.frames[n]
            /\ P[n] \subseteq Outcomes \cup {"panic"}
            /\ f.kind = "noop" => "ok" \in P[n]
            /\ f.kind = "leaf" =>
                 /\ Instructs(f) \/ Runs(f) \/ "panic" \in f.outs => "panic" \in P[n]
                 /\ ~Instructs(f) => f.outs \subseteq P[n]
            /\ f.kind \in {"retry", "delay", "condition", "timeout", "threshold", "dependency",
                           "selection"} =>
                 \A c \in DOMAIN f.kids : P[f.kids[c]] \subseteq P[n]
            /\ f.kind \in {"timeout", "selection"} => "err" \in P[n]
            /\ f.kind = "fallback" =>
                 /\ P[f.kids[1]] \ {"err"} \subseteq P[n]
                 /\ "err" \in P[f.kids[1]] => P[f.kids[2]] \subseteq P[n]
            /\ f.kind = "threshold" => f.reach \in P[n]
            /\ f.kind = "dependency" => f.unresolve \in P[n]
            /\ f.kind = "sequential" =>
                 \A c \in DOMAIN f.kids : "panic" \in P[f.kids[c]] => "panic" \in P[n]
            /\ f.kind \in {"sequential", "parallel"} =>
                 /\ \/ f.policy # "QuitOnFailure"
                    \/ \A c \in DOMAIN f.kids : P[f.kids[c]] \cap Passes(f.kind) # {}
                    => "ok" \in P[n]
                 /\ f.policy = "QuitOnFailure" =>
                      \A c \in DOMAIN f.kids : "err" \in P[f.kids[c]] => "err" \in P[n]
<1> DEFINE s == scenario
           P == PromisedBy(s)
           f == Frames[n]
           all == UNION {P[f.kids[i]] : i \in DOMAIN f.kids}
<1>1. f = s.frames[n] /\ n \in DOMAIN s.frames /\ s \in Scenarios
  BY DEF Frames, FrameInv
<1>2. P[n] = PromiseOf(f, P) /\ P[n] \subseteq Outcomes \cup {"panic"}
  BY <1>1, PromisesDefined DEF Ends
<1>3. \A c \in DOMAIN f.kids : P[f.kids[c]] \subseteq all
  OBVIOUS
<1>4. ASSUME f.kind \in {"timeout", "delay", "retry", "threshold", "dependency", "fallback", "condition"}
      PROVE  1 \in DOMAIN f.kids /\ (f.kind \in {"fallback", "condition"} => 2 \in DOMAIN f.kids)
  BY <1>4, FrameFacts DEF ProperFrame
<1> HIDE DEF s, P, f, all
<1>5. f.kind = "noop" => "ok" \in P[n]
  BY <1>2 DEF PromiseOf
<1>6. ASSUME f.kind = "leaf"
      PROVE  /\ Instructs(f) \/ Runs(f) \/ "panic" \in f.outs => "panic" \in P[n]
             /\ ~Instructs(f) => f.outs \subseteq P[n]
  <2>1. Instructs(f) => P[n] = {"panic"}
    BY <1>2, <1>6 DEF PromiseOf
  <2>2. ~Instructs(f) => P[n] = f.outs \cup (IF Runs(f) THEN {"panic"} ELSE {})
    BY <1>2, <1>6 DEF PromiseOf
  <2> QED
    BY <2>1, <2>2
<1>7. ASSUME f.kind \in {"retry", "delay", "condition"} PROVE P[n] = all
  BY <1>2, <1>7 DEF PromiseOf, all
<1>8. f.kind \in {"timeout", "selection"} => P[n] = all \cup {"err"}
  BY <1>2 DEF PromiseOf, all
<1>9. f.kind = "fallback" =>
        P[n] = (P[f.kids[1]] \ {"err"}) \cup (IF "err" \in P[f.kids[1]] THEN P[f.kids[2]] ELSE {})
  BY <1>2 DEF PromiseOf
<1>10. f.kind = "threshold" => P[n] = all \cup {f.reach}
  BY <1>2 DEF PromiseOf, all
<1>11. f.kind = "dependency" => P[n] = all \cup {f.unresolve}
  BY <1>2 DEF PromiseOf, all
<1>12. f.kind \in {"sequential", "parallel"} /\ f.policy # "QuitOnFailure" =>
         P[n] = {"ok"} \cup (all \ (Passes(f.kind) \cup {"err"}))
  BY <1>2 DEF PromiseOf, all
<1>13. f.kind \in {"sequential", "parallel"} /\ f.policy = "QuitOnFailure" =>
         P[n] = (all \ Passes(f.kind)) \cup
                (IF \A i \in DOMAIN f.kids : P[f.kids[i]] \cap Passes(f.kind) # {}
                 THEN {"ok"} ELSE {})
  BY <1>2 DEF PromiseOf, all
<1>14. "err" \notin Passes(f.kind) /\ (f.kind = "sequential" => "panic" \notin Passes(f.kind))
  BY DEF Passes
<1>15. f.kind \in {"sequential", "parallel"} =>
         /\ \/ f.policy # "QuitOnFailure"
            \/ \A c \in DOMAIN f.kids : P[f.kids[c]] \cap Passes(f.kind) # {}
            => "ok" \in P[n]
         /\ f.policy = "QuitOnFailure" =>
              \A c \in DOMAIN f.kids : "err" \in P[f.kids[c]] => "err" \in P[n]
  <2>1. CASE f.policy # "QuitOnFailure"
    BY <1>12, <2>1
  <2>2. CASE f.policy = "QuitOnFailure"
    BY <1>3, <1>13, <1>14, <2>2
  <2> QED
    BY <2>1, <2>2
<1>16. f.kind = "sequential" =>
         \A c \in DOMAIN f.kids : "panic" \in P[f.kids[c]] => "panic" \in P[n]
  <2>1. CASE f.policy # "QuitOnFailure"
    BY <1>3, <1>12, <1>14, <2>1
  <2>2. CASE f.policy = "QuitOnFailure"
    BY <1>3, <1>13, <1>14, <2>2
  <2> QED
    BY <2>1, <2>2
<1>17. f.kind \in {"retry", "delay", "condition", "timeout", "threshold", "dependency",
                   "selection"} =>
         \A c \in DOMAIN f.kids : P[f.kids[c]] \subseteq P[n]
  BY <1>3, <1>7, <1>8, <1>10, <1>11
<1> QED
  BY <1>1, <1>2, <1>5, <1>6, <1>8, <1>9, <1>10, <1>11, <1>15, <1>16, <1>17 DEF s, P, f

(* Stretches that pass on what they are given.                             *)
LEMMA ChainSteady ==
  ASSUME NEW s, NEW ops, IsSeq(ops), NEW X \in SUBSET Values, NEW out, X \subseteq out,
         \A i \in DOMAIN ops : Carries(s, ops[i], X, X)
  PROVE  Chain(s, ops, X, out)
<1>1. Len(ops) \in Nat /\ DOMAIN ops = 1 .. Len(ops)
  BY SeqShape
<1> DEFINE B == [i \in 1 .. Len(ops) + 1 |-> X]
<1>2. B \in [1 .. Len(ops) + 1 -> SUBSET Values] /\ \A i \in 1 .. Len(ops) + 1 : B[i] = X
  OBVIOUS
<1>3. /\ 1 \in 1 .. Len(ops) + 1 /\ Len(ops) + 1 \in 1 .. Len(ops) + 1
      /\ \A i \in 1 .. Len(ops) : i \in 1 .. Len(ops) + 1 /\ i + 1 \in 1 .. Len(ops) + 1
  BY <1>1
<1> HIDE DEF B
<1>4. \A i \in 1 .. Len(ops) : Carries(s, ops[i], B[i], B[i + 1])
  BY <1>1, <1>2, <1>3
<1> QED
  BY <1>2, <1>3, <1>4 DEF Chain

(* Emissions of other events than the end of a run.                        *)
LEMMA Announces ==
  ASSUME NEW s, NEW op
  PROVE  /\ \A event, task : TameStep(s, op, EmitOp(event, task))
         /\ \A x, task, in, out : x # "OnTaskEnd" /\ in \subseteq out
              => Carries(s, EmitOp(<<x>>, task), in, out)
         /\ \A x, event, task, in, out : x # "OnTaskEnd" /\ IsSeq(event) /\ in \subseteq out
              => Carries(s, EmitOp(<<x>> \o event, task), in, out)
<1>1. \A event, task : TameStep(s, op, EmitOp(event, task))
  BY TameOp DEF EmitOp, FrameSteps
<1>2. ASSUME NEW x, NEW task, NEW in, NEW out, x # "OnTaskEnd", in \subseteq out
      PROVE  Carries(s, EmitOp(<<x>>, task), in, out)
  <2>1. <<x>> # OnTaskEnd
    BY <1>2 DEF OnTaskEnd
  <2> QED
    BY <1>2, <2>1, EmitCarries
<1>3. ASSUME NEW x, NEW event, NEW task, NEW in, NEW out,
             x # "OnTaskEnd", IsSeq(event), in \subseteq out
      PROVE  Carries(s, EmitOp(<<x>> \o event, task), in, out)
  <2>1. PICK h, g : h = <<x>> /\ g = h \o event
    OBVIOUS
  <2>2. IsSeq(h) /\ Len(h) = 1 /\ h[1] = x
    BY <2>1, SeqLiteral
  <2>3. g[1] = x
    <3>1. 1 \in 1 .. Len(h)
      BY <2>2
    <3> QED
      BY <1>3, <2>1, <2>2, <3>1, SeqConcat
  <2>4. g # OnTaskEnd
    BY <1>3, <2>3 DEF OnTaskEnd
  <2>5. Carries(s, EmitOp(g, task), in, out)
    BY <1>3, <2>4, EmitCarries
  <2> QED
    BY <2>1, <2>5
<1> QED
  BY <1>1, <1>2, <1>3

-----------------------------------------------------------------------------
(***************************************************************************)
(* The invariant, action by action.                                        *)
(***************************************************************************)
(* The uses of hooks and dependencies: what is announced is never the end  *)
(* of a run, and of the handle that instruct_*() expects there is none.    *)
LEMMA HookKeeps ==
  ASSUME FrameInv, FrameInv', Registry, PromiseInv, ~OverflowChecks, NEW p \in Procs, HookStep(p)
  PROVE  PromiseInv'
<1> DEFINE s == scenario
           op == work[p][1]
           v == res[p]
<1>1. ASSUME NEW do, At(p, do) PROVE work[p] # <<>> /\ Do(op) = do /\ v \in Values
  BY <1>1, FirstStep
<1>2. ASSUME NEW do \in Passive, At(p, do), NEW ops, Proceeds(p, ops, v), Tame(s, op, ops),
             \A out \in SUBSET Values :
                Carries(s, op, {v}, out) /\ v \in out => Chain(s, ops, {v}, out)
      PROVE  PromiseInv'
  <2>1. work[p] # <<>> /\ Do(op) = do /\ Do(op) # "join"
    BY <1>1, <1>2 DEF Passive
  <2>2. ASSUME NEW out \in SUBSET Values, Carries(s, op, {v}, out) PROVE v \in out
    BY <1>2, <2>1, <2>2 DEF Carries, HandsOn
  <2>3. Honours(s, op, {v}, ops, v)
    BY <1>2, <2>2 DEF Honours
  <2> QED
    BY <1>2, <2>1, <2>3, ProceedKeeps
<1>3. ASSUME NEW do \in Passive, At(p, do), Proceeds(p, <<>>, v) PROVE PromiseInv'
  BY <1>1, <1>2, <1>3, ChainNil, TameLiteral
<1>4. ASSUME NEW do \in Passive, At(p, do), NEW x, x # "OnTaskEnd", NEW event, NEW task,
             do \notin {"attach", "detach"} => IsSeq(event),
             do \in {"attach", "detach"} => event = Arg(op).event,
             Proceeds(p, <<EmitOp(<<x>> \o event, task)>>, v)
      PROVE  PromiseInv'
  <2> DEFINE a == EmitOp(<<x>> \o event, task)
  <2>1. Do(op) = do /\ v \in Values
    BY <1>1, <1>4
  <2>2. Tame(s, op, <<a>>)
    BY Announces, TameLiteral
  <2>3. ASSUME NEW out \in SUBSET Values, Carries(s, op, {v}, out), v \in out
        PROVE  Chain(s, <<a>>, {v}, out)
    <3>1. IsSeq(event)
      BY <1>4, <2>1, <2>3 DEF Carries
    <3>2. Carries(s, a, {v}, out)
      BY <1>4, <2>3, <3>1, Announces
    <3> HIDE DEF a
    <3>3. {v} \in SUBSET Values
      BY <2>1
    <3> QED
      BY <3>2, <3>3, ChainStep
  <2> HIDE DEF a
  <2>4. Proceeds(p, <<a>>, v)
    BY <1>4 DEF a
  <2> QED
    BY <1>2, <1>4, <2>2, <2>3, <2>4
<1>5. ASSUME Emit(p) PROVE PromiseInv'
  <2> DEFINE task == On(op)
             slots == Entry(Arg(op), task)
  <2>1. At(p, "emit")
    BY <1>5 DEF Emit
  <2>2. ~Unreachable(slots)
    BY NeverUnreachable
  <2>3. PICK f \in Snapshots(slots) :
          Proceeds(p, [i \in DOMAIN f |-> Op("deliver", task, f[i])], v)
    BY <1>5, <2>2 DEF Emit
  <2> DEFINE ops == [i \in DOMAIN f |-> Op("deliver", task, f[i])]
  <2>4. IsSeq(slots)
    BY EntrySlots
  <2>5. DOMAIN f = DOMAIN slots
    BY DEF Snapshots
  <2>6. DOMAIN ops = 1 .. Len(slots) /\ Len(slots) \in Nat
    BY <2>4, <2>5, SeqShape
  <2>7. \A i \in DOMAIN ops : TameStep(s, op, ops[i]) /\ Carries(s, ops[i], {v}, {v})
    BY TameOp, CarriesOp DEF FrameSteps
  <2>8. ops \in [1 .. Len(slots) -> Range(ops)]
    BY <2>6 DEF Range
  <2>9. Proceeds(p, ops, v)
    BY <2>3
  <2> HIDE DEF ops
  <2>10. IsSeq(ops)
    BY <2>6, <2>8, SeqFunction
  <2>11. Tame(s, op, ops)
    BY <2>7, <2>10 DEF Tame
  <2>12. v \in Values
    BY <1>1, <2>1
  <2>13. ASSUME NEW out \in SUBSET Values, v \in out PROVE Chain(s, ops, {v}, out)
    <3>1. {v} \in SUBSET Values /\ {v} \subseteq out
      BY <2>12, <2>13
    <3> QED
      BY <2>7, <2>10, <3>1, ChainSteady
  <2> QED
    BY <1>2, <2>1, <2>9, <2>11, <2>13 DEF Passive
<1>6. ASSUME Deliver(p) PROVE PromiseInv'
  <2>1. At(p, "deliver") /\ "deliver" \in Passive
    BY <1>6 DEF Deliver, Passive
  <2>2. ASSUME NEW d, MonitorCounts(p, d) PROVE PromiseInv'
    <3> DEFINE a == Op("store", d, 0)
    <3>1. Proceeds(p, <<>>, v) \/ Proceeds(p, <<a>>, v)
      BY <2>2 DEF MonitorCounts
    <3>2. Tame(s, op, <<a>>)
      BY TameOp, TameLiteral DEF FrameSteps
    <3>3. v \in Values
      BY <1>1, <2>1
    <3>4. ASSUME NEW out \in SUBSET Values, v \in out PROVE Chain(s, <<a>>, {v}, out)
      <4>1. Carries(s, a, {v}, out) /\ {v} \in SUBSET Values
        BY <3>3, <3>4, CarriesOp
      <4> HIDE DEF a
      <4> QED
        BY <4>1, ChainStep
    <3> HIDE DEF a
    <3> QED
      BY <1>2, <1>3, <2>1, <3>1, <3>2, <3>4
  <2>3. ASSUME Continues(p, <<>>) PROVE PromiseInv'
    BY <1>3, <2>1, <2>3 DEF Continues
  <2> QED
    BY <1>6, <2>2, <2>3 DEF Deliver
<1>7. ASSUME StoreFlag(p) \/ disable(p) \/ enable(p) PROVE PromiseInv'
  BY <1>3, <1>7 DEF StoreFlag, disable, enable, Passive
<1>8. ASSUME attach_hook(p) PROVE PromiseInv'
  <2>1. At(p, "attach") /\ "attach" \in Passive
    BY <1>8 DEF attach_hook, Passive
  <2>2. Proceeds(p, <<EmitOp(<<"OnHookAttach">> \o Arg(op).event, On(op))>>, v)
    BY <1>8 DEF attach_hook, Files
  <2> QED
    BY <1>4, <2>1, <2>2
<1>9. ASSUME detach_hook(p) PROVE PromiseInv'
  <2>1. At(p, "detach") /\ "detach" \in Passive
    BY <1>9 DEF detach_hook, Passive
  <2>2. \/ Proceeds(p, <<>>, v)
        \/ Proceeds(p, <<EmitOp(<<"OnHookDetach">> \o Arg(op).event, On(op))>>, v)
    BY <1>9 DEF detach_hook
  <2> QED
    BY <1>3, <1>4, <2>1, <2>2
<1>10. ASSUME shared(p) PROVE PromiseInv'
  <2>1. At(p, "shared") /\ "shared" \in Passive
    BY <1>10 DEF shared, Passive
  <2>2. \/ Proceeds(p, <<>>, v)
        \/ Proceeds(p, <<EmitOp(<<"OnHookAttach">> \o <<"()">>, On(op))>>, v)
    BY <1>10 DEF shared, Files
  <2>3. IsSeq(<<"()">>)
    BY SeqLiteral
  <2> QED
    BY <1>3, <1>4, <2>1, <2>2, <2>3
<1>11. ASSUME Depend(p) PROVE PromiseInv'
  <2>1. At(p, "depend") /\ "depend" \in Passive
    BY <1>11 DEF Depend, Passive
  <2>2. Proceeds(p, <<EmitOp(<<"OnHookAttach">> \o OnTaskEnd, scenario.deps[On(op)].task)>>, v)
    BY <1>11 DEF Depend, Files
  <2>3. IsSeq(OnTaskEnd)
    BY SeqLiteral DEF OnTaskEnd
  <2> QED
    BY <1>4, <2>1, <2>2, <2>3
<1>12. ASSUME instruct(p) PROVE PromiseInv'
  <2>1. work[p] # <<>> /\ Do(op) = "instruct"
    BY <1>1, <1>12 DEF instruct
  <2>2. Lookup(<<"()">>, On(op), "SchedulerHandle") = {}
    <3> DEFINE slots == Entry(<<"()">>, On(op))
    <3>1. \A i \in DOMAIN slots : slots[i].id # TypeIdOf("SchedulerHandle")
      BY EntrySlots
    <3> HIDE DEF slots
    <3> QED
      BY <3>1 DEF Lookup, fetch, SlotsOf, slots
  <2>3. Panics(p)
    BY <1>12, <2>2 DEF instruct
  <2>4. Risky(s, op)
    BY <2>1 DEF Risky
  <2> QED
    BY <2>1, <2>3, <2>4, VanishKeeps DEF Panics
<1> QED
  BY <1>5, <1>6, <1>7, <1>8, <1>9, <1>10, <1>11, <1>12 DEF HookStep

(* A child of a collection, between its announcements.                     *)
LEMMA ChildHonours ==
  ASSUME FrameInv, NEW n \in DOMAIN Frames, NEW i \in DOMAIN Frames[n].kids, NEW op,
         "panic" \in PromisedBy(scenario)[Frames[n].kids[i]] => Risky(scenario, op)
  PROVE  /\ Tame(scenario, op, Child(n, i))
         /\ \A v \in Values :
              Chain(scenario, Child(n, i), {v}, Returned(scenario, Frames[n].kids[i]))
<1> DEFINE s == scenario
           kid == Frames[n].kids[i]
           R == Returned(s, kid)
           a == EmitOp(<<"OnChildTaskFrameStart">>, Frames[n].task)
           b == Exec(kid)
           c == EmitOp(<<"OnChildTaskFrameEnd">>, Frames[n].task)
<1>1. Child(n, i) = <<a, b, c>>
  BY DEF Child
<1>2. TameStep(s, op, a) /\ TameStep(s, op, b) /\ TameStep(s, op, c)
  BY Announces, TameOp DEF Exec, FrameSteps
<1>3. ASSUME NEW v \in Values
      PROVE  Carries(s, a, {v}, {v}) /\ Carries(s, b, {v}, R) /\ Carries(s, c, R, R)
  BY Announces, CarriesOp DEF Exec
<1>4. R \in SUBSET Values
  BY DEF Returned
<1> HIDE DEF a, b, c, R
<1>5. Tame(s, op, <<a, b, c>>)
  BY <1>2, TameLiteral
<1>6. ASSUME NEW v \in Values PROVE Chain(s, <<a, b, c>>, {v}, R)
  BY <1>3, <1>4, ChainLiteral
<1> QED
  BY <1>1, <1>5, <1>6 DEF R

(* A frame that begins: its steps return what it promises.                 *)
LEMMA ExecuteKeeps ==
  ASSUME FrameInv, FrameInv', PromiseInv, NEW p \in Procs,
         \/ run(p) \/ Enter(p) \/ NoOperation(p) \/ Delay(p) \/ Fallback(p) \/ Condition(p)
         \/ Retry(p) \/ Timeout(p) \/ Dependency(p) \/ Sequential(p) \/ Selection(p)
  PROVE  PromiseInv'
<1> DEFINE s == scenario
           P == PromisedBy(s)
           op == work[p][1]
           n == On(op)
           f == Frames[n]
           v == res[p]
<1>1. ASSUME NEW kind, Executes(p, kind)
      PROVE  /\ work[p] # <<>> /\ Do(op) = "exec" /\ n \in DOMAIN Frames
             /\ f.kind = kind /\ Frame(p) = f /\ f = s.frames[n] /\ v \in Values
             /\ "panic" \in P[n] => Risky(s, op)
             /\ \A out : Carries(s, op, {v}, out) => Returned(s, n) \subseteq out
  <2>1. /\ work[p] # <<>> /\ Do(op) = "exec" /\ n \in DOMAIN Frames
        /\ f.kind = kind /\ Frame(p) = f /\ f = s.frames[n] /\ v \in Values
    BY <1>1, FirstStep DEF Executes, Known, FrameSteps, Frame, Frames
  <2>2. "panic" \in P[n] => Risky(s, op)
    BY <2>1 DEF Risky, FrameSteps
  <2>3. \A out : Carries(s, op, {v}, out) => Returned(s, n) \subseteq out
    BY <2>1 DEF Carries, ReturnsOwn
  <2> QED
    BY <2>1, <2>2, <2>3
<1>2. ASSUME NEW kind, Executes(p, kind), NEW ops, NEW r, Proceeds(p, ops, r), Tame(s, op, ops),
             \A out \in SUBSET Values : Returned(s, n) \subseteq out => Chain(s, ops, {r}, out)
      PROVE  PromiseInv'
  <2>1. Honours(s, op, {v}, ops, r)
    BY <1>1, <1>2 DEF Honours
  <2> QED
    BY <1>1, <1>2, <2>1, ProceedKeeps
<1>3. ASSUME NEW kind, Executes(p, kind), NEW ops, Continues(p, ops), Tame(s, op, ops),
             \A out \in SUBSET Values : Returned(s, n) \subseteq out => Chain(s, ops, {v}, out)
      PROVE  PromiseInv'
  BY <1>2, <1>3 DEF Continues
<1>4. ASSUME NEW kind, Executes(p, kind), NEW r \in P[n] \cap Values, Returns(p, r)
      PROVE  PromiseInv'
  <2>1. Proceeds(p, <<>>, r) /\ Tame(s, op, <<>>)
    BY <1>4, TameLiteral DEF Returns
  <2>2. ASSUME NEW out \in SUBSET Values, Returned(s, n) \subseteq out
        PROVE  Chain(s, <<>>, {r}, out)
    BY <1>4, <2>2, ChainNil DEF Returned
  <2> QED
    BY <1>2, <1>4, <2>1, <2>2
<1>5. \A m : Returned(s, m) \in SUBSET Values /\ Returned(s, m) = P[m] \cap Values
  BY DEF Returned
<1>6. \A event, task : TameStep(s, op, EmitOp(event, task))
  BY Announces
<1>7. ASSUME run(p) PROVE PromiseInv'
  <2> DEFINE a == EmitOp(<<"OnTaskStart">>, n)
             b == Exec(s.root[n])
             c == EmitOp(OnTaskEnd, n)
             R == Returned(s, s.root[n])
  <2>1. At(p, "run") /\ Proceeds(p, <<a, b, c>>, v)
    BY <1>7 DEF run, Continues
  <2>2. work[p] # <<>> /\ Do(op) = "run" /\ v \in Values
    BY <2>1, FirstStep
  <2>3. TameStep(s, op, a) /\ TameStep(s, op, b) /\ TameStep(s, op, c)
    BY <1>6, <2>2, TameOp DEF Exec, FrameSteps, Risky
  <2>4. ASSUME NEW out \in SUBSET Values, Carries(s, op, {v}, out)
        PROVE  Carries(s, a, {v}, {v}) /\ Carries(s, b, {v}, R) /\ Carries(s, c, R, out)
    <3>1. Values \subseteq out
      BY <2>2, <2>4 DEF Carries
    <3>2. Carries(s, c, R, out)
      <4>1. Do(c) = "emit" /\ On(c) = n /\ Arg(c) = OnTaskEnd
        BY DEF EmitOp, Op, Do, On, Arg
      <4>2. R \subseteq out /\ R \subseteq P[s.root[n]]
        BY <3>1 DEF Returned
      <4> HIDE DEF c
      <4> QED
        BY <4>1, <4>2 DEF Carries, ReturnsOwn
    <3> QED
      BY <3>2, Announces, CarriesOp DEF Exec
  <2>5. R \in SUBSET Values /\ {v} \in SUBSET Values
    BY <1>5, <2>2
  <2> HIDE DEF a, b, c, R
  <2>6. Tame(s, op, <<a, b, c>>)
    BY <2>3, TameLiteral
  <2>7. ASSUME NEW out \in SUBSET Values, Carries(s, op, {v}, out)
        PROVE  Chain(s, <<a, b, c>>, {v}, out)
    BY <2>4, <2>5, <2>7, ChainLiteral
  <2>8. Honours(s, op, {v}, <<a, b, c>>, v)
    BY <2>6, <2>7 DEF Honours
  <2> QED
    BY <2>1, <2>2, <2>8, ProceedKeeps
<1>8. ASSUME Enter(p) PROVE PromiseInv'
  <2> DEFINE acts == f.acts
             last == Op("leaf", n, 0)
             ops == acts \o <<last>>
  <2>1. Executes(p, "leaf") /\ Continues(p, Frame(p).acts \o <<last>>)
    BY <1>8 DEF Enter
  <2>2. /\ n \in DOMAIN Frames /\ f.kind = "leaf" /\ v \in Values /\ Continues(p, ops)
        /\ f = s.frames[n]
    BY <1>1, <2>1
  <2>3. ProperProgram(s, acts)
    BY <2>2, FrameFacts DEF ProperFrame
  <2>4. /\ Instructs(f) \/ Runs(f) \/ "panic" \in f.outs => "panic" \in P[n]
        /\ ~Instructs(f) => f.outs \subseteq P[n]
    BY <2>2, FramePromise
  <2>5. ASSUME NEW i \in DOMAIN acts
        PROVE  /\ TameStep(s, op, acts[i])
               /\ \A X \in SUBSET Values : ~Runs(f) => Carries(s, acts[i], X, X)
               /\ Carries(s, acts[i], Values, Values)
               /\ Carries(s, acts[i], {}, {})
               /\ Do(acts[i]) = "instruct" => Carries(s, acts[i], Values, {})
    <3>1. PICK a : a = acts[i]
      OBVIOUS
    <3>2. Do(a) \in Offered /\ (Do(a) \in {"attach", "detach"} => IsSeq(Arg(a).event))
      BY <2>3, <2>5, <3>1 DEF ProperProgram
    <3>3. Risky(s, a) => "panic" \in P[n]
      <4>1. Do(a) \notin FrameSteps
        BY <3>2 DEF Offered, FrameSteps
      <4>2. Risky(s, a) => Instructs(f) \/ Runs(f)
        BY <2>5, <3>1, <4>1 DEF Risky, Instructs, Runs
      <4> QED
        BY <2>4, <4>2
    <3>4. Risky(s, a) => Risky(s, op)
      BY <1>1, <2>1, <3>3
    <3>5. TameStep(s, op, a)
      BY <3>2, <3>4 DEF TameStep, Offered
    <3>6. Do(a) = "run" => Runs(f)
      BY <2>5, <3>1 DEF Runs
    <3> HIDE DEF Do, On, Arg
    <3>7. \A X \in SUBSET Values : ~Runs(f) => Carries(s, a, X, X)
      BY <3>2, <3>6 DEF Carries, Offered, HandsOn, Passive, ReturnsOwn
    <3>8. Carries(s, a, Values, Values) /\ Carries(s, a, {}, {})
      BY <3>2 DEF Carries, Offered, HandsOn, Passive, ReturnsOwn
    <3>9. Do(a) = "instruct" => Carries(s, a, Values, {})
      BY <3>2 DEF Carries, Offered, HandsOn, Passive, ReturnsOwn
    <3> QED
      BY <3>1, <3>5, <3>7, <3>8, <3>9
  <2>6. IsSeq(acts) /\ IsSeq(<<last>>)
    BY <2>3, SeqLiteral DEF ProperProgram
  <2>7. TameStep(s, op, last)
    BY <1>1, <2>1, TameOp DEF FrameSteps
  <2>8. Tame(s, op, acts) /\ Tame(s, op, <<last>>)
    <3>1. Tame(s, op, acts)
      BY <2>5, <2>6 DEF Tame
    <3>2. Tame(s, op, <<last>>)
      BY <2>7, TameLiteral
    <3> QED
      BY <3>1, <3>2
  <2>9. Tame(s, op, ops)
    BY <2>8, TameConcat
  <2>10. ASSUME NEW out \in SUBSET Values, Returned(s, n) \subseteq out
         PROVE  Chain(s, ops, {v}, out)
    <3>1. CASE ~Instructs(f)
      <4>1. Carries(s, last, Values, out)
        BY <2>2, <2>4, <2>10, <3>1, CarriesOp DEF Returned
      <4>2. Values \in SUBSET Values
        OBVIOUS
      <4> HIDE DEF last, acts
      <4>3. Chain(s, <<last>>, Values, out)
        BY <4>1, <4>2, ChainStep
      <4>4. Chain(s, acts, Values, Values)
        BY <2>5, <2>6, <4>2, ChainSteady
      <4>5. Chain(s, acts \o <<last>>, Values, out)
        BY <2>6, <4>3, <4>4, ChainConcat
      <4> QED
        BY <2>2, <4>5 DEF Chain
    <3>2. CASE Instructs(f)
      <4>1. PICK k \in DOMAIN acts : Do(acts[k]) = "instruct"
        BY <3>2 DEF Instructs
      <4>2. Len(acts) \in Nat /\ DOMAIN acts = 1 .. Len(acts)
        BY <2>6, SeqShape
      <4>3. Carries(s, last, {}, {})
        BY CarriesOp
      <4> DEFINE B == [i \in 1 .. Len(acts) + 1 |-> IF i <= k THEN Values ELSE {}]
      <4>4. B \in [1 .. Len(acts) + 1 -> SUBSET Values]
            /\ \A i \in 1 .. Len(acts) + 1 : B[i] = IF i <= k THEN Values ELSE {}
        OBVIOUS
      <4> HIDE DEF last, acts, B
      <4>5. {v} \subseteq B[1] /\ B[Len(acts) + 1] \subseteq {}
        BY <2>2, <4>1, <4>2, <4>4
      <4>6. ASSUME NEW i \in 1 .. Len(acts) PROVE Carries(s, acts[i], B[i], B[i + 1])
        <5>1. i \in 1 .. Len(acts) + 1 /\ i + 1 \in 1 .. Len(acts) + 1 /\ i \in DOMAIN acts
          BY <4>2
        <5>2. CASE i < k
          <6>1. B[i] = Values /\ B[i + 1] = Values
            BY <4>1, <4>2, <4>4, <5>1, <5>2
          <6> QED
            BY <2>5, <5>1, <6>1
        <5>3. CASE i = k
          <6>1. B[i] = Values /\ B[i + 1] = {}
            BY <4>1, <4>2, <4>4, <5>1, <5>3
          <6> QED
            BY <2>5, <4>1, <5>1, <5>3, <6>1
        <5>4. CASE i > k
          <6>1. B[i] = {} /\ B[i + 1] = {}
            BY <4>1, <4>2, <4>4, <5>1, <5>4
          <6> QED
            BY <2>5, <5>1, <6>1
        <5> QED
          BY <4>1, <4>2, <5>2, <5>3, <5>4
      <4>7. Chain(s, acts, {v}, {})
        BY <4>4, <4>5, <4>6 DEF Chain
      <4>8. Chain(s, <<last>>, {}, {})
        BY <4>3, ChainStep
      <4>9. Chain(s, acts \o <<last>>, {v}, {})
        BY <2>6, <4>7, <4>8, ChainConcat
      <4> QED
        BY <4>9 DEF Chain
    <3> QED
      BY <3>1, <3>2
  <2> HIDE DEF ops
  <2> QED
    BY <1>3, <2>1, <2>2, <2>9, <2>10
<1>9. ASSUME NoOperation(p) PROVE PromiseInv'
  <2>1. Executes(p, "noop") /\ Returns(p, "ok")
    BY <1>9 DEF NoOperation
  <2>2. "ok" \in P[n] \cap Values
    BY <1>1, <2>1, FramePromise DEF Values
  <2> QED
    BY <1>4, <2>1, <2>2
<1>10. ASSUME Delay(p) PROVE PromiseInv'
  <2> DEFINE a == EmitOp(<<"OnDelayStart">>, f.task)
             b == Op("sleep", 0, f.delay)
             c == EmitOp(<<"OnDelayEnd">>, f.task)
             d == Exec(f.kids[1])
  <2>1. Executes(p, "delay") /\ Frame(p) = f
    BY <1>1, <1>10 DEF Delay
  <2>2. Continues(p, <<a, b, c, d>>)
    BY <1>10, <2>1 DEF Delay
  <2>3. P[f.kids[1]] \subseteq P[n]
    BY <1>1, <2>1, FramePromise, FrameFacts DEF ProperFrame
  <2>4. TameStep(s, op, a) /\ TameStep(s, op, b) /\ TameStep(s, op, c) /\ TameStep(s, op, d)
    BY <1>1, <1>6, <2>1, <2>3, TameOp DEF Exec, FrameSteps
  <2>5. ASSUME NEW out \in SUBSET Values, Returned(s, n) \subseteq out
        PROVE  /\ Carries(s, a, {v}, {v}) /\ Carries(s, b, {v}, {v})
               /\ Carries(s, c, {v}, {v}) /\ Carries(s, d, {v}, out)
    BY <1>5, <2>3, <2>5, Announces, CarriesOp DEF Exec
  <2>6. {v} \in SUBSET Values
    BY <1>1, <2>1
  <2> HIDE DEF a, b, c, d
  <2>7. Tame(s, op, <<a, b, c, d>>)
    BY <2>4, TameLiteral
  <2>8. ASSUME NEW out \in SUBSET Values, Returned(s, n) \subseteq out
        PROVE  Chain(s, <<a, b, c, d>>, {v}, out)
    BY <2>5, <2>6, <2>8, ChainLiteral
  <2> QED
    BY <1>3, <2>1, <2>2, <2>7, <2>8
<1>11. ASSUME NEW kind, Executes(p, kind), NEW a, NEW b, Continues(p, <<a, b>>),
              TameStep(s, op, a), TameStep(s, op, b), NEW R \in SUBSET Values,
              \A out \in SUBSET Values : Returned(s, n) \subseteq out =>
                Carries(s, a, {v}, R) /\ Carries(s, b, R, out)
       PROVE  PromiseInv'
  <2>1. Tame(s, op, <<a, b>>) /\ {v} \in SUBSET Values
    BY <1>1, <1>11, TameLiteral
  <2>2. ASSUME NEW out \in SUBSET Values, Returned(s, n) \subseteq out
        PROVE  Chain(s, <<a, b>>, {v}, out)
    BY <1>11, <2>1, <2>2, ChainLiteral
  <2> QED
    BY <1>3, <1>11, <2>1, <2>2
<1>12. ASSUME Fallback(p) PROVE PromiseInv'
  <2> DEFINE a == Exec(f.kids[1])
             b == Op("recover", n, 0)
             R == Returned(s, f.kids[1])
  <2>1. Executes(p, "fallback") /\ Frame(p) = f /\ n \in DOMAIN Frames /\ f.kind = "fallback"
    BY <1>1, <1>12 DEF Fallback
  <2>2. Continues(p, <<a, b>>)
    BY <1>12, <2>1 DEF Fallback
  <2>3. /\ P[f.kids[1]] \ {"err"} \subseteq P[n]
        /\ "err" \in P[f.kids[1]] => P[f.kids[2]] \subseteq P[n]
    BY <2>1, FramePromise
  <2>4. P[f.kids[1]] \subseteq Outcomes \cup {"panic"}
    <3>1. f.kids[1] \in DOMAIN Frames
      BY <2>1, FrameFacts DEF ProperFrame
    <3> QED
      BY <3>1, FramePromise
  <2>5. TameStep(s, op, a) /\ TameStep(s, op, b)
    BY <1>1, <2>1, <2>3, TameOp DEF Exec, FrameSteps
  <2>6. ASSUME NEW out \in SUBSET Values, Returned(s, n) \subseteq out
        PROVE  Carries(s, a, {v}, R) /\ Carries(s, b, R, out)
    <3>1. R = P[f.kids[1]] \cap Values /\ s.frames[n] = f
      BY <1>1, <1>5, <2>1
    <3>2. R \cap {"ok"} \subseteq out
      BY <1>5, <2>3, <2>6, <3>1
    <3>3. R \subseteq {"ok"} \/ Returned(s, f.kids[2]) \subseteq out
      <4>1. CASE "err" \in P[f.kids[1]]
        BY <1>5, <2>3, <2>6, <4>1
      <4>2. CASE "err" \notin P[f.kids[1]]
        BY <2>4, <3>1, <4>2 DEF Outcomes, Values
      <4> QED
        BY <4>1, <4>2
    <3>4. Carries(s, b, R, out)
      <4>1. R \subseteq P[f.kids[1]]
        BY <3>1
      <4> HIDE DEF R
      <4> QED
        BY <3>1, <3>2, <3>3, <4>1, CarriesRecover
    <3> QED
      BY <3>4, CarriesOp DEF Exec
  <2>7. R \in SUBSET Values
    BY <1>5
  <2> HIDE DEF a, b, R
  <2> QED
    BY <1>11, <2>1, <2>2, <2>5, <2>6, <2>7
<1>13. ASSUME Condition(p) PROVE PromiseInv'
  <2>1. Executes(p, "condition") /\ Frame(p) = f
    BY <1>1, <1>13 DEF Condition
  <2>2. ASSUME NEW x, x # "OnTaskEnd", NEW c \in {1, 2},
               Continues(p, <<EmitOp(<<x>>, f.task), Exec(f.kids[c])>>)
        PROVE  PromiseInv'
    <3> DEFINE a == EmitOp(<<x>>, f.task)
               b == Exec(f.kids[c])
    <3>1. P[f.kids[c]] \subseteq P[n]
      BY <1>1, <2>1, FramePromise, FrameFacts DEF ProperFrame
    <3>2. TameStep(s, op, a) /\ TameStep(s, op, b)
      BY <1>1, <1>6, <2>1, <3>1, TameOp DEF Exec, FrameSteps
    <3>3. ASSUME NEW out \in SUBSET Values, Returned(s, n) \subseteq out
          PROVE  Carries(s, a, {v}, {v}) /\ Carries(s, b, {v}, out)
      BY <1>5, <2>2, <3>1, <3>3, Announces, CarriesOp DEF Exec
    <3>4. {v} \in SUBSET Values
      BY <1>1, <2>1
    <3> HIDE DEF a, b
    <3>5. Continues(p, <<a, b>>)
      BY <2>2 DEF a, b
    <3> QED
      BY <1>11, <2>1, <3>2, <3>3, <3>4, <3>5
  <2>3. "OnTruthyValueEvent" # "OnTaskEnd" /\ "OnFalseyValueEvent" # "OnTaskEnd"
    OBVIOUS
  <2> QED
    BY <1>13, <2>1, <2>2, <2>3 DEF Condition
<1>14. ASSUME NEW kind, Executes(p, kind), NEW a, Continues(p, <<a>>), TameStep(s, op, a),
              \A out \in SUBSET Values : Returned(s, n) \subseteq out => Carries(s, a, {v}, out)
       PROVE  PromiseInv'
  <2>1. Tame(s, op, <<a>>) /\ {v} \in SUBSET Values
    BY <1>1, <1>14, TameLiteral
  <2>2. ASSUME NEW out \in SUBSET Values, Returned(s, n) \subseteq out
        PROVE  Chain(s, <<a>>, {v}, out)
    BY <1>14, <2>1, <2>2, ChainStep
  <2> QED
    BY <1>3, <1>14, <2>1, <2>2
<1>15. ASSUME Retry(p) PROVE PromiseInv'
  <2> DEFINE a == Op("attempt", n, 0)
  <2>1. Executes(p, "retry") /\ Continues(p, <<a>>)
    BY <1>15 DEF Retry
  <2>2. TameStep(s, op, a)
    BY <1>1, <2>1, TameOp DEF FrameSteps
  <2>3. ASSUME NEW out \in SUBSET Values, Returned(s, n) \subseteq out
        PROVE  Carries(s, a, {v}, out)
    BY <2>3, CarriesOp
  <2> HIDE DEF a
  <2> QED
    BY <1>14, <2>1, <2>2, <2>3
<1>16. ASSUME Timeout(p) PROVE PromiseInv'
  <2> DEFINE a == Exec(f.kids[1])
             b == Op("timed", n, 0)
             R == Returned(s, f.kids[1])
  <2>1. Executes(p, "timeout") /\ Frame(p) = f
    BY <1>1, <1>16 DEF Timeout
  <2>2. Continues(p, <<a, b>>)
    BY <1>16, <2>1 DEF Timeout
  <2>3. P[f.kids[1]] \subseteq P[n] /\ "err" \in P[n]
    BY <1>1, <2>1, FramePromise, FrameFacts DEF ProperFrame
  <2>4. TameStep(s, op, a) /\ TameStep(s, op, b)
    BY <1>1, <2>1, <2>3, TameOp DEF Exec, FrameSteps
  <2>5. ASSUME NEW out \in SUBSET Values, Returned(s, n) \subseteq out
        PROVE  Carries(s, a, {v}, R) /\ Carries(s, b, R, out)
    <3>1. R \subseteq out /\ "err" \in out
      BY <1>5, <2>3, <2>5 DEF Values
    <3> QED
      BY <3>1, CarriesOp DEF Exec
  <2>6. R \in SUBSET Values
    BY <1>5
  <2> HIDE DEF a, b, R
  <2> QED
    BY <1>11, <2>1, <2>2, <2>4, <2>5, <2>6
<1>17. ASSUME Dependency(p) PROVE PromiseInv'
  <2> DEFINE a == EmitOp(<<"OnDependencyValidation">>, f.task)
             b == Op("resolve", n, 0)
             e == Op("eval", n, f.on)
             B == {"true", "false"}
  <2>1. Executes(p, "dependency") /\ Frame(p) = f
    BY <1>1, <1>17 DEF Dependency
  <2>2. Proceeds(p, <<a, b>>, "false") \/ Continues(p, <<e>> \o <<a, b>>)
    BY <1>17, <2>1 DEF Dependency
  <2>3. TameStep(s, op, a) /\ TameStep(s, op, b) /\ TameStep(s, op, e)
    BY <1>1, <1>6, <2>1, TameOp DEF FrameSteps
  <2>4. ASSUME NEW out \in SUBSET Values, Returned(s, n) \subseteq out
        PROVE  /\ Carries(s, e, {v}, B)
               /\ \A X : Carries(s, a, X, X) /\ Carries(s, b, X, out)
    BY <2>4, Announces, CarriesOp
  <2>5. {v} \in SUBSET Values /\ {"false"} \in SUBSET Values /\ B \in SUBSET Values
    BY <1>1, <2>1 DEF Values
  <2> HIDE DEF a, b, e, B
  <2>6. Tame(s, op, <<a, b>>) /\ Tame(s, op, <<e>>)
    BY <2>3, TameLiteral
  <2>7. Tame(s, op, <<e>> \o <<a, b>>)
    BY <2>6, TameConcat
  <2>8. ASSUME NEW out \in SUBSET Values, Returned(s, n) \subseteq out
        PROVE  Chain(s, <<a, b>>, {"false"}, out) /\ Chain(s, <<e>> \o <<a, b>>, {v}, out)
    <3>1. Chain(s, <<a, b>>, {"false"}, out) /\ Chain(s, <<a, b>>, B, out)
      BY <2>4, <2>5, <2>8, ChainLiteral
    <3>2. Chain(s, <<e>>, {v}, B)
      BY <2>4, <2>5, <2>8, ChainStep
    <3>3. IsSeq(<<e>>) /\ IsSeq(<<a, b>>)
      BY SeqLiteral
    <3>4. Chain(s, <<e>> \o <<a, b>>, {v}, out)
      BY <3>1, <3>2, <3>3, ChainConcat
    <3> QED
      BY <3>1, <3>4
  <2>9. CASE Proceeds(p, <<a, b>>, "false")
    BY <1>2, <2>1, <2>6, <2>8, <2>9
  <2>10. CASE Continues(p, <<e>> \o <<a, b>>)
    BY <1>3, <2>1, <2>7, <2>8, <2>10
  <2> QED
    BY <2>2, <2>9, <2>10
<1>18. ASSUME Sequential(p) PROVE PromiseInv'
  <2> DEFINE a == Op("next", n, 1)
  <2>1. Executes(p, "sequential") /\ Continues(p, <<a>>)
    BY <1>18 DEF Sequential
  <2>2. TameStep(s, op, a)
    BY <1>1, <2>1, TameOp DEF FrameSteps
  <2>3. PassedUntil(s, s.frames[n], 1)
    BY <1>1, <2>1 DEF PassedUntil
  <2>4. ASSUME NEW out \in SUBSET Values, Returned(s, n) \subseteq out
        PROVE  Carries(s, a, {v}, out)
    BY <2>3, <2>4, CarriesOp
  <2> HIDE DEF a
  <2> QED
    BY <1>14, <2>1, <2>2, <2>4
<1>19. ASSUME Selection(p) PROVE PromiseInv'
  <2>1. Executes(p, "selection") /\ Frame(p) = f /\ n \in DOMAIN Frames /\ f.kind = "selection"
    BY <1>1, <1>19 DEF Selection
  <2>2. "err" \in P[n] \cap Values /\ \A c \in DOMAIN f.kids : P[f.kids[c]] \subseteq P[n]
    BY <2>1, FramePromise DEF Values
  <2>3. ASSUME NEW i \in DOMAIN f.kids, Continues(p, Child(n, i)) PROVE PromiseInv'
    <3>1. /\ Tame(s, op, Child(n, i))
          /\ Chain(s, Child(n, i), {v}, Returned(s, f.kids[i]))
      BY <1>1, <2>1, <2>2, <2>3, ChildHonours
    <3>2. ASSUME NEW out \in SUBSET Values, Returned(s, n) \subseteq out
          PROVE  Chain(s, Child(n, i), {v}, out)
      <4>1. Returned(s, f.kids[i]) \subseteq out
        BY <1>5, <2>2, <2>3, <3>2
      <4> QED
        BY <3>1, <4>1 DEF Chain
    <3> QED
      BY <1>3, <2>1, <2>3, <3>1, <3>2
  <2> QED
    BY <1>4, <1>19, <2>1, <2>2, <2>3 DEF Selection
<1> QED
  BY <1>7, <1>8, <1>9, <1>10, <1>12, <1>13, <1>15, <1>16, <1>17, <1>18, <1>19

(* What the step that a process is at may assume of its result.            *)
LEMMA HeadCarries ==
  ASSUME FrameInv, PromiseInv, NEW p \in Procs, work[p] # <<>>
  PROVE  \E X \in SUBSET Values : Carries(scenario, work[p][1], {res[p]}, X)
<1>1. PICK s, ops, rest : s = scenario /\ ops = work[p] /\ rest = Tail(work[p])
  OBVIOUS
<1>2. IsSeq(ops) /\ Len(ops) \in Nat /\ Len(ops) # 0 /\ Len(rest) = Len(ops) - 1
      /\ \A j \in 1 .. Len(rest) : rest[j] = ops[j + 1]
  BY <1>1, SeqShape, SeqTail DEF FrameInv, Stacks
<1>3. Chain(s, ops, {res[p]}, Values \cup {"panic"})
  BY <1>1 DEF PromiseInv, Works, Fits
<1>4. PICK m : m = 1
  OBVIOUS
<1>7. m \in 1 .. Len(ops) /\ Len(rest) = Len(ops) - m /\ \A j \in 1 .. Len(rest) : rest[j] = ops[j + m]
  BY <1>2, <1>4
<1>8. IsSeq(ops)
  BY <1>2
<1>5. PICK X \in SUBSET Values, Y \in SUBSET Values :
        Carries(s, ops[1], Y, X) /\ {res[p]} \subseteq Y
  <2>1. PICK in, G : in = {res[p]} /\ G = Values \cup {"panic"}
    OBVIOUS
  <2>2. Chain(s, ops, in, G)
    BY <1>3, <2>1
  <2>3. PICK X \in SUBSET Values, Y \in SUBSET Values :
          /\ Carries(s, ops[m], Y, X)
          /\ m = 1 => in \subseteq Y
          /\ Chain(s, rest, X, G)
    BY <1>7, <1>8, <2>2, ChainCut
  <2> QED
    BY <1>4, <2>1, <2>3
<1>6. Carries(s, ops[1], {res[p]}, X)
  BY <1>5, CarriesLess
<1> QED
  BY <1>1, <1>6

(* A frame that goes on, with the result of its child or without one.      *)
LEMMA ResumeKeeps ==
  ASSUME FrameInv, FrameInv', PromiseInv, NEW p \in Procs,
         \/ Leaf(p) \/ Wake(p) \/ Recover(p) \/ Attempt(p) \/ Attempted(p) \/ InTime(p)
         \/ is_resolved(p) \/ Combine(p) \/ Resolve(p) \/ NextChild(p) \/ QuitOrNext(p)
  PROVE  PromiseInv'
<1> DEFINE s == scenario
           P == PromisedBy(s)
           op == work[p][1]
           n == On(op)
           f == Frames[n]
           v == res[p]
           H(out) == Carries(s, op, {v}, out)
<1>1. ASSUME NEW do \in FrameSteps, At(p, do)
      PROVE  /\ work[p] # <<>> /\ Do(op) = do /\ Known(op) /\ n \in DOMAIN Frames
             /\ Frame(p) = f /\ f = s.frames[n] /\ v \in Values
             /\ "panic" \in P[n] => Risky(s, op)
  <2>1. work[p] # <<>> /\ Do(op) = do /\ Known(op) /\ v \in Values
    BY <1>1, FirstStep
  <2>2. n \in DOMAIN Frames
    BY <2>1 DEF Known
  <2> QED
    BY <2>1, <2>2 DEF Risky, Frame, Frames
<1>2. ASSUME NEW do, do # "join", At(p, do), NEW ops, NEW r, Proceeds(p, ops, r),
             Tame(s, op, ops), \A out \in SUBSET Values : H(out) => Chain(s, ops, {r}, out)
      PROVE  PromiseInv'
  <2>1. Honours(s, op, {v}, ops, r)
    BY <1>2 DEF Honours
  <2> QED
    BY <1>2, <2>1, FirstStep, ProceedKeeps
<1>3. ASSUME NEW do, do # "join", At(p, do), NEW ops, Continues(p, ops),
             Tame(s, op, ops), \A out \in SUBSET Values : H(out) => Chain(s, ops, {v}, out)
      PROVE  PromiseInv'
  BY <1>2, <1>3 DEF Continues
<1>4. ASSUME NEW do, do # "join", At(p, do), NEW r \in Values, Proceeds(p, <<>>, r),
             \A out \in SUBSET Values : H(out) => r \in out
      PROVE  PromiseInv'
  BY <1>2, <1>4, TameLiteral, ChainNil
<1>5. ASSUME NEW do, do # "join", At(p, do), NEW a, Continues(p, <<a>>), TameStep(s, op, a),
             \A out \in SUBSET Values : H(out) => Carries(s, a, {v}, out)
      PROVE  PromiseInv'
  <2>1. Tame(s, op, <<a>>) /\ {v} \in SUBSET Values
    BY <1>5, TameLiteral, FirstStep
  <2>2. ASSUME NEW out \in SUBSET Values, H(out) PROVE Chain(s, <<a>>, {v}, out)
    BY <1>5, <2>1, <2>2, ChainStep
  <2> QED
    BY <1>3, <1>5, <2>1, <2>2
<1>6. ASSUME NEW do, do # "join", At(p, do), NEW a, NEW b, Continues(p, <<a, b>>),
             TameStep(s, op, a), TameStep(s, op, b), NEW R \in SUBSET Values,
             \A out \in SUBSET Values : H(out) => Carries(s, a, {v}, R) /\ Carries(s, b, R, out)
      PROVE  PromiseInv'
  <2>1. Tame(s, op, <<a, b>>) /\ {v} \in SUBSET Values
    BY <1>6, TameLiteral, FirstStep
  <2>2. ASSUME NEW out \in SUBSET Values, H(out) PROVE Chain(s, <<a, b>>, {v}, out)
    BY <1>6, <2>1, <2>2, ChainLiteral
  <2> QED
    BY <1>3, <1>6, <2>1, <2>2
<1>7. \A m : Returned(s, m) \in SUBSET Values /\ Returned(s, m) = P[m] \cap Values
  BY DEF Returned
<1>8. \A event, task : TameStep(s, op, EmitOp(event, task))
  BY Announces
<1>9. ASSUME work[p] # <<>> PROVE \E X \in SUBSET Values : H(X)
  BY <1>9, HeadCarries
<1>10. ASSUME Leaf(p) PROVE PromiseInv'
  <2>1. At(p, "leaf")
    BY <1>10 DEF Leaf
  <2>2. /\ work[p] # <<>> /\ Do(op) = "leaf" /\ n \in DOMAIN Frames /\ Frame(p) = f
        /\ f = s.frames[n] /\ f.kind = "leaf" /\ ("panic" \in P[n] => Risky(s, op))
    BY <1>1, <2>1 DEF FrameSteps, Known
  <2>3. f.outs \subseteq Outcomes \cup {"panic"}
    BY <2>2, FrameFacts DEF ProperFrame
  <2>4. PICK r \in f.outs : IF r = "panic" THEN Panics(p) ELSE Proceeds(p, <<>>, r)
    BY <1>10, <2>2 DEF Leaf
  <2>5. CASE r = "panic"
    <3>1. Risky(s, op)
      BY <2>2, <2>4, <2>5, FramePromise
    <3> QED
      BY <2>2, <2>4, <2>5, <3>1, VanishKeeps DEF Panics
  <2>6. CASE r # "panic"
    <3>1. r \in Values
      BY <2>3, <2>4, <2>6 DEF Outcomes, Values
    <3>2. ASSUME NEW out \in SUBSET Values, H(out) PROVE r \in out
      <4>1. f.outs \cap Values \subseteq out
        BY <2>2, <3>2 DEF Carries
      <4> QED
        BY <2>4, <3>1, <4>1
    <3>3. Proceeds(p, <<>>, r) /\ "leaf" # "join"
      BY <2>4, <2>6
    <3> QED
      BY <1>4, <2>1, <3>1, <3>2, <3>3
  <2> QED
    BY <2>5, <2>6
<1>11. ASSUME Wake(p) \/ InTime(p) PROVE PromiseInv'
  <2>1. PICK do \in {"sleep", "timed"} : At(p, do) /\ Proceeds(p, <<>>, v)
    BY <1>11 DEF Wake, InTime, Continues
  <2>2. Do(op) = do /\ v \in Values /\ do # "join"
    BY <2>1, FirstStep
  <2>3. ASSUME NEW out \in SUBSET Values, H(out) PROVE v \in out
    BY <2>2, <2>3 DEF Carries, HandsOn, Passive
  <2> QED
    BY <1>4, <2>1, <2>2, <2>3
<1>12. ASSUME Recover(p) PROVE PromiseInv'
  <2> DEFINE a == EmitOp(<<"OnFallback">>, f.task)
             b == Exec(f.kids[2])
  <2>1. At(p, "recover") /\ "recover" # "join"
    BY <1>12 DEF Recover
  <2>2. /\ work[p] # <<>> /\ Do(op) = "recover" /\ n \in DOMAIN Frames /\ Frame(p) = f /\ v \in Values
        /\ f = s.frames[n] /\ f.kind = "fallback" /\ ("panic" \in P[n] => Risky(s, op))
    BY <1>1, <2>1 DEF FrameSteps, Known
  <2>3. CASE v = "ok"
    <3>1. Proceeds(p, <<>>, v)
      BY <1>12, <2>3 DEF Recover, Continues
    <3>2. ASSUME NEW out \in SUBSET Values, H(out) PROVE v \in out
      BY <2>2, <2>3, <3>2 DEF Carries
    <3> QED
      BY <1>4, <2>1, <2>2, <3>1, <3>2
  <2>4. CASE v # "ok"
    <3>1. Continues(p, <<a, b>>)
      BY <1>12, <2>2, <2>4 DEF Recover
    <3>2. v \in P[f.kids[1]]
      BY <1>9, <2>2 DEF Carries
    <3>3. f.kids[1] \in DOMAIN Frames
      BY <2>2, FrameFacts DEF ProperFrame
    <3>4. v = "err"
      BY <2>2, <2>4, <3>2, <3>3, FramePromise DEF Outcomes, Values
    <3>5. P[f.kids[2]] \subseteq P[n]
      BY <2>2, <3>2, <3>4, FramePromise
    <3>6. TameStep(s, op, a) /\ TameStep(s, op, b)
      BY <1>8, <2>2, <3>5, TameOp DEF Exec, FrameSteps
    <3>7. ASSUME NEW out \in SUBSET Values, H(out)
          PROVE  Carries(s, a, {v}, {v}) /\ Carries(s, b, {v}, out)
      <4>1. Returned(s, f.kids[2]) \subseteq out
        BY <2>2, <2>4, <3>7 DEF Carries
      <4> QED
        BY <4>1, Announces, CarriesOp DEF Exec
    <3>8. {v} \in SUBSET Values
      BY <2>2
    <3> HIDE DEF a, b
    <3> QED
      BY <1>6, <2>1, <3>1, <3>6, <3>7, <3>8
  <2> QED
    BY <2>3, <2>4
<1>13. ASSUME Attempt(p) PROVE PromiseInv'
  <2> DEFINE a == EmitOp(<<"OnRetryAttemptStart">>, f.task)
             b == Exec(f.kids[1])
             c == EmitOp(<<"OnRetryAttemptEnd">>, f.task)
             d == Op("attempted", n, Arg(op))
             R == Returned(s, f.kids[1])
  <2>1. At(p, "attempt") /\ "attempt" # "join"
    BY <1>13 DEF Attempt
  <2>2. /\ work[p] # <<>> /\ Do(op) = "attempt" /\ n \in DOMAIN Frames /\ Frame(p) = f /\ v \in Values
        /\ f.kind = "retry" /\ ("panic" \in P[n] => Risky(s, op))
    BY <1>1, <2>1 DEF FrameSteps, Known
  <2>3. Continues(p, <<a, b, c, d>>)
    BY <1>13, <2>2 DEF Attempt
  <2>4. P[f.kids[1]] \subseteq P[n]
    BY <2>2, FramePromise, FrameFacts DEF ProperFrame
  <2>5. TameStep(s, op, a) /\ TameStep(s, op, b) /\ TameStep(s, op, c) /\ TameStep(s, op, d)
    BY <1>8, <2>2, <2>4, TameOp DEF Exec, FrameSteps
  <2>6. ASSUME NEW out \in SUBSET Values, H(out)
        PROVE  /\ Carries(s, a, {v}, {v}) /\ Carries(s, b, {v}, R)
               /\ Carries(s, c, R, R) /\ Carries(s, d, R, out)
    <3>1. Returned(s, n) \subseteq out
      BY <2>2, <2>6 DEF Carries, ReturnsOwn
    <3>2. R \subseteq out
      BY <1>7, <2>4, <3>1
    <3> QED
      BY <3>1, <3>2, Announces, CarriesOp DEF Exec
  <2>7. {v} \in SUBSET Values /\ R \in SUBSET Values
    BY <1>7, <2>2
  <2> HIDE DEF a, b, c, d, R
  <2>8. Tame(s, op, <<a, b, c, d>>)
    BY <2>5, TameLiteral
  <2>9. ASSUME NEW out \in SUBSET Values, H(out) PROVE Chain(s, <<a, b, c, d>>, {v}, out)
    BY <2>6, <2>7, <2>9, ChainLiteral
  <2> QED
    BY <1>3, <2>1, <2>3, <2>8, <2>9
<1>14. ASSUME Attempted(p) PROVE PromiseInv'
  <2> DEFINE k == Arg(op)
             b == Op("attempt", n, k + 1)
  <2>1. At(p, "attempted") /\ "attempted" # "join"
    BY <1>14 DEF Attempted
  <2>2. /\ Do(op) = "attempted" /\ n \in DOMAIN Frames /\ v \in Values
        /\ ("panic" \in P[n] => Risky(s, op))
    BY <1>1, <2>1 DEF FrameSteps
  <2>3. ASSUME NEW out \in SUBSET Values, H(out) PROVE v \in out /\ Returned(s, n) \subseteq out
    BY <2>2, <2>3 DEF Carries, HandsOn, ReturnsOwn
  <2>4. CASE Continues(p, <<>>)
    BY <1>4, <2>1, <2>2, <2>3, <2>4 DEF Continues
  <2>5. ASSUME NEW delay, Continues(p, <<Op("sleep", 0, delay)>> \o NextAttempt(n, k))
        PROVE  PromiseInv'
    <3> DEFINE a == Op("sleep", 0, delay)
    <3>1. TameStep(s, op, a) /\ TameStep(s, op, b)
      BY <2>2, TameOp DEF FrameSteps
    <3>2. ASSUME NEW out \in SUBSET Values, H(out)
          PROVE  Carries(s, a, {v}, {v}) /\ Carries(s, b, {v}, out) /\ v \in out
      BY <2>3, <3>2, CarriesOp
    <3>3. {v} \in SUBSET Values
      BY <2>2
    <3> HIDE DEF a, b
    <3>4. NextAttempt(n, k) = <<>> \/ NextAttempt(n, k) = <<b>>
      BY DEF NextAttempt, b
    <3>5. Tame(s, op, <<a>>) /\ Tame(s, op, <<b>>) /\ Tame(s, op, <<>>)
      BY <3>1, TameLiteral
    <3>6. Tame(s, op, <<a>> \o <<b>>) /\ Tame(s, op, <<a>> \o <<>>)
      BY <3>5, TameConcat
    <3>7. ASSUME NEW out \in SUBSET Values, H(out)
          PROVE  Chain(s, <<a>> \o <<b>>, {v}, out) /\ Chain(s, <<a>> \o <<>>, {v}, out)
      <4>1. Chain(s, <<a>>, {v}, {v}) /\ Chain(s, <<b>>, {v}, out) /\ Chain(s, <<>>, {v}, out)
        BY <2>2, <3>2, <3>3, <3>7, ChainStep, ChainNil
      <4>2. IsSeq(<<a>>) /\ IsSeq(<<b>>) /\ IsSeq(<<>>)
        BY SeqLiteral
      <4> QED
        BY <4>1, <4>2, ChainConcat
    <3>8. Continues(p, <<a>> \o <<b>>) \/ Continues(p, <<a>> \o <<>>)
      BY <2>5, <3>4 DEF a
    <3> QED
      BY <1>3, <2>1, <3>6, <3>7, <3>8
  <2> QED
    BY <1>14, <2>4, <2>5 DEF Attempted
<1>15. ASSUME is_resolved(p) PROVE PromiseInv'
  <2> DEFINE e == Arg(op)
             B == {"true", "false"}
  <2>1. At(p, "eval") /\ "eval" # "join"
    BY <1>15 DEF is_resolved
  <2>2. /\ Do(op) = "eval" /\ n \in DOMAIN Frames /\ v \in Values
        /\ ("panic" \in P[n] => Risky(s, op))
    BY <1>1, <2>1 DEF FrameSteps
  <2>3. ASSUME NEW out \in SUBSET Values, H(out) PROVE B \subseteq out
    BY <2>2, <2>3 DEF Carries
  <2>4. B \in SUBSET Values
    BY DEF Values
  <2>5. ASSUME NEW r \in B, Returns(p, r) PROVE PromiseInv'
    BY <1>4, <2>1, <2>3, <2>4, <2>5 DEF Returns
  <2>6. ASSUME NEW do \in {"negate", "and", "or"}, NEW l, NEW x,
               Continues(p, <<Op("eval", n, l), Op(do, n, x)>>)
        PROVE  PromiseInv'
    <3> DEFINE a == Op("eval", n, l)
               b == Op(do, n, x)
    <3>1. TameStep(s, op, a) /\ TameStep(s, op, b)
      <4>1. do \in FrameSteps /\ do # "join" /\ "eval" \in FrameSteps
        BY DEF FrameSteps
      <4> QED
        BY <2>2, <4>1, TameOp
    <3>2. ASSUME NEW out \in SUBSET Values, H(out)
          PROVE  Carries(s, a, {v}, B) /\ Carries(s, b, B, out)
      BY <2>3, <3>2, CarriesOp
    <3> HIDE DEF a, b, B
    <3>3. Continues(p, <<a, b>>)
      BY <2>6 DEF a, b
    <3> QED
      BY <1>6, <2>1, <2>4, <3>1, <3>2, <3>3
  <2> QED
    BY <1>15, <2>5, <2>6 DEF is_resolved
<1>16. ASSUME Combine(p) PROVE PromiseInv'
  <2> DEFINE B == {"true", "false"}
  <2>1. PICK do \in {"negate", "and", "or"} : At(p, do)
    BY <1>16 DEF Combine
  <2>2. /\ Do(op) = do /\ n \in DOMAIN Frames /\ v \in Values /\ do # "join"
        /\ ("panic" \in P[n] => Risky(s, op))
    BY <1>1, <2>1 DEF FrameSteps
  <2>3. ASSUME NEW out \in SUBSET Values, H(out)
        PROVE  B \subseteq out /\ (do \in {"and", "or"} => v \in out)
    BY <2>2, <2>3 DEF Carries, HandsOn
  <2>4. CASE do = "negate"
    <3>1. Returns(p, IF v = "true" THEN "false" ELSE "true")
      BY <1>16, <2>1, <2>4 DEF Combine, At
    <3>2. PICK r \in B : Proceeds(p, <<>>, r)
      BY <3>1 DEF Returns
    <3>3. r \in Values /\ \A out \in SUBSET Values : H(out) => r \in out
      BY <2>3, <3>2 DEF Values
    <3> QED
      BY <1>4, <2>1, <2>2, <3>2, <3>3
  <2>5. CASE do \in {"and", "or"}
    <3> DEFINE a == Op("eval", n, Arg(op))
    <3>1. ~At(p, "negate")
      BY <2>2, <2>5 DEF At
    <3>2. Continues(p, <<a>>) \/ Continues(p, <<>>)
      BY <1>16, <3>1 DEF Combine
    <3>3. TameStep(s, op, a)
      BY <2>2, TameOp DEF FrameSteps
    <3>4. ASSUME NEW out \in SUBSET Values, H(out) PROVE Carries(s, a, {v}, out)
      BY <2>3, <3>4, CarriesOp
    <3> HIDE DEF a
    <3>5. CASE Continues(p, <<a>>)
      BY <1>5, <2>1, <2>2, <3>3, <3>4, <3>5
    <3>6. CASE Continues(p, <<>>)
      BY <1>4, <2>1, <2>2, <2>3, <2>5, <3>6 DEF Continues
    <3> QED
      BY <3>2, <3>5, <3>6
  <2> QED
    BY <2>4, <2>5
<1>17. ASSUME Resolve(p) PROVE PromiseInv'
  <2> DEFINE a == Exec(f.kids[1])
  <2>1. At(p, "resolve") /\ "resolve" # "join"
    BY <1>17 DEF Resolve
  <2>2. /\ Do(op) = "resolve" /\ n \in DOMAIN Frames /\ Frame(p) = f /\ v \in Values
        /\ f.kind = "dependency" /\ ("panic" \in P[n] => Risky(s, op))
    BY <1>1, <2>1 DEF FrameSteps, Known
  <2>3. /\ P[f.kids[1]] \subseteq P[n] /\ f.unresolve \in P[n] \cap Values
    BY <2>2, FramePromise, FrameFacts DEF ProperFrame, Outcomes, Values
  <2>4. ASSUME NEW out \in SUBSET Values, H(out) PROVE Returned(s, n) \subseteq out
    BY <2>2, <2>4 DEF Carries, ReturnsOwn
  <2>5. CASE Continues(p, <<a>>)
    <3>1. TameStep(s, op, a)
      BY <2>2, <2>3, TameOp DEF Exec, FrameSteps
    <3>2. ASSUME NEW out \in SUBSET Values, H(out) PROVE Carries(s, a, {v}, out)
      BY <1>7, <2>3, <2>4, <3>2, CarriesOp DEF Exec
    <3> HIDE DEF a
    <3> QED
      BY <1>5, <2>1, <2>5, <3>1, <3>2
  <2>6. CASE Returns(p, f.unresolve)
    <3>1. \A out \in SUBSET Values : H(out) => f.unresolve \in out
      BY <1>7, <2>3, <2>4
    <3> QED
      BY <1>4, <2>1, <2>3, <2>6, <3>1 DEF Returns
  <2> QED
    BY <1>17, <2>2, <2>5, <2>6 DEF Resolve
<1>18. ASSUME NextChild(p) PROVE PromiseInv'
  <2> DEFINE i == Arg(op)
  <2>1. At(p, "next") /\ "next" # "join"
    BY <1>18 DEF NextChild
  <2>2. /\ work[p] # <<>> /\ Do(op) = "next" /\ n \in DOMAIN Frames /\ Frame(p) = f
        /\ f = s.frames[n] /\ v \in Values
        /\ i \in Nat \ {0} /\ ("panic" \in P[n] => Risky(s, op))
    BY <1>1, <2>1 DEF FrameSteps, Known
  <2>3. PassedUntil(s, f, i)
    BY <1>9, <2>2 DEF Carries
  <2>4. Len(f.kids) \in Nat /\ DOMAIN f.kids = 1 .. Len(f.kids) /\ f.kind = "sequential"
    BY <2>2, <2>3, FrameFacts DEF PassedUntil
  <2>5. ASSUME NEW out \in SUBSET Values, H(out) PROVE Returned(s, n) \subseteq out
    BY <2>2, <2>5 DEF Carries, ReturnsOwn
  <2>6. CASE i > Len(f.kids)
    <3>1. Returns(p, "ok")
      BY <1>18, <2>2, <2>6 DEF NextChild
    <3>2. \/ f.policy # "QuitOnFailure"
          \/ \A c \in DOMAIN f.kids : P[f.kids[c]] \cap Passes(f.kind) # {}
      <4>1. ASSUME f.policy = "QuitOnFailure", NEW c \in DOMAIN f.kids
            PROVE  P[f.kids[c]] \cap Passes(f.kind) # {}
        <5>1. c \in 1 .. i - 1
          BY <2>2, <2>4, <2>6, <4>1
        <5>2. "ok" \in P[f.kids[c]]
          BY <2>3, <4>1, <5>1 DEF PassedUntil
        <5> QED
          BY <5>2 DEF Passes
      <4> QED
        BY <4>1
    <3>3. "ok" \in P[n] \cap Values
      BY <2>2, <2>4, <3>2, FramePromise DEF Values
    <3>4. \A out \in SUBSET Values : H(out) => "ok" \in out
      BY <1>7, <2>5, <3>3
    <3> QED
      BY <1>4, <2>1, <3>1, <3>3, <3>4 DEF Returns
  <2>7. CASE ~(i > Len(f.kids))
    <3> DEFINE a == Op("quit", n, i)
               R == Returned(s, f.kids[i])
    <3>1. i \in DOMAIN f.kids
      BY <2>2, <2>4, <2>7
    <3>2. Continues(p, Child(n, i) \o <<a>>)
      BY <1>18, <2>2, <2>7 DEF NextChild
    <3>3. "panic" \in P[f.kids[i]] => Risky(s, op)
      BY <2>2, <2>4, <3>1, FramePromise
    <3>4. Tame(s, op, Child(n, i)) /\ Chain(s, Child(n, i), {v}, R)
      BY <2>2, <3>1, <3>3, ChildHonours
    <3>5. Tame(s, op, <<a>>)
      BY <2>2, TameOp, TameLiteral DEF FrameSteps
    <3>6. Tame(s, op, Child(n, i) \o <<a>>)
      BY <3>4, <3>5, TameConcat
    <3>7. ASSUME NEW out \in SUBSET Values, H(out) PROVE Chain(s, Child(n, i) \o <<a>>, {v}, out)
      <4>1. R \subseteq P[f.kids[i]] /\ R \in SUBSET Values
        BY <1>7
      <4>2. Returned(s, n) \subseteq out
        BY <2>5, <3>7
      <4> HIDE DEF R
      <4>3. Carries(s, a, R, out)
        BY <2>2, <2>3, <3>1, <4>1, <4>2, CarriesOp
      <4> HIDE DEF a
      <4>4. Chain(s, <<a>>, R, out)
        BY <4>1, <4>3, ChainStep
      <4>5. IsSeq(Child(n, i)) /\ IsSeq(<<a>>)
        BY <3>4, <3>5 DEF Tame
      <4> QED
        BY <3>4, <4>4, <4>5, ChainConcat
    <3> QED
      BY <1>3, <2>1, <3>2, <3>6, <3>7
  <2> QED
    BY <2>6, <2>7
<1>19. ASSUME QuitOrNext(p) PROVE PromiseInv'
  <2> DEFINE i == Arg(op)
             verdict == should_quit(f.policy, v)
             a == Op("next", n, i + 1)
  <2>1. At(p, "quit") /\ "quit" # "join"
    BY <1>19 DEF QuitOrNext
  <2>2. /\ work[p] # <<>> /\ Do(op) = "quit" /\ n \in DOMAIN Frames /\ Frame(p) = f
        /\ f = s.frames[n] /\ v \in Values
        /\ i \in Nat \ {0} /\ ("panic" \in P[n] => Risky(s, op))
    BY <1>1, <2>1 DEF FrameSteps, Known
  <2>3. PassedUntil(s, f, i) /\ i \in DOMAIN f.kids /\ v \in P[f.kids[i]]
    BY <1>9, <2>2 DEF Carries
  <2>4. f.kind = "sequential"
    BY <2>3 DEF PassedUntil
  <2>5. ASSUME NEW out \in SUBSET Values, H(out) PROVE Returned(s, n) \subseteq out
    BY <2>2, <2>5 DEF Carries, ReturnsOwn
  <2>6. f.kids[i] \in DOMAIN Frames
    BY <2>2, <2>3, FrameFacts
  <2>7. v \in {"ok", "err"}
    BY <2>2, <2>3, <2>6, FramePromise DEF Outcomes, Values
  <2>8. CASE verdict = "skip"
    <3>1. Continues(p, <<a>>)
      BY <1>19, <2>2, <2>8 DEF QuitOrNext
    <3>2. PassedUntil(s, f, i + 1)
      <4>1. ASSUME f.policy = "QuitOnFailure", NEW j \in 1 .. (i + 1) - 1
            PROVE  "ok" \in P[f.kids[j]]
        <5>1. v = "ok"
          BY <2>7, <2>8, <4>1 DEF should_quit
        <5>2. j = i \/ j \in 1 .. i - 1
          BY <2>2, <4>1
        <5> QED
          BY <2>3, <4>1, <5>1, <5>2 DEF PassedUntil
      <4> QED
        BY <2>4, <4>1 DEF PassedUntil
    <3>3. TameStep(s, op, a)
      BY <2>2, TameOp DEF FrameSteps
    <3>4. ASSUME NEW out \in SUBSET Values, H(out) PROVE Carries(s, a, {v}, out)
      BY <2>2, <2>5, <3>2, <3>4, CarriesOp
    <3> HIDE DEF a
    <3> QED
      BY <1>5, <2>1, <3>1, <3>3, <3>4
  <2>9. CASE verdict # "skip"
    <3>1. Returns(p, verdict)
      BY <1>19, <2>2, <2>9 DEF QuitOrNext
    <3>2. \/ verdict = "ok" /\ f.policy # "QuitOnFailure"
          \/ verdict = "err" /\ f.policy = "QuitOnFailure" /\ v = "err"
      BY <2>9 DEF should_quit
    <3>3. verdict \in P[n] \cap Values
      BY <2>2, <2>3, <2>4, <3>2, FramePromise DEF Values
    <3> HIDE DEF verdict
    <3>4. \A out \in SUBSET Values : H(out) => verdict \in out
      BY <1>7, <2>5, <3>3
    <3> QED
      BY <1>4, <2>1, <3>1, <3>3, <3>4 DEF Returns
  <2> QED
    BY <2>8, <2>9
<1> QED
  BY <1>10, <1>11, <1>12, <1>13, <1>14, <1>15, <1>16, <1>17, <1>18, <1>19

(* A threshold frame, before and after its child.                          *)
LEMMA ThresholdKeeps ==
  ASSUME FrameInv, FrameInv', PromiseInv, NEW p \in Procs, Threshold(p) \/ CountRun(p)
  PROVE  PromiseInv'
<1> DEFINE s == scenario
           P == PromisedBy(s)
           op == work[p][1]
           n == On(op)
           f == Frames[n]
           v == res[p]
<1>1. ASSUME Threshold(p) PROVE PromiseInv'
  <2> DEFINE a == Exec(f.kids[1])
             b == Op("counts", n, 0)
             R == Returned(s, f.kids[1])
  <2>1. Executes(p, "threshold")
    BY <1>1 DEF Threshold
  <2>2. /\ work[p] # <<>> /\ Do(op) = "exec" /\ n \in DOMAIN Frames
        /\ f.kind = "threshold" /\ Frame(p) = f /\ v \in Values
    BY <2>1, FirstStep DEF Executes, Known, FrameSteps, Frame
  <2>3. P[f.kids[1]] \subseteq P[n] /\ f.reach \in P[n] \cap Values
    BY <2>2, FramePromise, FrameFacts DEF ProperFrame, Outcomes, Values
  <2>4. "panic" \in P[n] => Risky(s, op)
    BY <2>2 DEF Risky, FrameSteps
  <2>5. ASSUME NEW out \in SUBSET Values, Carries(s, op, {v}, out)
        PROVE  Returned(s, n) \subseteq out /\ f.reach \in out
    <3>1. Returned(s, n) \subseteq out
      BY <2>2, <2>5 DEF Carries, ReturnsOwn
    <3> QED
      BY <2>3, <3>1 DEF Returned
  <2>6. CASE Reached(n)
    <3>1. Proceeds(p, <<>>, f.reach)
      BY <1>1, <2>2, <2>6 DEF Threshold, Returns
    <3>2. Honours(s, op, {v}, <<>>, f.reach)
      BY <2>3, <2>5, TameLiteral, ChainNil DEF Honours
    <3> QED
      BY <2>2, <3>1, <3>2, ProceedKeeps
  <2>7. CASE ~Reached(n)
    <3>1. Proceeds(p, <<a, b>>, v)
      BY <1>1, <2>2, <2>7 DEF Threshold
    <3>2. TameStep(s, op, a) /\ TameStep(s, op, b)
      BY <2>3, <2>4, TameOp DEF Exec, FrameSteps
    <3>3. ASSUME NEW out \in SUBSET Values, Carries(s, op, {v}, out)
          PROVE  Carries(s, a, {v}, R) /\ Carries(s, b, R, out)
      <4>1. R \subseteq out
        BY <2>3, <2>5, <3>3 DEF Returned
      <4> QED
        BY <4>1, CarriesOp DEF Exec
    <3>4. R \in SUBSET Values /\ {v} \in SUBSET Values
      BY <2>2 DEF Returned
    <3> HIDE DEF a, b, R
    <3>5. Tame(s, op, <<a, b>>)
      BY <3>2, TameLiteral
    <3>6. ASSUME NEW out \in SUBSET Values, Carries(s, op, {v}, out)
          PROVE  Chain(s, <<a, b>>, {v}, out)
      BY <3>3, <3>4, <3>6, ChainLiteral
    <3>7. Honours(s, op, {v}, <<a, b>>, v)
      BY <3>5, <3>6 DEF Honours
    <3> QED
      BY <2>2, <3>1, <3>7, ProceedKeeps
  <2> QED
    BY <2>6, <2>7
<1>2. ASSUME CountRun(p) PROVE PromiseInv'
  <2>1. work[p] # <<>> /\ Do(op) = "counts" /\ v \in Values /\ Proceeds(p, <<>>, v)
    BY <1>2, FirstStep DEF CountRun
  <2>2. ASSUME NEW out \in SUBSET Values, Carries(s, op, {v}, out) PROVE v \in out
    BY <2>1, <2>2 DEF Carries, HandsOn
  <2>3. Honours(s, op, {v}, <<>>, v)
    BY <2>1, <2>2, TameLiteral, ChainNil DEF Honours
  <2> QED
    BY <2>1, <2>3, ProceedKeeps
<1> QED
  BY <1>1, <1>2

(* join_next(): a child that has ended leaves the set, or decides.         *)
LEMMA JoinKeeps ==
  ASSUME FrameInv, FrameInv', PromiseInv, NEW p \in Procs, Join(p)
  PROVE  PromiseInv'
<1> DEFINE s == scenario
           P == PromisedBy(s)
           op == work[p][1]
           n == On(op)
           f == Frames[n]
           v == res[p]
           kids == Arg(op)
<1>1. At(p, "join")
  BY DEF Join
<1>2. /\ work[p] # <<>> /\ Do(op) = "join" /\ n \in DOMAIN Frames /\ Frame(p) = f
      /\ f = s.frames[n] /\ v \in Values
  BY <1>1, FirstStep DEF Known, FrameSteps, Frame, Frames
<1>3. Gathers(op)
  <2>1. 1 \in DOMAIN work[p]
    BY <1>2, SeqShape DEF FrameInv, Stacks
  <2> QED
    BY <1>2, <2>1 DEF PromiseInv
<1>4. f.kind = "parallel"
  BY <1>2, HeadCarries DEF Carries
<1>5. ASSUME NEW out \in SUBSET Values, Carries(s, op, {v}, out)
      PROVE  Returned(s, n) \subseteq out
  BY <1>2, <1>5 DEF Carries, ReturnsOwn
<1>6. ASSUME NEW ops, IsSeq(ops), NEW r, NEW K, Leaves(p, ops \o Tail(work[p]), r, K),
             Covers(K \cup JoinedIn(ops), p, 1), K \subseteq kids, Replaces(s, op, {v}, ops, r),
             \A i \in DOMAIN ops : Do(ops[i]) = "join" =>
                Gathers(ops[i]) /\ K = {} /\ Arg(ops[i]) \subseteq kids,
             \A i, j \in DOMAIN ops : i = j
      PROVE  PromiseInv'
  <2>1. Unwinds(p, 1, Tail(work[p]), ops, r, K) /\ 1 \in 1 .. Len(work[p])
    BY <1>2, <1>6, HeadUnwinds
  <2>2. ASSUME NEW G, Works(p, G) PROVE Fits(scenario, work'[p], res'[p], G)
    BY <1>6, <2>1, <2>2, WorksOn DEF FrameInv
  <2>3. 1 \in 1 .. 1
    OBVIOUS
  <2>4. \A k \in K : \E i \in 1 .. 1 : Do(work[p][i]) = "join" /\ k \in Arg(work[p][i])
    BY <1>2, <1>6, <2>3
  <2>5. \A i \in DOMAIN ops : Do(ops[i]) = "join" =>
          /\ Gathers(ops[i])
          /\ K = {}
          /\ \E j \in 1 .. 1 : Do(work[p][j]) = "join" /\ Arg(ops[i]) \subseteq Arg(work[p][j])
    BY <1>2, <1>6, <2>3
  <2> QED
    BY <1>2, <1>6, <2>1, <2>2, <2>4, <2>5, PromiseStep
<1>7. ASSUME NEW r \in Returned(s, n), NEW K, K \subseteq kids, Covers(K, p, 1),
             Leaves(p, <<>> \o Tail(work[p]), r, K)
      PROVE  PromiseInv'
  <2>1. IsSeq(<<>>) /\ DOMAIN <<>> = {}
    BY SeqLiteral, SeqEmpty
  <2>2. r \in Values /\ \A out \in SUBSET Values : Carries(s, op, {v}, out) => r \in out
    BY <1>5, <1>7 DEF Returned
  <2>3. Replaces(s, op, {v}, <<>>, r)
    BY <2>1, <2>2, ChainNil DEF Replaces
  <2>4. Covers(K \cup JoinedIn(<<>>), p, 1)
    BY <1>7 DEF Covers
  <2> QED
    BY <1>6, <1>7, <2>1, <2>3, <2>4
<1>8. ASSUME NEW k \in kids, work[k] = <<>>
      PROVE  /\ \E c \in DOMAIN f.kids : res[k] \in P[f.kids[c]]
             /\ \A c : Works(k, KidPromise(n, c)) => res[k] \in P[f.kids[c]]
  BY <1>3, <1>8 DEF Gathers, Works, Fits, KidPromise, Promised
<1>9. CASE kids = {} /\ Returns(p, "ok")
  <2>1. \/ f.policy # "QuitOnFailure"
        \/ \A c \in DOMAIN f.kids : P[f.kids[c]] \cap Passes(f.kind) # {}
    BY <1>3, <1>4, <1>9 DEF Gathers, KidPromise, Promised
  <2>2. "ok" \in Returned(s, n)
    BY <1>2, <1>4, <2>1, FramePromise DEF Returned, Values
  <2>3. Covers({}, p, 1)
    BY <1>9 DEF Covers
  <2> QED
    BY <1>7, <1>9, <2>2, <2>3 DEF Returns, Proceeds
<1>10. ASSUME NEW k \in kids, work[k] = <<>>, should_quit(f.policy, res[k]) = "skip",
              Continues(p, <<Op("join", n, kids \ {k})>>)
       PROVE  PromiseInv'
  <2> DEFINE a == Op("join", n, kids \ {k})
  <2>1. Do(a) = "join" /\ On(a) = n /\ Arg(a) = kids \ {k}
    BY DEF Op, Do, On, Arg
  <2>2. Risky(s, a) => Risky(s, op)
    BY <1>2, <2>1 DEF Risky, FrameSteps
  <2>3. ASSUME NEW out \in SUBSET Values, Carries(s, op, {v}, out) PROVE Carries(s, a, {v}, out)
    BY <1>2, <1>4, <1>5, <2>3, CarriesOp
  <2> HIDE DEF a
  <2>4. Gathers(a)
    <3>1. ASSUME f.policy = "QuitOnFailure", NEW c \in DOMAIN f.kids
          PROVE  \/ KidPromise(n, c) \cap Passes("parallel") # {}
                 \/ \E q \in kids \ {k} : Works(q, KidPromise(n, c))
      <4>1. CASE Works(k, KidPromise(n, c))
        <5>1. res[k] \in P[f.kids[c]]
          BY <1>8, <1>10, <4>1
        <5>2. f.kids[c] \in DOMAIN Frames
          BY <1>2, <3>1, FrameFacts
        <5>3. res[k] \in {"ok", "err", "panic"}
          BY <5>1, <5>2, FramePromise DEF Outcomes
        <5>4. res[k] # "err"
          BY <1>10, <3>1 DEF should_quit
        <5>5. res[k] \in Passes("parallel")
          BY <5>3, <5>4 DEF Passes
        <5> QED
          BY <5>1, <5>5 DEF KidPromise, Promised
      <4>2. CASE ~Works(k, KidPromise(n, c))
        BY <1>3, <3>1, <4>2 DEF Gathers
      <4> QED
        BY <4>1, <4>2
    <3> QED
      BY <1>3, <2>1, <3>1 DEF Gathers
  <2>5. IsSeq(<<a>>) /\ DOMAIN <<a>> = {1} /\ <<a>>[1] = a
    <3>1. DOMAIN <<a>> = {1} /\ <<a>>[1] = a
      OBVIOUS
    <3> QED
      BY <3>1, SeqLiteral
  <2>6. {v} \in SUBSET Values
    BY <1>2
  <2>7. Replaces(s, op, {v}, <<a>>, v)
    BY <2>2, <2>3, <2>5, <2>6, ChainStep DEF Replaces
  <2>8. Leaves(p, <<a>> \o Tail(work[p]), v, {})
    BY <1>10 DEF Continues, Proceeds, a
  <2>9. Covers({} \cup JoinedIn(<<a>>), p, 1)
    <3>1. ASSUME NEW q \in kids, work[q] # <<>> PROVE q \in JoinedIn(<<a>>)
      BY <1>10, <2>1, <2>5, <3>1, JoinedHere
    <3> QED
      BY <3>1 DEF Covers
  <2>10. /\ \A i \in DOMAIN <<a>> : Gathers(<<a>>[i]) /\ Arg(<<a>>[i]) \subseteq kids
         /\ \A i, j \in DOMAIN <<a>> : i = j
    BY <2>1, <2>4, <2>5
  <2> QED
    BY <1>6, <2>5, <2>7, <2>8, <2>9, <2>10
<1>11. ASSUME NEW k \in kids, work[k] = <<>>, NEW r, r = should_quit(f.policy, res[k]), r # "skip",
              Leaves(p, Tail(work[p]), r, LiveKids(<<op>>))
       PROVE  PromiseInv'
  <2>1. \/ r = "ok" /\ f.policy # "QuitOnFailure"
        \/ r = "err" /\ f.policy = "QuitOnFailure" /\ res[k] = "err"
    BY <1>11 DEF should_quit
  <2>2. r \in Returned(s, n)
    <3>1. CASE r = "ok" /\ f.policy # "QuitOnFailure"
      <4>1. "ok" \in P[n]
        BY <1>2, <1>4, <3>1, FramePromise
      <4> QED
        BY <3>1, <4>1 DEF Returned, Values
    <3>2. CASE r = "err" /\ f.policy = "QuitOnFailure" /\ res[k] = "err"
      <4>1. \E c \in DOMAIN f.kids : "err" \in P[f.kids[c]]
        BY <1>8, <1>11, <3>2
      <4>2. "err" \in P[n]
        BY <1>2, <1>4, <3>2, <4>1, FramePromise
      <4> QED
        BY <3>2, <4>2 DEF Returned, Values
    <3> QED
      BY <2>1, <3>1, <3>2
  <2>3. Tail(work[p]) = <<>> \o Tail(work[p])
    <3>1. PICK t : t = Tail(work[p])
      OBVIOUS
    <3>2. t \in Seq(Range(t))
      BY <1>2, <3>1, SeqTail DEF FrameInv, Stacks, IsSeq
    <3>3. <<>> \o t = t
      BY <3>2
    <3> QED
      BY <3>1, <3>3
  <2>4. LiveKids(<<op>>) \subseteq kids /\ \A q \in kids : work[q] # <<>> => q \in LiveKids(<<op>>)
    <3>1. PICK ops : ops = <<op>>
      OBVIOUS
    <3>2. DOMAIN ops = {1} /\ ops[1] = op
      BY <3>1
    <3>3. \A q : q \in JoinedIn(ops) <=> q \in kids
      BY <1>2, <3>2, JoinedHere
    <3> QED
      BY <3>1, <3>3 DEF LiveKids
  <2>5. Covers(LiveKids(<<op>>), p, 1)
    BY <2>4 DEF Covers
  <2> QED
    BY <1>7, <1>11, <2>2, <2>3, <2>4, <2>5
<1>12. \/ kids = {} /\ Returns(p, "ok")
       \/ \E k \in kids :
            /\ work[k] = <<>>
            /\ \/ /\ should_quit(f.policy, res[k]) = "skip"
                  /\ Continues(p, <<Op("join", n, kids \ {k})>>)
               \/ /\ should_quit(f.policy, res[k]) # "skip"
                  /\ Leaves(p, Tail(work[p]), should_quit(f.policy, res[k]), LiveKids(<<op>>))
  BY <1>2 DEF Join
<1> QED
  BY <1>9, <1>10, <1>11, <1>12

(* A deadline that passes: the frame fails, as its promise says it may.    *)
LEMMA ElapseKeeps ==
  ASSUME FrameInv, PromiseInv, NEW p \in Procs, Elapse(p)
  PROVE  PromiseInv'
<1>1. PICK i \in DOMAIN work[p] :
        /\ Do(work[p][i]) = "timed"
        /\ Leaves(p, <<EmitOp(<<"OnTimeout">>, Frames[On(work[p][i])].task)>>
                       \o SubSeq(work[p], i + 1, Len(work[p])), "err", AbortedBy(p, i))
  BY DEF Elapse
<1> DEFINE s == scenario
           op == work[p][i]
           a == EmitOp(<<"OnTimeout">>, Frames[On(op)].task)
           rest == SubSeq(work[p], i + 1, Len(work[p]))
           kids == AbortedBy(p, i)
<1>2. /\ IsSeq(work[p]) /\ Len(work[p]) \in Nat /\ i \in 1 .. Len(work[p])
      /\ work[p] # <<>>
  BY <1>1, SeqShape DEF FrameInv, Stacks
<1>3. Cut(p, i, rest)
  <2>1. IsSeq(rest) /\ Len(rest) = Len(work[p]) - i /\ \A j \in 1 .. Len(rest) : rest[j] = work[p][j + i]
    BY <1>2, SeqRest
  <2> HIDE DEF rest
  <2> QED
    BY <1>2, <2>1 DEF Cut
<1>4. AllKnown(<<a>>)
  BY PlainLiteral, PlainOp DEF EmitOp, FrameSteps, Plain, AllKnown
<1>5. ASSUME NEW k
      PROVE  k \in kids <=>
               \E j \in 1 .. i : Do(work[p][j]) = "join" /\ k \in Arg(work[p][j]) /\ work[k] # <<>>
  <2> DEFINE top == SubSeq(work[p], 1, i)
  <2>1. PICK S : work[p] \in Seq(S)
    BY <1>2 DEF IsSeq
  <2>2. DOMAIN top = 1 .. i /\ \A j \in 1 .. i : top[j] = work[p][j]
    BY <1>2, <2>1
  <2> HIDE DEF top
  <2>3. k \in JoinedIn(top) <=> \E j \in 1 .. i : Do(work[p][j]) = "join" /\ k \in Arg(work[p][j])
    <3>1. k \in JoinedIn(top) <=> \E j \in DOMAIN top : Do(top[j]) = "join" /\ k \in Arg(top[j])
      BY JoinedHere
    <3> QED
      BY <2>2, <3>1
  <2> QED
    BY <2>3 DEF AbortedBy, LiveKids, top
<1>6. TameStep(s, op, a)
  BY Announces
<1>7. ASSUME NEW out \in SUBSET Values, Carries(s, op, {}, out) PROVE Carries(s, a, {"err"}, out)
  <2>1. "err" \in out
    BY <1>1, <1>7 DEF Carries
  <2> QED
    BY <2>1, Announces
<1> HIDE DEF a, rest, kids
<1>8. Covers(kids \cup JoinedIn(<<a>>), p, i)
  BY <1>5 DEF Covers
<1>9. Unwinds(p, i, rest, <<a>>, "err", kids)
  BY <1>1, <1>2, <1>3, <1>4, <1>8 DEF Unwinds, Values, a, rest, kids
<1>10. DOMAIN <<a>> = {1} /\ <<a>>[1] = a
  OBVIOUS
<1>11. Replaces(s, op, {}, <<a>>, "err")
  <2>1. IsSeq(<<a>>) /\ {"err"} \in SUBSET Values
    BY SeqLiteral DEF Values
  <2> QED
    BY <1>6, <1>7, <1>10, <2>1, ChainStep DEF Replaces, TameStep
<1>12. ASSUME NEW G, Works(p, G) PROVE Fits(scenario, work'[p], res'[p], G)
  <2>1. PICK in : in = {}
    OBVIOUS
  <2>2. Replaces(scenario, work[p][i], in, <<a>>, "err")
    BY <1>11, <2>1
  <2> QED
    BY <1>2, <1>9, <1>12, <2>1, <2>2, WorksOn DEF FrameInv
<1>13. \A j \in DOMAIN <<a>> : Do(<<a>>[j]) # "join"
  BY <1>6, <1>10 DEF TameStep
<1> QED
  BY <1>2, <1>5, <1>9, <1>12, <1>13, PromiseStep

(* A process that is aborted ends.                                         *)
LEMMA DropKeeps ==
  ASSUME FrameInv, PromiseInv, NEW p \in Procs, Drop(p)
  PROVE  PromiseInv'
<1>1. p \in doomed /\ work[p] # <<>> /\ Leaves(p, <<>>, "dropped", LiveKids(work[p]))
  BY DEF Drop, PromiseInv
<1> QED
  BY <1>1, VanishKeeps

(* What fits a set of ends fits a larger one.                              *)
LEMMA FitsMore ==
  ASSUME NEW s, NEW ops, NEW r, NEW G, Fits(s, ops, r, G), NEW H, G \subseteq H
  PROVE  Fits(s, ops, r, H)
  BY DEF Fits, Chain

(* The body of a spawned child, from its first step.                       *)
LEMMA ChildWorks ==
  ASSUME FrameInv, NEW n \in DOMAIN Frames, NEW c \in DOMAIN Frames[n].kids
  PROVE  Fits(scenario, Child(n, c), "ok", KidPromise(n, c))
<1> DEFINE s == scenario
           kid == Frames[n].kids[c]
           G == KidPromise(n, c)
           op == Exec(kid)
<1>1. G = PromisedBy(s)[kid]
  BY DEF KidPromise, Promised
<1>2. Risky(s, op) <=> "panic" \in G
  BY <1>1 DEF Risky, Exec, Op, Do, On, FrameSteps
<1>3. Tame(s, op, Child(n, c)) /\ Chain(s, Child(n, c), {"ok"}, Returned(s, kid))
  BY <1>1, <1>2, ChildHonours DEF Values
<1>4. Returned(s, kid) \subseteq G
  BY <1>1 DEF Returned
<1>5. Child(n, c) # <<>>
  <2>1. \A x, y, z : <<x, y, z>> # <<>>
    <3> SUFFICES ASSUME NEW x, NEW y, NEW z PROVE <<x, y, z>> # <<>>
      OBVIOUS
    <3>1. DOMAIN <<x, y, z>> # {}
      OBVIOUS
    <3> QED
      BY <3>1, SeqEmpty
  <2> QED
    BY <2>1 DEF Child
<1> HIDE DEF op, G
<1>6. Chain(s, Child(n, c), {"ok"}, G)
  BY <1>3, <1>4 DEF Chain
<1>7. \A i \in DOMAIN Child(n, c) : Risky(s, Child(n, c)[i]) => "panic" \in G
  BY <1>2, <1>3 DEF Tame, TameStep
<1> QED
  BY <1>5, <1>6, <1>7 DEF Fits, G

(* Another first step.                                                     *)
LEMMA HeadReplaced ==
  ASSUME NEW old, IsSeq(old), old # <<>>, NEW a
  PROVE  LET new == <<a>> \o Tail(old)
         IN /\ IsSeq(new) /\ Len(new) = Len(old) /\ DOMAIN new = DOMAIN old
            /\ new # <<>> /\ 1 \in DOMAIN new /\ new[1] = a
            /\ \A i \in DOMAIN old : i # 1 => new[i] = old[i]
<1>1. PICK h, t, new, l :
        h = <<a>> /\ t = Tail(old) /\ new = h \o t /\ l = Len(old)
  OBVIOUS
<1>2. l \in Nat /\ l # 0 /\ DOMAIN old = 1 .. l
  BY <1>1, SeqShape
<1>3. IsSeq(t) /\ Len(t) = l - 1 /\ \A i \in 1 .. Len(t) : t[i] = old[i + 1]
  BY <1>1, SeqTail
<1>4. IsSeq(h) /\ Len(h) = 1 /\ h[1] = a
  BY <1>1, SeqLiteral
<1>5. /\ IsSeq(new) /\ Len(new) = Len(h) + Len(t)
      /\ \A i \in 1 .. Len(h) : new[i] = h[i]
      /\ \A i \in 1 .. Len(t) : new[i + Len(h)] = t[i]
  BY <1>1, <1>3, <1>4, SeqConcat
<1>6. Len(new) = l /\ new[1] = a /\ DOMAIN new = 1 .. l /\ new # <<>>
  BY <1>2, <1>3, <1>4, <1>5, SeqShape
<1>7. ASSUME NEW i \in 1 .. l, i # 1 PROVE new[i] = old[i]
  <2>1. i - 1 \in 1 .. l - 1 /\ (i - 1) + 1 = i
    BY <1>2, <1>7
  <2> QED
    BY <1>3, <1>4, <1>5, <2>1
<1>8. 1 \in 1 .. l
  BY <1>2
<1> QED
  BY <1>1, <1>2, <1>5, <1>6, <1>7, <1>8

(* A collection that spawns its children: each has a process of its own,   *)
(* which nobody else waits for.                                            *)
LEMMA ParallelKeeps ==
  ASSUME FrameInv, FrameInv', PromiseInv, NEW p \in Procs, Parallel(p)
  PROVE  PromiseInv'
<1> DEFINE s == scenario
           P == PromisedBy(s)
           op == work[p][1]
           n == On(op)
           f == Frames[n]
           v == res[p]
           kids == f.kids
           procs == SetToSeq(Idle)
           spawned == {procs[i] : i \in DOMAIN kids}
           a == Op("join", n, spawned)
<1>1. /\ work[p] # <<>> /\ Do(op) = "exec" /\ n \in DOMAIN Frames /\ f = s.frames[n]
      /\ Frame(p) = f /\ f.kind = "parallel" /\ v \in Values
  <2>1. Executes(p, "parallel")
    BY DEF Parallel
  <2> QED
    BY <2>1, FirstStep DEF Executes, Known, FrameSteps, Frame, Frames
<1>2. "panic" \in P[n] => Risky(s, op)
  BY <1>1 DEF Risky, FrameSteps
<1>3. ASSUME NEW out \in SUBSET Values, Carries(s, op, {v}, out)
      PROVE  Returned(s, n) \subseteq out
  BY <1>1, <1>3 DEF Carries, ReturnsOwn
<1>4. Len(kids) \in Nat /\ DOMAIN kids = 1 .. Len(kids)
  BY <1>1, FrameFacts
<1>5. CASE kids = <<>>
  <2>1. Proceeds(p, <<>>, "ok")
    BY <1>1, <1>5 DEF Parallel, Returns
  <2>2. DOMAIN kids = {}
    BY <1>5, SeqEmpty
  <2>3. "ok" \in P[n]
    BY <1>1, <2>2, FramePromise
  <2>4. \A out \in SUBSET Values : Carries(s, op, {v}, out) => "ok" \in out
    BY <1>3, <2>3 DEF Returned, Values
  <2>5. Honours(s, op, {v}, <<>>, "ok")
    BY <2>4, TameLiteral, ChainNil DEF Honours, Values
  <2> QED
    BY <1>1, <2>1, <2>5, ProceedKeeps
<1>6. CASE kids # <<>>
  <2>1. /\ Len(procs) >= Len(kids)
        /\ work' = [q \in Procs |->
             IF q = p THEN <<a>> \o Tail(work[p])
             ELSE IF q \in spawned THEN Child(n, CHOOSE i \in DOMAIN kids : procs[i] = q)
             ELSE work[q]]
        /\ res' = [q \in Procs |-> IF q \in spawned THEN "ok" ELSE res[q]]
        /\ UNCHANGED <<doomed, scenario>>
    BY <1>1, <1>6 DEF Parallel
  <2>2. ASSUME NEW c \in DOMAIN kids
        PROVE  /\ procs[c] \in spawned /\ procs[c] \in Idle
               /\ \A i \in DOMAIN kids : procs[i] = procs[c] => i = c
    <3>1. c \in 1 .. Len(procs) /\ \A i \in DOMAIN kids : i \in 1 .. Len(procs)
      BY <1>4, <2>1, IdleInOrder
    <3> QED
      BY <3>1, IdleInOrder
  <2>3. ASSUME NEW q \in spawned
        PROVE  /\ q \in Procs /\ q # p /\ work[q] = <<>> /\ q \notin doomed
               /\ \A o \in Procs : q \notin JoinedIn(work[o])
    <3>1. q \in Idle
      BY <2>2
    <3> QED
      BY <1>1, <3>1 DEF Idle, PromiseInv
  <2>4. ASSUME NEW c \in DOMAIN kids
        PROVE  work'[procs[c]] = Child(n, c) /\ res'[procs[c]] = "ok"
    <3> DEFINE q == procs[c]
               i == CHOOSE i \in DOMAIN kids : procs[i] = q
    <3>1. i \in DOMAIN kids /\ procs[i] = q
      OBVIOUS
    <3>2. i = c /\ q \in spawned
      BY <2>2, <3>1
    <3>3. q \in Procs /\ q # p
      BY <2>3, <3>2
    <3>4. work'[q] = Child(n, i) /\ res'[q] = "ok"
      BY <2>1, <3>2, <3>3
    <3> QED
      BY <3>2, <3>4
  <2>5. \A q \in spawned : \E c \in DOMAIN kids : q = procs[c]
    OBVIOUS
  <2>6. Do(a) = "join" /\ On(a) = n /\ Arg(a) = spawned
    BY DEF Op, Do, On, Arg
  <2>7. ASSUME NEW out \in SUBSET Values, Carries(s, op, {v}, out) PROVE Carries(s, a, {v}, out)
    BY <1>1, <1>3, <2>7, CarriesOp
  <2> HIDE DEF a, spawned, procs
  <2>8. IsSeq(work[p])
    BY DEF FrameInv, Stacks
  <2>9. /\ work'[p] = <<a>> \o Tail(work[p]) /\ res'[p] = v
        /\ IsSeq(work'[p]) /\ Len(work'[p]) = Len(work[p]) /\ DOMAIN work'[p] = DOMAIN work[p]
        /\ work'[p] # <<>> /\ 1 \in DOMAIN work'[p] /\ work'[p][1] = a
        /\ \A i \in DOMAIN work[p] : i # 1 => work'[p][i] = work[p][i]
    <3>1. work'[p] = <<a>> \o Tail(work[p]) /\ res'[p] = v
      BY <2>1, <2>3
    <3> QED
      BY <1>1, <2>8, <3>1, HeadReplaced
  <2>10. ASSUME NEW q \in Procs, q # p, q \notin spawned PROVE work'[q] = work[q] /\ res'[q] = res[q]
    BY <2>1, <2>10
  <2>11. Replaces(s, op, {v}, <<a>>, v)
    <3>1. IsSeq(<<a>>) /\ \A i \in DOMAIN <<a>> : <<a>>[i] = a
      <4>1. \A i \in DOMAIN <<a>> : <<a>>[i] = a
        OBVIOUS
      <4> QED
        BY <4>1, SeqLiteral
    <3>2. Risky(s, a) => Risky(s, op)
      BY <1>2, <2>6 DEF Risky, FrameSteps
    <3>3. {v} \in SUBSET Values
      BY <1>1
    <3> QED
      BY <2>7, <3>1, <3>2, <3>3, ChainStep DEF Replaces
  <2>12. ASSUME NEW G, Works(p, G) PROVE Fits(s, work'[p], res'[p], G)
    <3>1. PICK old, rest, m, in : old = work[p] /\ rest = Tail(work[p]) /\ m = 1 /\ in = {v}
      OBVIOUS
    <3>2. /\ IsSeq(old) /\ Len(old) \in Nat /\ Len(old) # 0 /\ IsSeq(rest)
          /\ Len(rest) = Len(old) - 1
          /\ \A j \in 1 .. Len(rest) : rest[j] = old[j + 1]
      BY <1>1, <2>8, <3>1, SeqTail, SeqShape
    <3>3. m \in 1 .. Len(old) /\ Len(rest) = Len(old) - m /\ \A j \in 1 .. Len(rest) : rest[j] = old[j + m]
      BY <3>1, <3>2
    <3>4. Fits(s, old, v, G) /\ Replaces(s, old[m], in, <<a>>, v) /\ in = {v}
      BY <2>11, <2>12, <3>1 DEF Works
    <3>5. Fits(s, <<a>> \o rest, v, G)
      BY <3>1, <3>2, <3>3, <3>4, FitsOn
    <3> QED
      BY <2>9, <3>1, <3>5
  <2>13. ASSUME NEW q \in Procs, q \notin spawned, NEW G, Works(q, G)
         PROVE  Fits(s, work'[q], res'[q], G)
    BY <2>10, <2>12, <2>13 DEF Works
  <2>14. ASSUME NEW c \in DOMAIN kids PROVE Fits(s, work'[procs[c]], res'[procs[c]], KidPromise(n, c))
    BY <1>1, <2>4, ChildWorks
  <2>15. ASSUME NEW q \in Procs, NEW i \in DOMAIN work'[q], Do(work'[q][i]) = "join"
         PROVE  \/ q = p /\ i = 1 /\ work'[q][i] = a
                \/ /\ i \in DOMAIN work[q] /\ work'[q][i] = work[q][i]
                   /\ \A k \in Arg(work[q][i]) : k \notin spawned
    <3>1. ASSUME i \in DOMAIN work[q], work'[q][i] = work[q][i]
          PROVE  \A k \in Arg(work[q][i]) : k \notin spawned
      BY <2>3, <2>15, <3>1, JoinedHere
    <3>2. CASE q = p
      BY <2>9, <2>15, <3>1, <3>2
    <3>3. CASE q \in spawned
      <4>1. PICK c \in DOMAIN kids : work'[q] = Child(n, c)
        BY <2>4, <2>5, <3>3
      <4>2. Tame(s, Exec(kids[c]), Child(n, c))
        <5>1. "panic" \in P[kids[c]] => Risky(s, Exec(kids[c]))
          BY DEF Risky, Exec, Op, Do, On, FrameSteps
        <5> QED
          BY <1>1, <5>1, ChildHonours
      <4> QED
        BY <2>15, <4>1, <4>2 DEF Tame, TameStep
    <3>4. CASE q # p /\ q \notin spawned
      BY <2>10, <2>15, <3>1, <3>4
    <3> QED
      BY <3>2, <3>3, <3>4
  <2>16. Frames' = Frames /\ Promised' = Promised /\ Values' = Values
    BY <2>1 DEF Frames, Promised, Values
  <2>17. \A m, c : KidPromise(m, c)' = KidPromise(m, c)
    BY <2>16 DEF KidPromise
  <2>18. ASSUME NEW b, b = a PROVE Gathers(b)'
    <3>1. PICK m, K, Q : m = n /\ K = spawned /\ Q = procs
      OBVIOUS
    <3>2. On(b) = m /\ Arg(b) = K /\ Frames'[m] = Frames[m]
      BY <2>6, <2>16, <2>18, <3>1
    <3>3. ASSUME NEW c \in DOMAIN Frames[m].kids
          PROVE  Q[c] \in K /\ Works(Q[c], KidPromise(m, c))'
      <4>1. Q[c] \in K /\ Fits(s, work'[Q[c]], res'[Q[c]], KidPromise(m, c))
        BY <2>2, <2>14, <3>1, <3>3
      <4> QED
        BY <2>1, <2>17, <4>1 DEF Works
    <3>4. \A k \in K : k \in Procs \ doomed' /\ \E c \in DOMAIN Frames[m].kids : k = Q[c]
      BY <2>1, <2>3, <2>5, <3>1
    <3> QED
      BY <3>2, <3>3, <3>4 DEF Gathers
  <2>19. ASSUME NEW q \in Procs, NEW i \in DOMAIN work'[q], Do(work'[q][i]) = "join"
         PROVE  Gathers(work[q][i])'
    <3>1. PICK b : b = work'[q][i]
      OBVIOUS
    <3>2. ASSUME i \in DOMAIN work[q], b = work[q][i], \A k \in Arg(b) : k \notin spawned
          PROVE  Gathers(b)'
      <4>1. Gathers(b)
        BY <2>19, <3>1, <3>2 DEF PromiseInv
      <4>2. \A k \in Arg(b) : k \in Procs /\ k \notin doomed'
        BY <2>1, <4>1 DEF Gathers
      <4>3. \A k \in Arg(b) : \A G : Works(k, G) => Fits(scenario, work'[k], res'[k], G)
        BY <2>13, <3>2, <4>2
      <4> QED
        BY <2>1, <4>1, <4>2, <4>3, GathersStay
    <3>3. Gathers(b)'
      BY <2>15, <2>18, <2>19, <3>1, <3>2
    <3> QED
      BY <3>1, <3>3 DEF Gathers
  <2>20. ASSUME NEW q \in Procs, NEW o \in Procs,
                NEW i \in DOMAIN work'[q], NEW j \in DOMAIN work'[o],
                Do(work'[q][i]) = "join", Do(work'[o][j]) = "join",
                Arg(work'[q][i]) \cap Arg(work'[o][j]) # {}
         PROVE  q = o /\ i = j
    <3> DEFINE Old(x, l) ==
                 /\ l \in DOMAIN work[x] /\ work'[x][l] = work[x][l]
                 /\ \A k \in Arg(work[x][l]) : k \notin spawned
               New(x, l) == x = p /\ l = 1 /\ work'[x][l] = a
    <3>1. (New(q, i) \/ Old(q, i)) /\ (New(o, j) \/ Old(o, j))
      BY <2>15, <2>20
    <3>2. CASE Old(q, i) /\ Old(o, j)
      <4>1. /\ i \in DOMAIN work[q] /\ work'[q][i] = work[q][i]
            /\ j \in DOMAIN work[o] /\ work'[o][j] = work[o][j]
        BY <3>2
      <4>2. /\ Do(work[q][i]) = "join" /\ Do(work[o][j]) = "join"
            /\ Arg(work[q][i]) \cap Arg(work[o][j]) # {}
        BY <2>20, <4>1
      <4> QED
        BY <4>1, <4>2 DEF PromiseInv
    <3>3. CASE New(q, i) /\ New(o, j)
      BY <3>3
    <3>4. CASE New(q, i) /\ Old(o, j)
      BY <2>6, <2>20, <3>4
    <3>5. CASE Old(q, i) /\ New(o, j)
      BY <2>6, <2>20, <3>5
    <3> QED
      BY <3>1, <3>2, <3>3, <3>4, <3>5
  <2>21. ASSUME NEW q \in Procs, work'[q] # <<>> PROVE Works(q, Values \cup {"panic"})'
    <3>1. Fits(scenario, work'[q], res'[q], Values \cup {"panic"})
      <4>1. CASE q \in spawned
        <5>1. PICK c \in DOMAIN kids : q = procs[c]
          BY <2>5, <4>1
        <5>2. KidPromise(n, c) \subseteq Values \cup {"panic"}
          BY <1>1, FrameFacts, FramePromise DEF KidPromise, Promised, Outcomes, Values
        <5>3. PICK G : G = KidPromise(n, c)
          OBVIOUS
        <5>4. Fits(s, work'[q], res'[q], G)
          BY <2>14, <5>1, <5>3
        <5> QED
          BY <5>2, <5>3, <5>4, FitsMore
      <4>2. CASE q \notin spawned
        <5>1. work[q] # <<>>
          BY <1>1, <2>10, <2>21, <4>2
        <5>2. Works(q, Values \cup {"panic"})
          BY <5>1 DEF PromiseInv
        <5> QED
          BY <2>13, <4>2, <5>2
      <4> QED
        BY <4>1, <4>2
    <3> QED
      BY <2>1, <2>16, <3>1 DEF Works
  <2>22. doomed' \subseteq {q \in Procs : work'[q] # <<>>}
    <3>1. ASSUME NEW q \in doomed PROVE q \in Procs /\ work'[q] # <<>>
      BY <2>3, <2>9, <2>10, <3>1 DEF PromiseInv
    <3> QED
      BY <2>1, <3>1
  <2> QED
    BY <2>19, <2>20, <2>21, <2>22 DEF PromiseInv
<1> QED
  BY <1>5, <1>6

(* Initially each client has its program before it, and nobody is joined.  *)
LEMMA PromiseInit == Init => PromiseInv
<1> SUFFICES ASSUME Init PROVE PromiseInv
  OBVIOUS
<1>1. /\ scenario \in Scenarios /\ doomed = {}
      /\ work = [p \in Procs |-> IF p \in Clients THEN scenario.clients[p] ELSE <<>>]
      /\ res = [p \in Procs |-> "ok"]
  BY DEF Init
<1>2. ASSUME NEW p \in Procs, work[p] # <<>> PROVE ProperProgram(scenario, work[p])
  BY <1>1, <1>2, ScenarioAssumption DEF Clients
<1>3. ASSUME NEW p \in Procs, work[p] # <<>> PROVE Works(p, Values \cup {"panic"})
  <2>1. PICK s, ops : s = scenario /\ ops = work[p]
    OBVIOUS
  <2>2. IsSeq(ops)
    BY <1>2, <1>3, <2>1 DEF ProperProgram
  <2>3. ASSUME NEW i \in DOMAIN ops PROVE Carries(s, ops[i], Values, Values)
    <3>1. /\ Do(ops[i]) \in Offered
          /\ Do(ops[i]) \in {"attach", "detach"} => IsSeq(Arg(ops[i]).event)
      BY <1>2, <1>3, <2>1, <2>3 DEF ProperProgram
    <3> HIDE DEF Do, On, Arg
    <3> QED
      BY <3>1 DEF Carries, Offered, HandsOn, Passive, ReturnsOwn
  <2>4. Values \in SUBSET Values /\ Values \subseteq Values \cup {"panic"}
    OBVIOUS
  <2>5. Chain(s, ops, Values, Values \cup {"panic"})
    BY <2>2, <2>3, <2>4, ChainSteady
  <2>6. Chain(s, ops, {"ok"}, Values \cup {"panic"})
    <3>1. {"ok"} \subseteq Values
      BY DEF Values
    <3> QED
      BY <2>5, <3>1 DEF Chain
  <2> QED
    BY <1>1, <1>3, <2>1, <2>6 DEF Works, Fits
<1>4. ASSUME NEW p \in Procs, NEW i \in DOMAIN work[p] PROVE Do(work[p][i]) # "join"
  <2>1. work[p] # <<>>
    BY <1>4, SeqEmpty
  <2> QED
    BY <1>2, <1>4, <2>1 DEF ProperProgram, Offered
<1> QED
  BY <1>1, <1>3, <1>4 DEF PromiseInv

(* Every step of every process, and every deadline, where a counter that   *)
(* wraps does not panic.                                                   *)
LEMMA PromiseNext ==
  ASSUME ~OverflowChecks
  PROVE  FrameInv /\ Registry /\ PromiseInv /\ [Next]_vars => PromiseInv'
<1> SUFFICES ASSUME FrameInv, Registry, PromiseInv, [Next]_vars PROVE PromiseInv'
  OBVIOUS
<1>1. FrameInv'
  BY FrameNext
<1>2. ASSUME UNCHANGED vars PROVE PromiseInv'
  <2>1. UNCHANGED <<scenario, work, res, doomed>>
    BY <1>2 DEF vars
  <2>2. ASSUME NEW q \in Procs, work[q] # <<>> PROVE Works(q, Values \cup {"panic"})'
    <3>1. Works(q, Values \cup {"panic"})
      BY <2>2 DEF PromiseInv
    <3> QED
      BY <2>1, <3>1 DEF Works, Values
  <2>3. ASSUME NEW op, Gathers(op) PROVE Gathers(op)'
    <3>1. \A k \in Arg(op) : k \notin doomed'
      BY <2>1, <2>3 DEF Gathers
    <3>2. \A k : \A G : Works(k, G) => Fits(scenario, work'[k], res'[k], G)
      BY <2>1 DEF Works
    <3> QED
      BY <2>1, <2>3, <3>1, <3>2, GathersStay
  <2>4. ASSUME NEW q \in Procs, NEW i \in DOMAIN work[q], Do(work[q][i]) = "join"
        PROVE  Gathers(work[q][i])'
    <3>1. PICK op : op = work[q][i]
      OBVIOUS
    <3>2. Gathers(op)'
      BY <2>3, <2>4, <3>1 DEF PromiseInv
    <3>3. op = work'[q][i]
      BY <2>1, <3>1
    <3> QED
      BY <3>2, <3>3 DEF Gathers
  <2>5. /\ \A q \in Procs : work'[q] # <<>> => Works(q, Values \cup {"panic"})'
        /\ \A q \in Procs : \A i \in DOMAIN work'[q] :
             Do(work'[q][i]) = "join" => Gathers(work[q][i])'
    BY <2>1, <2>2, <2>4
  <2>6. /\ doomed' \subseteq {q \in Procs : work'[q] # <<>>}
        /\ \A q, o \in Procs : \A i \in DOMAIN work'[q], j \in DOMAIN work'[o] :
             /\ Do(work'[q][i]) = "join" /\ Do(work'[o][j]) = "join"
             /\ Arg(work'[q][i]) \cap Arg(work'[o][j]) # {}
             => q = o /\ i = j
    BY <2>1 DEF PromiseInv
  <2> QED
    BY <2>5, <2>6 DEF PromiseInv
<1>3. ASSUME NEW p \in Procs, Drop(p) PROVE PromiseInv'
  BY <1>3, DropKeeps
<1>4. ASSUME NEW p \in Procs, FrameStep(p) PROVE PromiseInv'
  BY <1>1, <1>4, ExecuteKeeps, ResumeKeeps, ThresholdKeeps, ParallelKeeps, JoinKeeps
  DEF FrameStep
<1>5. ASSUME NEW p \in Procs, HookStep(p) PROVE PromiseInv'
  BY <1>1, <1>5, HookKeeps
<1>6. ASSUME NEW p \in Procs, Elapse(p) PROVE PromiseInv'
  BY <1>6, ElapseKeeps
<1> QED
  BY <1>2, <1>3, <1>4, <1>5, <1>6 DEF Next, Step

(* A process that announces the end of a run holds one of its promises.    *)
LEMMA PromiseKept == FrameInv /\ PromiseInv => ResultIsPromised
<1> SUFFICES ASSUME FrameInv, PromiseInv, NEW p \in Procs,
                    At(p, "emit"), Arg(work[p][1]) = OnTaskEnd
             PROVE  res[p] \in Promised[scenario.root[On(work[p][1])]]
  BY DEF ResultIsPromised
<1>1. work[p] # <<>> /\ Do(work[p][1]) = "emit"
  BY FirstStep
<1>2. PICK X : Carries(scenario, work[p][1], {res[p]}, X)
  BY <1>1, HeadCarries
<1> QED
  BY <1>1, <1>2 DEF Carries, Promised

-----------------------------------------------------------------------------
(* A run ends with a result that its workflow promises, in a build without *)
(* overflow checks: no frame loses an error that it must hand on or makes  *)
(* one up, whatever is retried, times out, is aborted or panics (task.rs,  *)
(* run, over the frames of task/frames).                                   *)
THEOREM RunsReturnAsPromised == ~OverflowChecks => (Spec => []ResultIsPromised)
<1> SUFFICES ASSUME ~OverflowChecks PROVE Spec => []ResultIsPromised
  OBVIOUS
<1>1. Init => PromiseInv
  BY PromiseInit
<1>2. FrameInv /\ Registry /\ PromiseInv /\ [Next]_vars => PromiseInv'
  BY PromiseNext
<1> QED
  BY <1>1, <1>2, PromiseKept, Invariants, PTL DEF Spec

-----------------------------------------------------------------------------
(***************************************************************************)
(* Dependencies.  A step of a client; one that leads to a call of a        *)
(* monitor; a step of a call, and of the call of a monitor.                *)
(***************************************************************************)
Asked(op) == Do(op) \in Offered
Leads(op) == Do(op) \in {"run", "depend"} \/ (Do(op) = "emit" /\ Arg(op) = OnTaskEnd)
Calling(op) == Do(op) \in {"deliver", "store"}
OfMonitor(op) == Do(op) = "store" \/ (Do(op) = "deliver" /\ Arg(op).dep # 0)

\* Two steps that make the same dependency, or call the same monitor.
Twins(a, b) ==
    \/ Do(a) = "depend" /\ Do(b) = "depend" /\ On(a) = On(b)
    \/ Do(a) = "deliver" /\ Do(b) = "deliver" /\ Arg(a).dep = Arg(b).dep /\ Arg(a).dep # 0

\* Step a may stand above step b: the calls of an emission come first and are
\* for the same runs as what is below them.
MayTop(a, b) ==
    /\ Leads(a) => Asked(b)
    /\ OfMonitor(a) => Asked(b) \/ Calling(b)
    /\ OfMonitor(b) => Calling(a)
    /\ ~Twins(a, b)

\* A step in its place: only clients run tasks and call monitors, and no
\* client is joined; the runs that end are those of the scenario's tasks.
Placed(s, q, op) ==
    /\ Leads(op) \/ OfMonitor(op) => q \in DOMAIN s.clients
    /\ Do(op) = "deliver" /\ Arg(op).dep # 0 =>
        Arg(op).dep \in DOMAIN s.deps /\ Arg(op).type = s.deps[Arg(op).dep].kind
    /\ Do(op) = "depend" => On(op) \in DOMAIN s.deps
    /\ Do(op) = "emit" /\ Arg(op) = OnTaskEnd => On(op) \in DOMAIN s.root
    /\ Do(op) = "join" => Arg(op) \cap DOMAIN s.clients = {}
    /\ Do(op) \in {"attach", "detach"} => IsSeq(Arg(op).event)

Orderly(s, q, ops) ==
    /\ \A i \in DOMAIN ops : Placed(s, q, ops[i])
    /\ \A i, j \in DOMAIN ops : i < j => MayTop(ops[i], ops[j])

\* What a hook says of itself if it is the monitor of a dependency.
FitsIn(s, h, event, task) ==
    h.dep # 0 =>
        /\ h.dep \in DOMAIN s.deps /\ h.type = s.deps[h.dep].kind
        /\ event = OnTaskEnd /\ task = s.deps[h.dep].task

OrderInv ==
    /\ \A p \in Procs : Orderly(scenario, p, work[p])
    /\ doomed \cap Clients = {}
    /\ \A event, task : \A h \in Range(Filed(event, task)) : FitsIn(scenario, h, event, task)

\* q is about to take one from d's counter, to raise d's flag, to make d.
Owes(q, d) ==
    \E i \in DOMAIN work[q] :
        /\ Do(work[q][i]) = "deliver" /\ Arg(work[q][i]).dep = d
        /\ Counts(Arg(work[q][i]).type, res[q])
Stores(q, d) == \E i \in DOMAIN work[q] : Do(work[q][i]) = "store" /\ On(work[q][i]) = d
Makes(q, d) == \E i \in DOMAIN work[q] : Do(work[q][i]) = "depend" /\ On(work[q][i]) = d

Owing(d) == {q \in Procs : Owes(q, d)}

Fresh(d) == ended[d] = 0 /\ d \notin flag /\ Monitors(d) = {} /\ Settled(d)

\* d is the dependency attached last of its kind on its task, from which nobody
\* has detached a hook.
Watched(d) ==
    /\ Untouched(OnTaskEnd, scenario.deps[d].task)
    /\ Monitors(d) # {}
    /\ Monitors(d) \subseteq NewestOfEachType(Filed(OnTaskEnd, scenario.deps[d].task))

\* The counter has seen the runs that ended, those excepted whose call of the
\* monitor is still to come, and the flag is raised when it has seen enough.
Exact(d) ==
    LET seen == ended[d] - Cardinality(Owing(d))
        value == scenario.deps[d].value
    IN /\ seen >= 0
       /\ seen < value =>
            countdown[d] = value - seen /\ d \notin flag /\ \A q \in Procs : ~Stores(q, d)
       /\ seen >= value => d \in flag \/ \E q \in Procs : Stores(q, d)

KeepsCount(d) ==
    /\ \A p \in Procs : Makes(p, d) => Fresh(d) /\ \A q \in Procs : Makes(q, d) => q = p
    /\ Watched(d) => Exact(d)

CountInv ==
    /\ countdown \in [DOMAIN scenario.deps -> Int]
    /\ ended \in [DOMAIN scenario.deps -> Nat]
    /\ \A d \in DOMAIN scenario.deps : KeepsCount(d)

\* The leaves run no task themselves.
LeavesRunNothing ==
    \A s \in Scenarios : \A n \in DOMAIN s.frames :
        s.frames[n].kind = "leaf" => ~Runs(s.frames[n])

-----------------------------------------------------------------------------
(***************************************************************************)
(* Steps that have nothing to do with monitors.                            *)
(***************************************************************************)
\* A step that has nothing to do with monitors and joins no client.
Loose(s, op) ==
    /\ ~Leads(op) /\ ~OfMonitor(op)
    /\ Do(op) = "join" => Arg(op) \cap DOMAIN s.clients = {}
    /\ Do(op) \in {"attach", "detach"} => IsSeq(Arg(op).event)
LooseSeq(s, ops) == IsSeq(ops) /\ \A i \in DOMAIN ops : Loose(s, ops[i])

(* Where the steps of a concatenation come from.                           *)
LEMMA ConcatFrom ==
  ASSUME NEW f, NEW g, IsSeq(f), IsSeq(g), NEW i \in DOMAIN (f \o g)
  PROVE  \/ i \in DOMAIN f /\ (f \o g)[i] = f[i]
         \/ \E j \in DOMAIN g : i = j + Len(f) /\ (f \o g)[i] = g[j]
<1>1. /\ IsSeq(f \o g) /\ Len(f) \in Nat /\ Len(g) \in Nat /\ Len(f \o g) = Len(f) + Len(g)
      /\ DOMAIN f = 1 .. Len(f) /\ DOMAIN g = 1 .. Len(g)
      /\ DOMAIN (f \o g) = 1 .. Len(f \o g)
  BY SeqConcat, SeqShape
<1>2. CASE i <= Len(f)
  <2>1. i \in 1 .. Len(f)
    BY <1>1, <1>2
  <2> QED
    BY <1>1, <2>1, SeqConcat
<1>3. CASE i > Len(f)
  <2>1. PICK j \in 1 .. Len(g) : i = j + Len(f)
    <3>1. i - Len(f) \in 1 .. Len(g) /\ i = (i - Len(f)) + Len(f)
      BY <1>1, <1>3
    <3> QED
      BY <3>1
  <2>2. (f \o g)[i] = g[j]
    BY <2>1, SeqConcat
  <2> QED
    BY <1>1, <2>1, <2>2
<1> QED
  BY <1>1, <1>2, <1>3

(* Orderly steps on top of what is left of an orderly stack.               *)
LEMMA OrderlyOn ==
  ASSUME NEW s, NEW q, NEW S, NEW m, NEW rest, NEW ops,
         IsSeq(S), IsSeq(ops), IsSeq(rest), m \in 0 .. Len(S), Len(rest) = Len(S) - m,
         \A j \in 1 .. Len(rest) : rest[j] = S[j + m],
         Orderly(s, q, S), Orderly(s, q, ops),
         \A i \in DOMAIN ops, j \in DOMAIN rest : MayTop(ops[i], rest[j])
  PROVE  Orderly(s, q, ops \o rest)
<1>1. /\ Len(S) \in Nat /\ DOMAIN S = 1 .. Len(S) /\ DOMAIN rest = 1 .. Len(rest)
      /\ Len(ops) \in Nat /\ DOMAIN ops = 1 .. Len(ops)
  BY SeqShape
<1>2. ASSUME NEW j \in DOMAIN rest PROVE j + m \in DOMAIN S /\ rest[j] = S[j + m]
  BY <1>1
<1>3. ASSUME NEW i \in DOMAIN (ops \o rest) PROVE Placed(s, q, (ops \o rest)[i])
  BY <1>2, ConcatFrom DEF Orderly
<1>4. ASSUME NEW i \in DOMAIN (ops \o rest), NEW j \in DOMAIN (ops \o rest), i < j
      PROVE  MayTop((ops \o rest)[i], (ops \o rest)[j])
  <2>1. CASE j \in DOMAIN ops /\ (ops \o rest)[j] = ops[j]
    <3>1. i \in DOMAIN ops /\ (ops \o rest)[i] = ops[i]
      <4>1. ~ \E k \in DOMAIN rest : i = k + Len(ops)
        BY <1>1, <1>4, <2>1
      <4> QED
        BY <4>1, ConcatFrom
    <3> QED
      BY <1>4, <2>1, <3>1 DEF Orderly
  <2>2. CASE \E k \in DOMAIN rest : j = k + Len(ops) /\ (ops \o rest)[j] = rest[k]
    <3>1. PICK k \in DOMAIN rest : j = k + Len(ops) /\ (ops \o rest)[j] = rest[k]
      BY <2>2
    <3>2. CASE i \in DOMAIN ops /\ (ops \o rest)[i] = ops[i]
      BY <3>1, <3>2
    <3>3. CASE \E l \in DOMAIN rest : i = l + Len(ops) /\ (ops \o rest)[i] = rest[l]
      <4>1. PICK l \in DOMAIN rest : i = l + Len(ops) /\ (ops \o rest)[i] = rest[l]
        BY <3>3
      <4>2. l + m < k + m
        BY <1>1, <1>4, <3>1, <4>1
      <4>3. MayTop(S[l + m], S[k + m])
        BY <1>2, <4>2 DEF Orderly
      <4> QED
        BY <1>2, <3>1, <4>1, <4>3
    <3> QED
      BY <3>2, <3>3, ConcatFrom
  <2> QED
    BY <2>1, <2>2, ConcatFrom
<1> QED
  BY <1>3, <1>4 DEF Orderly

(* Loose steps are orderly, and so on top of a stack without calls.        *)
LEMMA LooseOrderly ==
  ASSUME NEW s, NEW q, NEW ops, LooseSeq(s, ops)
  PROVE  /\ Orderly(s, q, ops)
         /\ \A i \in DOMAIN ops : \A b : ~OfMonitor(b) => MayTop(ops[i], b)
<1>1. ASSUME NEW i \in DOMAIN ops, NEW b, ~OfMonitor(b) PROVE MayTop(ops[i], b)
  BY <1>1 DEF LooseSeq, Loose, MayTop, Leads, OfMonitor, Twins
<1>2. \A i \in DOMAIN ops : Placed(s, q, ops[i])
  BY DEF LooseSeq, Loose, Placed, Leads, OfMonitor
<1> QED
  BY <1>1, <1>2 DEF Orderly, LooseSeq, Loose

(* Stretches of loose steps.                                               *)
LEMMA LooseLiteral ==
  ASSUME NEW s
  PROVE  /\ LooseSeq(s, <<>>)
         /\ \A a : Loose(s, a) => LooseSeq(s, <<a>>)
         /\ \A a, b : Loose(s, a) /\ Loose(s, b) => LooseSeq(s, <<a, b>>)
         /\ \A a, b, c : Loose(s, a) /\ Loose(s, b) /\ Loose(s, c) => LooseSeq(s, <<a, b, c>>)
         /\ \A a, b, c, d : Loose(s, a) /\ Loose(s, b) /\ Loose(s, c) /\ Loose(s, d)
                              => LooseSeq(s, <<a, b, c, d>>)
<1>1. LooseSeq(s, <<>>)
  BY SeqEmpty DEF LooseSeq
<1>2. ASSUME NEW a, Loose(s, a) PROVE LooseSeq(s, <<a>>)
  <2>1. \A i \in DOMAIN <<a>> : <<a>>[i] \in {a}
    OBVIOUS
  <2> QED
    BY <1>2, <2>1, SeqLiteral DEF LooseSeq
<1>3. ASSUME NEW a, NEW b, Loose(s, a), Loose(s, b) PROVE LooseSeq(s, <<a, b>>)
  <2>1. \A i \in DOMAIN <<a, b>> : <<a, b>>[i] \in {a, b}
    OBVIOUS
  <2> QED
    BY <1>3, <2>1, SeqLiteral DEF LooseSeq
<1>4. ASSUME NEW a, NEW b, NEW c, Loose(s, a), Loose(s, b), Loose(s, c)
      PROVE  LooseSeq(s, <<a, b, c>>)
  <2>1. \A i \in DOMAIN <<a, b, c>> : <<a, b, c>>[i] \in {a, b, c}
    OBVIOUS
  <2> QED
    BY <1>4, <2>1, SeqLiteral DEF LooseSeq
<1>5. ASSUME NEW a, NEW b, NEW c, NEW d, Loose(s, a), Loose(s, b), Loose(s, c), Loose(s, d)
      PROVE  LooseSeq(s, <<a, b, c, d>>)
  <2>1. \A i \in DOMAIN <<a, b, c, d>> : <<a, b, c, d>>[i] \in {a, b, c, d}
    OBVIOUS
  <2> QED
    BY <1>5, <2>1, SeqLiteral DEF LooseSeq
<1> QED
  BY <1>1, <1>2, <1>3, <1>4, <1>5

(* One such stretch after the other.                                       *)
LEMMA LooseConcat ==
  ASSUME NEW s, NEW f, NEW g, LooseSeq(s, f), LooseSeq(s, g)
  PROVE  LooseSeq(s, f \o g)
<1>1. IsSeq(f) /\ IsSeq(g) /\ IsSeq(f \o g)
  BY SeqConcat DEF LooseSeq
<1>2. \A i \in DOMAIN (f \o g) : Loose(s, (f \o g)[i])
  BY <1>1, ConcatFrom DEF LooseSeq
<1> QED
  BY <1>1, <1>2 DEF LooseSeq

(* Steps that have nothing to do with monitors.                            *)
LEMMA LooseOp ==
  ASSUME NEW s, NEW do, NEW on, NEW arg
  PROVE  /\ do \notin {"run", "depend", "emit", "store", "deliver", "join", "attach", "detach"}
              => Loose(s, Op(do, on, arg))
         /\ do = "emit" /\ arg # OnTaskEnd => Loose(s, Op(do, on, arg))
         /\ do = "deliver" /\ arg.dep = 0 => Loose(s, Op(do, on, arg))
         /\ do = "join" /\ arg \cap DOMAIN s.clients = {} => Loose(s, Op(do, on, arg))
<1>1. Do(Op(do, on, arg)) = do /\ On(Op(do, on, arg)) = on /\ Arg(Op(do, on, arg)) = arg
  BY DEF Op, Do, On, Arg
<1> HIDE DEF Op, Do, On, Arg
<1> QED
  BY <1>1 DEF Loose, Leads, OfMonitor

(* What is announced of a frame is never the end of a run.                 *)
LEMMA LooseEmit ==
  ASSUME NEW s
  PROVE  /\ \A x, task : x # "OnTaskEnd" => Loose(s, EmitOp(<<x>>, task))
         /\ \A x, event, task : x # "OnTaskEnd" /\ IsSeq(event)
              => Loose(s, EmitOp(<<x>> \o event, task))
<1>1. ASSUME NEW x, NEW task, x # "OnTaskEnd" PROVE Loose(s, EmitOp(<<x>>, task))
  <2>1. <<x>> # OnTaskEnd
    BY <1>1 DEF OnTaskEnd
  <2> QED
    BY <2>1, LooseOp DEF EmitOp
<1>2. ASSUME NEW x, NEW event, NEW task, x # "OnTaskEnd", IsSeq(event)
      PROVE  Loose(s, EmitOp(<<x>> \o event, task))
  <2>1. PICK h, g : h = <<x>> /\ g = h \o event
    OBVIOUS
  <2>2. IsSeq(h) /\ Len(h) = 1 /\ h[1] = x
    BY <2>1, SeqLiteral
  <2>3. 1 \in 1 .. Len(h)
    BY <2>2
  <2>4. g[1] = x
    BY <1>2, <2>1, <2>2, <2>3, SeqConcat
  <2>5. g # OnTaskEnd
    BY <1>2, <2>4 DEF OnTaskEnd
  <2>6. Loose(s, EmitOp(g, task))
    BY <2>5, LooseOp DEF EmitOp
  <2> QED
    BY <2>1, <2>6
<1> QED
  BY <1>1, <1>2

-----------------------------------------------------------------------------
(***************************************************************************)
(* What a step leaves of the order and the counts.                         *)
(***************************************************************************)
(* The dependencies of a scenario.                                         *)
LEMMA DependencyFacts ==
  ASSUME FrameInv, NEW d \in DOMAIN scenario.deps
  PROVE  /\ scenario.deps[d].kind \in {"runs", "successful_runs", "failed_runs"}
         /\ \E v \in Nat : scenario.deps[d].value = v /\ 0 < v /\ v < 65536
<1>1. ProperDependency(scenario.deps[d])
  BY ScenarioAssumption DEF FrameInv, ProperDependencies
<1>2. PICK dep : dep = scenario.deps[d]
  OBVIOUS
<1>3. /\ dep.kind \in {"runs", "successful_runs", "failed_runs"}
      /\ dep.value \in Nat /\ 0 < dep.value /\ dep.value < 65536
  BY <1>1, <1>2 DEF ProperDependency
<1> QED
  BY <1>2, <1>3

(* No dependency has the name of none.                                     *)
LEMMA DependenciesNamed ==
  ASSUME FrameInv
  PROVE  \A d \in DOMAIN scenario.deps : d # 0
<1>1. 0 \notin DOMAIN scenario.deps
  BY ScenarioAssumption DEF FrameInv, ProperDependencies
<1> QED
  BY <1>1, Zenon

\* The registry keeps its monitors, and none that was covered comes to light.
Refiled ==
    /\ \A event, task : \A h \in Range(Filed(event, task)') : FitsIn(scenario, h, event, task)
    /\ \A d \in DOMAIN scenario.deps :
        /\ (\E q \in Procs : Makes(q, d)') /\ Monitors(d) = {} => Monitors(d)' = {}
        /\ Watched(d)' => Watched(d)

(* The order of the stacks, when process p alone goes on.                  *)
LEMMA OrderStep ==
  ASSUME FrameInv, OrderInv, NEW p \in Procs, NEW m, NEW rest, NEW ops, NEW r, NEW kids,
         IsSeq(ops), Cut(p, m, rest), Leaves(p, ops \o rest, r, kids), kids \cap Clients = {},
         Orderly(scenario, p, ops),
         \A i \in DOMAIN ops, j \in DOMAIN rest : MayTop(ops[i], rest[j]),
         \A event, task : \A h \in Range(Filed(event, task)') : FitsIn(scenario, h, event, task)
  PROVE  OrderInv'
<1>1. work' = [work EXCEPT ![p] = ops \o rest] /\ UNCHANGED scenario
  BY DEF Leaves
<1>2. work'[p] = ops \o rest /\ \A q \in Procs : q # p => work'[q] = work[q]
  BY <1>1 DEF FrameInv, Stacks
<1>3. IsSeq(work[p]) /\ Orderly(scenario, p, work[p])
  BY DEF FrameInv, Stacks, OrderInv
<1>4. Orderly(scenario, p, ops \o rest)
  <2>1. PICK S : S = work[p]
    OBVIOUS
  <2>2. /\ IsSeq(S) /\ IsSeq(rest) /\ m \in 0 .. Len(S) /\ Len(rest) = Len(S) - m
        /\ \A j \in 1 .. Len(rest) : rest[j] = S[j + m]
        /\ Orderly(scenario, p, S)
    BY <1>3, <2>1 DEF Cut
  <2> QED
    BY <2>2, OrderlyOn
<1>5. \A q \in Procs : Orderly(scenario', q, work'[q])
  BY <1>1, <1>2, <1>4 DEF OrderInv
<1>6. doomed' \cap Clients' = {}
  BY <1>1 DEF Leaves, Doom, OrderInv, Clients
<1>7. \A event, task : \A h \in Range(Filed(event, task)') : FitsIn(scenario', h, event, task)
  BY <1>1
<1> QED
  BY <1>5, <1>6, <1>7 DEF OrderInv, Orderly, FitsIn

(* The count of a dependency that a step does not touch.                   *)
LEMMA CountStays ==
  ASSUME UNCHANGED scenario, NEW d \in DOMAIN scenario.deps, KeepsCount(d),
         countdown'[d] = countdown[d], ended'[d] = ended[d], d \in flag' <=> d \in flag,
         \A q \in Procs :
            /\ Owes(q, d)' <=> Owes(q, d)
            /\ Stores(q, d)' <=> Stores(q, d)
            /\ Makes(q, d)' => Makes(q, d),
         Settled(d) => Settled(d)',
         (\E q \in Procs : Makes(q, d)') /\ Monitors(d) = {} => Monitors(d)' = {},
         Watched(d)' => Watched(d)
  PROVE  KeepsCount(d)'
<1>1. ASSUME NEW p \in Procs, Makes(p, d)'
      PROVE  Fresh(d)' /\ \A q \in Procs : Makes(q, d)' => q = p
  <2>1. Makes(p, d)
    BY <1>1
  <2>2. Fresh(d) /\ \A q \in Procs : Makes(q, d) => q = p
    BY <2>1 DEF KeepsCount
  <2>3. Monitors(d)' = {}
    BY <1>1, <2>2 DEF Fresh
  <2> QED
    BY <2>2, <2>3 DEF Fresh
<1>2. ASSUME Watched(d)' PROVE Exact(d)'
  <2>1. Exact(d)
    BY <1>2 DEF KeepsCount
  <2>2. Owing(d)' = Owing(d)
    BY DEF Owing
  <2>3. (\E q \in Procs : Stores(q, d)') <=> (\E q \in Procs : Stores(q, d))
    OBVIOUS
  <2> QED
    BY <2>1, <2>2, <2>3 DEF Exact
<1> QED
  BY <1>1, <1>2 DEF KeepsCount

(* Exactness in numbers.                                                   *)
LEMMA ExactIn ==
  ASSUME NEW d, NEW n \in Nat, NEW k \in Nat, NEW x, NEW v \in Nat,
         ended[d] = n, Cardinality(Owing(d)) = k, countdown[d] = x, scenario.deps[d].value = v
  PROVE  Exact(d) <=>
           /\ n >= k
           /\ n - k < v =>
                x = v - (n - k) /\ d \notin flag /\ \A q \in Procs : ~Stores(q, d)
           /\ n - k >= v => d \in flag \/ \E q \in Procs : Stores(q, d)
  BY DEF Exact

(* The counts, when nothing that they depend on changes.                   *)
LEMMA CountSame ==
  ASSUME CountInv, Refiled, UNCHANGED <<scenario, countdown, flag, ended>>,
         \A q \in Procs : \A d \in DOMAIN scenario.deps :
            /\ Owes(q, d)' <=> Owes(q, d)
            /\ Stores(q, d)' <=> Stores(q, d)
            /\ Makes(q, d)' => Makes(q, d),
         \A d \in DOMAIN scenario.deps : Settled(d) => Settled(d)'
  PROVE  CountInv'
<1>1. ASSUME NEW d \in DOMAIN scenario.deps PROVE KeepsCount(d)'
  BY CountStays DEF CountInv, Refiled
<1> QED
  BY <1>1 DEF CountInv

(* What is on the stack of p after it goes on.                             *)
LEMMA StackFrom ==
  ASSUME FrameInv, NEW p \in Procs, NEW m, NEW rest, NEW ops, NEW r, NEW kids,
         IsSeq(ops), Cut(p, m, rest), Leaves(p, ops \o rest, r, kids)
  PROVE  /\ UNCHANGED scenario
         /\ work'[p] = ops \o rest /\ res'[p] = r
         /\ \A q \in Procs : q # p => work'[q] = work[q] /\ res'[q] = res[q]
         /\ \A j \in DOMAIN rest : \E i \in DOMAIN work[p] : i > m /\ rest[j] = work[p][i]
         /\ \A i \in DOMAIN work'[p] :
              \/ \E j \in DOMAIN ops : work'[p][i] = ops[j]
              \/ \E j \in DOMAIN work[p] : j > m /\ work'[p][i] = work[p][j]
<1>1. /\ UNCHANGED scenario
      /\ work'[p] = ops \o rest /\ res'[p] = r
      /\ \A q \in Procs : q # p => work'[q] = work[q] /\ res'[q] = res[q]
  BY DEF Leaves, FrameInv, Stacks, Results
<1>2. /\ IsSeq(rest) /\ IsSeq(work[p]) /\ Len(rest) \in Nat /\ Len(work[p]) \in Nat
      /\ DOMAIN rest = 1 .. Len(rest) /\ DOMAIN work[p] = 1 .. Len(work[p])
  BY SeqShape DEF Cut, FrameInv, Stacks
<1>3. ASSUME NEW j \in DOMAIN rest PROVE \E i \in DOMAIN work[p] : i > m /\ rest[j] = work[p][i]
  <2>1. j + m \in DOMAIN work[p] /\ j + m > m /\ rest[j] = work[p][j + m]
    BY <1>2 DEF Cut
  <2> QED
    BY <2>1
<1>4. ASSUME NEW i \in DOMAIN (ops \o rest)
      PROVE  \/ \E j \in DOMAIN ops : (ops \o rest)[i] = ops[j]
             \/ \E j \in DOMAIN work[p] : j > m /\ (ops \o rest)[i] = work[p][j]
  <2>1. \/ i \in DOMAIN ops /\ (ops \o rest)[i] = ops[i]
        \/ \E j \in DOMAIN rest : i = j + Len(ops) /\ (ops \o rest)[i] = rest[j]
    BY <1>2, ConcatFrom
  <2> QED
    BY <1>3, <2>1
<1> QED
  BY <1>1, <1>3, <1>4

(* What is pushed and what is left are on the stack of p afterwards.       *)
LEMMA StackKeeps ==
  ASSUME FrameInv, NEW p \in Procs, NEW m, NEW rest, NEW ops, NEW r, NEW kids,
         IsSeq(ops), Cut(p, m, rest), Leaves(p, ops \o rest, r, kids)
  PROVE  /\ \A j \in DOMAIN ops : \E i \in DOMAIN work'[p] : work'[p][i] = ops[j]
         /\ \A j \in DOMAIN work[p] : j > m => \E i \in DOMAIN work'[p] : work'[p][i] = work[p][j]
<1>1. work'[p] = ops \o rest
  BY StackFrom
<1>2. /\ IsSeq(rest) /\ IsSeq(work[p]) /\ Len(rest) \in Nat /\ Len(work[p]) \in Nat
      /\ DOMAIN rest = 1 .. Len(rest) /\ DOMAIN work[p] = 1 .. Len(work[p])
      /\ DOMAIN ops = 1 .. Len(ops) /\ Len(ops) \in Nat
      /\ m \in Nat /\ Len(rest) = Len(work[p]) - m
      /\ \A j \in 1 .. Len(rest) : rest[j] = work[p][j + m]
  BY SeqShape DEF Cut, FrameInv, Stacks
<1>3. /\ DOMAIN (ops \o rest) = 1 .. Len(ops) + Len(rest)
      /\ \A i \in 1 .. Len(ops) : (ops \o rest)[i] = ops[i]
      /\ \A i \in 1 .. Len(rest) : (ops \o rest)[i + Len(ops)] = rest[i]
  <2>1. IsSeq(ops \o rest) /\ Len(ops \o rest) = Len(ops) + Len(rest)
    BY <1>2, SeqConcat
  <2>2. DOMAIN (ops \o rest) = 1 .. Len(ops) + Len(rest)
    BY <2>1, SeqShape
  <2> QED
    BY <1>2, <2>2, SeqConcat
<1>4. ASSUME NEW j \in DOMAIN ops PROVE \E i \in DOMAIN work'[p] : work'[p][i] = ops[j]
  <2>1. j \in DOMAIN (ops \o rest) /\ (ops \o rest)[j] = ops[j]
    BY <1>2, <1>3
  <2> QED
    BY <1>1, <2>1
<1>5. ASSUME NEW j \in DOMAIN work[p], j > m
      PROVE  \E i \in DOMAIN work'[p] : work'[p][i] = work[p][j]
  <2>1. PICK k \in 1 .. Len(rest) : j = k + m
    <3>1. j - m \in 1 .. Len(rest) /\ j = (j - m) + m
      BY <1>2, <1>5
    <3> QED
      BY <3>1
  <2>2. k + Len(ops) \in DOMAIN (ops \o rest) /\ (ops \o rest)[k + Len(ops)] = work[p][j]
    BY <1>2, <1>3, <2>1
  <2> QED
    BY <1>1, <2>2
<1> QED
  BY <1>4, <1>5

(* What is still to be done for the dependencies, where p has no calls of  *)
(* monitors to make.                                                       *)
LEMMA QuietStacks ==
  ASSUME FrameInv, NEW p \in Procs, NEW m, NEW rest, NEW ops, NEW r, NEW kids,
         IsSeq(ops), Cut(p, m, rest), Leaves(p, ops \o rest, r, kids),
         \A i \in DOMAIN work[p] : ~OfMonitor(work[p][i]),
         \A i \in DOMAIN ops : ~OfMonitor(ops[i]) /\ Do(ops[i]) # "depend"
  PROVE  /\ \A q \in Procs : \A d \in DOMAIN scenario.deps :
              /\ Owes(q, d)' <=> Owes(q, d)
              /\ Stores(q, d)' <=> Stores(q, d)
              /\ Makes(q, d)' => Makes(q, d)
         /\ \A d \in DOMAIN scenario.deps : Settled(d) => Settled(d)'
<1>1. /\ \A q \in Procs : q # p => work'[q] = work[q] /\ res'[q] = res[q]
      /\ \A i \in DOMAIN work'[p] : ~OfMonitor(work'[p][i])
      /\ \A i \in DOMAIN work'[p] : Do(work'[p][i]) = "depend" =>
           \E j \in DOMAIN work[p] : work[p][j] = work'[p][i]
  BY StackFrom
<1>2. \A d \in DOMAIN scenario.deps : d # 0
  BY DependenciesNamed
<1>3. ASSUME NEW q \in Procs, NEW d \in DOMAIN scenario.deps
      PROVE  /\ Owes(q, d)' <=> Owes(q, d)
             /\ Stores(q, d)' <=> Stores(q, d)
             /\ Makes(q, d)' => Makes(q, d)
  <2>1. CASE q = p
    <3>1. ~Owes(p, d) /\ ~Stores(p, d)
      BY <1>2 DEF Owes, Stores, OfMonitor
    <3>2. ~Owes(p, d)' /\ ~Stores(p, d)'
      BY <1>1, <1>2 DEF Owes, Stores, OfMonitor
    <3>3. Makes(p, d)' => Makes(p, d)
      BY <1>1 DEF Makes
    <3> QED
      BY <2>1, <3>1, <3>2, <3>3
  <2>2. CASE q # p
    BY <1>1, <2>2 DEF Owes, Stores, Makes
  <2> QED
    BY <2>1, <2>2
<1>4. ASSUME NEW d \in DOMAIN scenario.deps, Settled(d) PROVE Settled(d)'
  <2> SUFFICES ASSUME NEW q \in Procs, NEW i \in DOMAIN work'[q]
               PROVE  /\ Do(work'[q][i]) = "deliver" => Arg(work'[q][i]).dep # d
                      /\ Do(work'[q][i]) = "store" => On(work'[q][i]) # d
    BY DEF Settled
  <2>1. CASE q = p
    BY <1>1, <1>2, <2>1 DEF OfMonitor
  <2>2. CASE q # p
    BY <1>1, <1>4, <2>2 DEF Settled
  <2> QED
    BY <2>1, <2>2
<1> QED
  BY <1>3, <1>4

(* A process without calls of monitors goes on without any.                *)
LEMMA QuietStep ==
  ASSUME FrameInv, OrderInv, CountInv, Refiled, NEW p \in Procs, NEW m, NEW rest, NEW ops,
         NEW r, NEW kids,
         IsSeq(ops), Cut(p, m, rest), Leaves(p, ops \o rest, r, kids), kids \cap Clients = {},
         \A i \in DOMAIN work[p] : ~OfMonitor(work[p][i]),
         \A i \in DOMAIN ops : ~OfMonitor(ops[i]) /\ Do(ops[i]) # "depend",
         Orderly(scenario, p, ops),
         \A i \in DOMAIN ops, j \in DOMAIN rest : MayTop(ops[i], rest[j]),
         UNCHANGED <<countdown, flag, ended>>
  PROVE  OrderInv' /\ CountInv'
<1>1. OrderInv'
  BY OrderStep DEF Refiled
<1>2. UNCHANGED scenario
  BY StackFrom
<1>3. CountInv'
  BY <1>2, QuietStacks, CountSame
<1> QED
  BY <1>1, <1>3

(* Above other steps than calls no monitor is called.                      *)
LEMMA NoCallsBelow ==
  ASSUME FrameInv, OrderInv, NEW p \in Procs, NEW k \in DOMAIN work[p], ~Calling(work[p][k]),
         k = 1 \/ ~Asked(work[p][k])
  PROVE  \A i \in DOMAIN work[p] : ~OfMonitor(work[p][i])
<1> SUFFICES ASSUME NEW i \in DOMAIN work[p], OfMonitor(work[p][i]) PROVE FALSE
  OBVIOUS
<1>1. DOMAIN work[p] = 1 .. Len(work[p]) /\ Len(work[p]) \in Nat
  BY SeqShape DEF FrameInv, Stacks
<1>2. Calling(work[p][i]) /\ i # k
  BY DEF OfMonitor, Calling
<1>3. \A a, b \in DOMAIN work[p] : a < b => MayTop(work[p][a], work[p][b])
  BY DEF OrderInv, Orderly
<1>4. i < k \/ k < i
  BY <1>1, <1>2
<1> QED
  BY <1>1, <1>2, <1>3, <1>4 DEF MayTop

-----------------------------------------------------------------------------
(***************************************************************************)
(* The frames: none of them calls a monitor.                               *)
(***************************************************************************)
(* The registry, when nobody touches it.                                   *)
LEMMA RefiledSame ==
  ASSUME OrderInv, UNCHANGED <<filed, detached, scenario>>
  PROVE  Refiled
<1>1. \A event, task : Filed(event, task)' = Filed(event, task)
  BY DEF Filed
<1>2. \A d : Monitors(d)' = Monitors(d) /\ (Watched(d)' <=> Watched(d))
  BY <1>1 DEF Monitors, Watched, Untouched
<1>3. \A event, task : \A h \in Range(Filed(event, task)') : FitsIn(scenario, h, event, task)
  BY <1>1 DEF OrderInv
<1> QED
  BY <1>2, <1>3 DEF Refiled

(* A step that is not a call is done, and others come in its place.        *)
LEMMA GoesOn ==
  ASSUME FrameInv, OrderInv, CountInv, Refiled, NEW p \in Procs, NEW do, At(p, do),
         do \notin {"deliver", "store"}, NEW ops, LooseSeq(scenario, ops), NEW r,
         NEW kids, kids \cap Clients = {}, Leaves(p, ops \o Tail(work[p]), r, kids),
         UNCHANGED <<countdown, flag, ended>>
  PROVE  OrderInv' /\ CountInv'
<1>1. IsSeq(work[p]) /\ Len(work[p]) \in Nat /\ work[p] # <<>> /\ 1 \in DOMAIN work[p]
      /\ Len(work[p]) # 0
  BY SeqShape DEF FrameInv, Stacks, At
<1>2. PICK rest : rest = Tail(work[p])
  OBVIOUS
<1>3. Cut(p, 1, rest)
  <2>1. IsSeq(rest) /\ Len(rest) = Len(work[p]) - 1
        /\ \A j \in 1 .. Len(rest) : rest[j] = work[p][j + 1]
    BY <1>1, <1>2, SeqTail
  <2> QED
    BY <1>1, <2>1 DEF Cut
<1>4. \A i \in DOMAIN work[p] : ~OfMonitor(work[p][i])
  <2>1. ~Calling(work[p][1])
    BY DEF At, Calling
  <2> QED
    BY <1>1, <2>1, NoCallsBelow
<1>5. IsSeq(ops) /\ \A i \in DOMAIN ops : ~OfMonitor(ops[i]) /\ Do(ops[i]) # "depend"
  BY DEF LooseSeq, Loose, Leads
<1>6. Leaves(p, ops \o rest, r, kids)
  BY <1>2
<1>7. \A j \in DOMAIN rest : ~OfMonitor(rest[j])
  BY <1>3, <1>4, <1>5, <1>6, StackFrom
<1>8. Orderly(scenario, p, ops) /\ \A i \in DOMAIN ops, j \in DOMAIN rest : MayTop(ops[i], rest[j])
  BY <1>7, LooseOrderly
<1> QED
  BY <1>3, <1>4, <1>5, <1>6, <1>8, QuietStep

(* The same without a word to the registry.                                *)
LEMMA Continuing ==
  ASSUME FrameInv, OrderInv, CountInv, NEW p \in Procs, NEW do, At(p, do),
         do \notin {"deliver", "store"}, NEW ops, LooseSeq(scenario, ops), NEW r,
         Proceeds(p, ops, r), UNCHANGED <<hookVars, countdown, flag, ended>>
  PROVE  OrderInv' /\ CountInv'
<1>1. Leaves(p, ops \o Tail(work[p]), r, {}) /\ {} \cap Clients = {}
  BY DEF Proceeds
<1>2. UNCHANGED <<filed, detached, scenario>>
  BY <1>1 DEF hookVars, Leaves
<1>3. Refiled
  BY <1>2, RefiledSame
<1> QED
  BY <1>1, <1>3, GoesOn

(* The children of a collection are no clients.                            *)
LEMMA KidsAreNoClients ==
  ASSUME OrderInv, NEW p \in Procs, NEW i \in DOMAIN work[p], Do(work[p][i]) = "join"
  PROVE  Arg(work[p][i]) \cap Clients = {}
  BY DEF OrderInv, Orderly, Placed, Clients

(* A future that ends with no call of a monitor on its stack.              *)
LEMMA QuietEnd ==
  ASSUME FrameInv, OrderInv, CountInv, NEW p \in Procs,
         \A i \in DOMAIN work[p] : ~OfMonitor(work[p][i]), NEW r,
         Leaves(p, <<>>, r, LiveKids(work[p])), UNCHANGED <<hookVars, countdown, flag, ended>>
  PROVE  OrderInv' /\ CountInv'
<1>1. IsSeq(work[p]) /\ Len(work[p]) \in Nat
  BY SeqShape DEF FrameInv, Stacks
<1>2. Cut(p, Len(work[p]), <<>>)
  BY <1>1, SeqEmpty DEF Cut
<1>3. LiveKids(work[p]) \cap Clients = {}
  <2> SUFFICES ASSUME NEW k \in LiveKids(work[p]) PROVE k \notin Clients
    OBVIOUS
  <2>1. k \in JoinedIn(work[p])
    BY DEF LiveKids
  <2>2. PICK i \in DOMAIN work[p] : Do(work[p][i]) = "join" /\ k \in Arg(work[p][i])
    BY <2>1, JoinedHere
  <2> QED
    BY <2>2, KidsAreNoClients
<1>4. UNCHANGED <<filed, detached, scenario>>
  BY DEF hookVars, Leaves
<1>5. Refiled
  BY <1>4, RefiledSame
<1>6. /\ IsSeq(<<>>) /\ <<>> \o <<>> = <<>> /\ DOMAIN <<>> = {}
      /\ Orderly(scenario, p, <<>>)
  BY SeqEmpty, LooseOrderly, LooseLiteral
<1>7. Leaves(p, <<>> \o <<>>, r, LiveKids(work[p]))
  BY <1>6
<1>8. /\ \A i \in DOMAIN <<>> : ~OfMonitor(<<>>[i]) /\ Do(<<>>[i]) # "depend"
      /\ \A i \in DOMAIN <<>>, j \in DOMAIN <<>> : MayTop(<<>>[i], <<>>[j])
  BY <1>6
<1> QED
  BY <1>2, <1>3, <1>5, <1>6, <1>7, <1>8, QuietStep

(* A panic at a step that is not a call.                                   *)
LEMMA Panicking ==
  ASSUME FrameInv, OrderInv, CountInv, NEW p \in Procs, NEW do, At(p, do),
         do \notin {"deliver", "store"}, Panics(p), UNCHANGED <<hookVars, countdown, flag, ended>>
  PROVE  OrderInv' /\ CountInv'
<1>1. IsSeq(work[p]) /\ 1 \in DOMAIN work[p] /\ ~Calling(work[p][1])
  BY SeqShape DEF FrameInv, Stacks, At, Calling
<1>2. \A i \in DOMAIN work[p] : ~OfMonitor(work[p][i])
  BY <1>1, NoCallsBelow
<1> QED
  BY <1>2, QuietEnd DEF Panics

(* What a leaf does with its context.                                      *)
LEMMA LeafActs ==
  ASSUME FrameInv, LeavesRunNothing, NEW n \in DOMAIN Frames, Frames[n].kind = "leaf"
  PROVE  LooseSeq(scenario, Frames[n].acts)
<1>1. ProperProgram(scenario, Frames[n].acts)
  BY FrameFacts DEF ProperFrame
<1>2. scenario \in Scenarios
  BY DEF FrameInv
<1>3. \A i \in DOMAIN Frames[n].acts : Do(Frames[n].acts[i]) # "run"
  BY <1>2 DEF LeavesRunNothing, Runs, Frames
<1>4. MadeOnce(scenario)
  BY <1>2, ScenarioAssumption DEF ProperDependencies
<1>5. \A i \in DOMAIN Frames[n].acts : Do(Frames[n].acts[i]) # "depend"
  BY <1>4 DEF MadeOnce, Frames
<1>6. \A i \in DOMAIN Frames[n].acts :
        /\ Do(Frames[n].acts[i]) \in Offered
        /\ Do(Frames[n].acts[i]) \in {"attach", "detach"} => IsSeq(Arg(Frames[n].acts[i]).event)
  BY <1>1 DEF ProperProgram
<1>7. ASSUME NEW i \in DOMAIN Frames[n].acts PROVE Loose(scenario, Frames[n].acts[i])
  BY <1>3, <1>5, <1>6 DEF Loose, Leads, OfMonitor, Offered
<1> QED
  BY <1>1, <1>7 DEF LooseSeq, ProperProgram

(* A frame that begins.                                                    *)
LEMMA ExecuteCounts ==
  ASSUME FrameInv, OrderInv, CountInv, LeavesRunNothing, NEW p \in Procs,
         \/ Enter(p) \/ NoOperation(p) \/ Delay(p) \/ Fallback(p) \/ Condition(p)
         \/ Retry(p) \/ Timeout(p) \/ Threshold(p) \/ Dependency(p) \/ Sequential(p)
         \/ Selection(p)
  PROVE  OrderInv' /\ CountInv'
<1> DEFINE n == On(work[p][1])
           s == scenario
<1>1. ASSUME NEW kind, Executes(p, kind)
      PROVE  n \in DOMAIN Frames /\ Frames[n].kind = kind /\ Frame(p) = Frames[n]
  BY <1>1, FirstStep DEF Executes, Known, FrameSteps, Frame
<1>2. ASSUME NEW kind, Executes(p, kind), NEW ops, LooseSeq(s, ops), NEW r, Proceeds(p, ops, r),
             UNCHANGED <<hookVars, countdown, flag, ended>>
      PROVE  OrderInv' /\ CountInv'
  BY <1>2, Continuing DEF Executes
<1>3. ASSUME NEW kind, Executes(p, kind), NEW ops, LooseSeq(s, ops), Continues(p, ops)
      PROVE  OrderInv' /\ CountInv'
  BY <1>2, <1>3 DEF Continues, counters
<1>4. ASSUME NEW kind, Executes(p, kind), NEW r, Returns(p, r) PROVE OrderInv' /\ CountInv'
  BY <1>2, <1>4, LooseLiteral DEF Returns, counters
<1>5. \A k : Loose(s, Exec(k))
  BY LooseOp DEF Exec
<1>6. \A do \in {"leaf", "sleep", "recover", "attempt", "timed", "counts", "resolve", "eval",
                 "next"} : \A on, arg : Loose(s, Op(do, on, arg))
  BY LooseOp
<1>7. ASSUME Enter(p) PROVE OrderInv' /\ CountInv'
  <2>1. Executes(p, "leaf") /\ Continues(p, Frame(p).acts \o <<Op("leaf", n, 0)>>)
    BY <1>7 DEF Enter
  <2>2. LooseSeq(s, Frame(p).acts)
    BY <1>1, <2>1, LeafActs
  <2>3. LooseSeq(s, <<Op("leaf", n, 0)>>)
    BY <1>6, LooseLiteral
  <2>4. LooseSeq(s, Frame(p).acts \o <<Op("leaf", n, 0)>>)
    BY <2>2, <2>3, LooseConcat
  <2> QED
    BY <1>3, <2>1, <2>4
<1>8. ASSUME NoOperation(p) PROVE OrderInv' /\ CountInv'
  BY <1>4, <1>8 DEF NoOperation
<1>9. ASSUME Delay(p) PROVE OrderInv' /\ CountInv'
  <2>1. LooseSeq(s, <<EmitOp(<<"OnDelayStart">>, Frame(p).task), Op("sleep", 0, Frame(p).delay),
                      EmitOp(<<"OnDelayEnd">>, Frame(p).task), Exec(Frame(p).kids[1])>>)
    BY <1>5, <1>6, LooseEmit, LooseLiteral
  <2> QED
    BY <1>3, <1>9, <2>1 DEF Delay
<1>10. ASSUME Fallback(p) PROVE OrderInv' /\ CountInv'
  <2>1. LooseSeq(s, <<Exec(Frame(p).kids[1]), Op("recover", n, 0)>>)
    BY <1>5, <1>6, LooseLiteral
  <2> QED
    BY <1>3, <1>10, <2>1 DEF Fallback
<1>11. ASSUME Condition(p) PROVE OrderInv' /\ CountInv'
  <2>1. /\ LooseSeq(s, <<EmitOp(<<"OnTruthyValueEvent">>, Frame(p).task), Exec(Frame(p).kids[1])>>)
        /\ LooseSeq(s, <<EmitOp(<<"OnFalseyValueEvent">>, Frame(p).task), Exec(Frame(p).kids[2])>>)
    BY <1>5, LooseEmit, LooseLiteral
  <2> QED
    BY <1>3, <1>11, <2>1 DEF Condition
<1>12. ASSUME Retry(p) PROVE OrderInv' /\ CountInv'
  <2>1. LooseSeq(s, <<Op("attempt", n, 0)>>)
    BY <1>6, LooseLiteral
  <2> QED
    BY <1>3, <1>12, <2>1 DEF Retry
<1>13. ASSUME Timeout(p) PROVE OrderInv' /\ CountInv'
  <2>1. LooseSeq(s, <<Exec(Frame(p).kids[1]), Op("timed", n, 0)>>)
    BY <1>5, <1>6, LooseLiteral
  <2> QED
    BY <1>3, <1>13, <2>1 DEF Timeout
<1>14. ASSUME Threshold(p) PROVE OrderInv' /\ CountInv'
  <2>1. LooseSeq(s, <<Exec(Frame(p).kids[1]), Op("counts", n, 0)>>)
    BY <1>5, <1>6, LooseLiteral
  <2>2. Executes(p, "threshold")
    BY <1>14 DEF Threshold
  <2>3. \/ Returns(p, Frame(p).reach)
        \/ /\ Proceeds(p, <<Exec(Frame(p).kids[1]), Op("counts", n, 0)>>, res[p])
           /\ UNCHANGED <<hookVars, countdown, flag, ended>>
    BY <1>14 DEF Threshold
  <2> QED
    BY <1>2, <1>4, <2>1, <2>2, <2>3
<1>15. ASSUME Dependency(p) PROVE OrderInv' /\ CountInv'
  <2> DEFINE rest == <<EmitOp(<<"OnDependencyValidation">>, Frame(p).task),
                       Op("resolve", n, 0)>>
  <2>1. LooseSeq(s, rest) /\ LooseSeq(s, <<Op("eval", n, Frame(p).on)>>)
    BY <1>6, LooseEmit, LooseLiteral
  <2>2. Executes(p, "dependency")
    BY <1>15 DEF Dependency
  <2>3. \/ Proceeds(p, rest, "false") /\ UNCHANGED <<hookVars, countdown, flag, ended>>
        \/ Continues(p, <<Op("eval", n, Frame(p).on)>> \o rest)
    BY <1>15 DEF Dependency, counters
  <2> HIDE DEF rest
  <2>4. LooseSeq(s, <<Op("eval", n, Frame(p).on)>> \o rest)
    BY <2>1, LooseConcat
  <2> QED
    BY <1>2, <1>3, <2>1, <2>2, <2>3, <2>4
<1>16. ASSUME Sequential(p) PROVE OrderInv' /\ CountInv'
  <2>1. LooseSeq(s, <<Op("next", n, 1)>>)
    BY <1>6, LooseLiteral
  <2> QED
    BY <1>3, <1>16, <2>1 DEF Sequential
<1>17. ASSUME Selection(p) PROVE OrderInv' /\ CountInv'
  <2>1. \A i : LooseSeq(s, Child(n, i))
    BY <1>5, LooseEmit, LooseLiteral DEF Child
  <2> QED
    BY <1>3, <1>4, <1>17, <2>1 DEF Selection
<1> QED
  BY <1>7, <1>8, <1>9, <1>10, <1>11, <1>12, <1>13, <1>14, <1>15, <1>16, <1>17

(* A frame that goes on.                                                   *)
LEMMA ResumeCounts ==
  ASSUME FrameInv, OrderInv, CountInv, NEW p \in Procs,
         \/ Leaf(p) \/ Wake(p) \/ Recover(p) \/ Attempt(p) \/ Attempted(p) \/ InTime(p)
         \/ CountRun(p) \/ is_resolved(p) \/ Combine(p) \/ Resolve(p) \/ NextChild(p)
         \/ QuitOrNext(p)
  PROVE  OrderInv' /\ CountInv'
<1> DEFINE n == On(work[p][1])
           s == scenario
<1>1. ASSUME NEW do, do \notin {"deliver", "store"}, At(p, do), NEW ops, LooseSeq(s, ops),
             Continues(p, ops)
      PROVE  OrderInv' /\ CountInv'
  BY <1>1, Continuing DEF Continues, counters
<1>2. LooseSeq(s, <<>>)
  BY LooseLiteral
<1>3. ASSUME NEW do, do \notin {"deliver", "store"}, At(p, do), NEW r, Returns(p, r)
      PROVE  OrderInv' /\ CountInv'
  BY <1>2, <1>3, Continuing DEF Returns, counters
<1>4. \A k : Loose(s, Exec(k))
  BY LooseOp DEF Exec
<1>5. \A do \in {"attempt", "attempted", "sleep", "eval", "negate", "and", "or", "quit", "next"} :
        \A on, arg : Loose(s, Op(do, on, arg))
  BY LooseOp
<1>6. ASSUME Leaf(p) PROVE OrderInv' /\ CountInv'
  <2>1. At(p, "leaf") /\ UNCHANGED <<hookVars, countdown, flag, ended>>
    BY <1>6 DEF Leaf, counters
  <2>2. Panics(p) \/ \E r : Proceeds(p, <<>>, r)
    BY <1>6 DEF Leaf
  <2> QED
    BY <1>2, <2>1, <2>2, Panicking, Continuing
<1>7. ASSUME Wake(p) \/ InTime(p) PROVE OrderInv' /\ CountInv'
  BY <1>1, <1>2, <1>7 DEF Wake, InTime
<1>8. ASSUME Recover(p) PROVE OrderInv' /\ CountInv'
  <2>1. LooseSeq(s, <<EmitOp(<<"OnFallback">>, Frame(p).task), Exec(Frame(p).kids[2])>>)
    BY <1>4, LooseEmit, LooseLiteral
  <2> QED
    BY <1>1, <1>2, <1>8, <2>1 DEF Recover
<1>9. ASSUME Attempt(p) PROVE OrderInv' /\ CountInv'
  <2>1. LooseSeq(s, <<EmitOp(<<"OnRetryAttemptStart">>, Frame(p).task), Exec(Frame(p).kids[1]),
                      EmitOp(<<"OnRetryAttemptEnd">>, Frame(p).task),
                      Op("attempted", n, Arg(work[p][1]))>>)
    BY <1>4, <1>5, LooseEmit, LooseLiteral
  <2> QED
    BY <1>1, <1>9, <2>1 DEF Attempt
<1>10. ASSUME Attempted(p) PROVE OrderInv' /\ CountInv'
  <2> DEFINE k == Arg(work[p][1])
  <2>1. At(p, "attempted")
    BY <1>10 DEF Attempted
  <2>2. ASSUME NEW delay, Continues(p, <<Op("sleep", 0, delay)>> \o NextAttempt(n, k))
        PROVE  OrderInv' /\ CountInv'
    <3>1. LooseSeq(s, <<Op("sleep", 0, delay)>>) /\ LooseSeq(s, NextAttempt(n, k))
      BY <1>2, <1>5, LooseLiteral DEF NextAttempt
    <3>2. LooseSeq(s, <<Op("sleep", 0, delay)>> \o NextAttempt(n, k))
      BY <3>1, LooseConcat
    <3> QED
      BY <1>1, <2>1, <2>2, <3>2
  <2> QED
    BY <1>1, <1>2, <1>10, <2>1, <2>2 DEF Attempted
<1>11. ASSUME CountRun(p) PROVE OrderInv' /\ CountInv'
  <2>1. At(p, "counts") /\ Proceeds(p, <<>>, res[p]) /\ UNCHANGED <<hookVars, countdown, flag, ended>>
    BY <1>11 DEF CountRun
  <2> QED
    BY <1>2, <2>1, Continuing
<1>12. ASSUME is_resolved(p) PROVE OrderInv' /\ CountInv'
  <2> DEFINE e == Arg(work[p][1])
  <2>1. At(p, "eval")
    BY <1>12 DEF is_resolved
  <2>2. /\ LooseSeq(s, <<Op("eval", n, e.l), Op("negate", n, 0)>>)
        /\ LooseSeq(s, <<Op("eval", n, e.l), Op("and", n, e.r)>>)
        /\ LooseSeq(s, <<Op("eval", n, e.l), Op("or", n, e.r)>>)
    BY <1>5, LooseLiteral
  <2> QED
    BY <1>1, <1>3, <1>12, <2>1, <2>2 DEF is_resolved
<1>13. ASSUME Combine(p) PROVE OrderInv' /\ CountInv'
  <2>1. LooseSeq(s, <<Op("eval", n, Arg(work[p][1]))>>)
    BY <1>5, LooseLiteral
  <2>2. \/ At(p, "negate") /\ \E r : Returns(p, r)
        \/ /\ At(p, "and") \/ At(p, "or")
           /\ Continues(p, <<Op("eval", n, Arg(work[p][1]))>>) \/ Continues(p, <<>>)
    BY <1>13 DEF Combine
  <2> QED
    BY <1>1, <1>2, <1>3, <2>1, <2>2
<1>14. ASSUME Resolve(p) PROVE OrderInv' /\ CountInv'
  <2>1. LooseSeq(s, <<Exec(Frame(p).kids[1])>>)
    BY <1>4, LooseLiteral
  <2> QED
    BY <1>1, <1>3, <1>14, <2>1 DEF Resolve
<1>15. ASSUME NextChild(p) PROVE OrderInv' /\ CountInv'
  <2> DEFINE i == Arg(work[p][1])
  <2>1. LooseSeq(s, Child(n, i)) /\ LooseSeq(s, <<Op("quit", n, i)>>)
    BY <1>4, <1>5, LooseEmit, LooseLiteral DEF Child
  <2>2. LooseSeq(s, Child(n, i) \o <<Op("quit", n, i)>>)
    BY <2>1, LooseConcat
  <2> QED
    BY <1>1, <1>3, <1>15, <2>2 DEF NextChild
<1>16. ASSUME QuitOrNext(p) PROVE OrderInv' /\ CountInv'
  <2>1. LooseSeq(s, <<Op("next", n, Arg(work[p][1]) + 1)>>)
    BY <1>5, LooseLiteral
  <2> QED
    BY <1>1, <1>3, <1>16, <2>1 DEF QuitOrNext
<1> QED
  BY <1>6, <1>7, <1>8, <1>9, <1>10, <1>11, <1>12, <1>13, <1>14, <1>15, <1>16

(* A client starts a run: the end of the run is announced under it alone.  *)
LEMMA RunCounts ==
  ASSUME FrameInv, OrderInv, CountInv, NEW p \in Procs, run(p)
  PROVE  OrderInv' /\ CountInv'
<1> DEFINE task == On(work[p][1])
           s == scenario
           a == EmitOp(<<"OnTaskStart">>, task)
           b == Exec(scenario.root[task])
           c == EmitOp(OnTaskEnd, task)
<1>1. At(p, "run") /\ Continues(p, <<a, b, c>>)
  BY DEF run
<1>2. IsSeq(work[p]) /\ Len(work[p]) \in Nat /\ work[p] # <<>> /\ 1 \in DOMAIN work[p]
      /\ Len(work[p]) # 0 /\ DOMAIN work[p] = 1 .. Len(work[p])
  BY <1>1, SeqShape DEF FrameInv, Stacks, At
<1>3. PICK rest : rest = Tail(work[p])
  OBVIOUS
<1>4. Cut(p, 1, rest)
  <2>1. IsSeq(rest) /\ Len(rest) = Len(work[p]) - 1
        /\ \A j \in 1 .. Len(rest) : rest[j] = work[p][j + 1]
    BY <1>2, <1>3, SeqTail
  <2> QED
    BY <1>2, <2>1 DEF Cut
<1>5. \A i \in DOMAIN work[p] : ~OfMonitor(work[p][i])
  <2>1. ~Calling(work[p][1])
    BY <1>1 DEF At, Calling
  <2> QED
    BY <1>2, <2>1, NoCallsBelow
<1>6. PICK ops : ops = <<a, b, c>>
  OBVIOUS
<1>7. /\ IsSeq(ops) /\ DOMAIN ops = 1 .. 3 /\ ops[1] = a /\ ops[2] = b /\ ops[3] = c
  <2>1. \A x, y, z : /\ DOMAIN <<x, y, z>> = 1 .. 3 /\ <<x, y, z>>[1] = x
                     /\ <<x, y, z>>[2] = y /\ <<x, y, z>>[3] = z
    OBVIOUS
  <2>2. \A x, y, z : IsSeq(<<x, y, z>>)
    BY SeqLiteral
  <2> HIDE DEF a, b, c
  <2> QED
    BY <1>6, <2>1, <2>2
<1>8. Loose(s, a) /\ Loose(s, b)
  BY LooseEmit, LooseOp DEF Exec
<1>9. /\ Do(c) = "emit" /\ Arg(c) = OnTaskEnd
      /\ Leads(c) /\ ~OfMonitor(c) /\ Do(c) \notin {"depend", "deliver", "join"}
  BY DEF EmitOp, Op, Do, Arg, Leads, OfMonitor
<1>10. Leads(work[p][1])
  BY <1>1 DEF At, Leads
<1>11. p \in DOMAIN scenario.clients
  BY <1>2, <1>10 DEF OrderInv, Orderly, Placed
<1>12. Leaves(p, ops \o rest, res[p], {}) /\ UNCHANGED <<hookVars, countdown, flag, ended>>
  BY <1>1, <1>3, <1>6 DEF Continues, Proceeds, counters
<1>13. \A j \in DOMAIN rest : Asked(rest[j])
  <2>1. \A i \in DOMAIN work[p] : i > 1 => Asked(work[p][i])
    BY <1>2, <1>10 DEF OrderInv, Orderly, MayTop
  <2> QED
    BY <1>4, <1>7, <1>12, <2>1, StackFrom
<1> HIDE DEF a, b, c
<1>14. \A j \in DOMAIN rest : ~OfMonitor(rest[j]) /\ Do(rest[j]) # "deliver"
  BY <1>13 DEF Asked, Offered, OfMonitor
<1>15. Orderly(s, p, ops)
  <2>1. Placed(s, p, a) /\ Placed(s, p, b)
    BY <1>8 DEF Loose, Placed, Leads, OfMonitor
  <2>2. Placed(s, p, c)
    <3>1. Known(work[p][1]) /\ Do(work[p][1]) = "run"
      BY <1>1, FirstStep
    <3>2. On(c) \in DOMAIN s.root
      BY <3>1 DEF Known, c, EmitOp, Op, On
    <3> QED
      BY <1>9, <1>11, <3>2 DEF Placed
  <2>3. MayTop(a, b) /\ MayTop(a, c) /\ MayTop(b, c)
    BY <1>8, <1>9 DEF Loose, MayTop, Leads, OfMonitor, Twins
  <2>4. \A i, j \in 1 .. 3 : i < j => (i = 1 /\ j = 2) \/ (i = 1 /\ j = 3) \/ (i = 2 /\ j = 3)
    OBVIOUS
  <2>5. \A i \in 1 .. 3 : i = 1 \/ i = 2 \/ i = 3
    OBVIOUS
  <2> QED
    BY <1>7, <2>1, <2>2, <2>3, <2>4, <2>5 DEF Orderly
<1>16. ASSUME NEW i \in DOMAIN ops, NEW j \in DOMAIN rest PROVE MayTop(ops[i], rest[j])
  <2>1. ops[i] \in {a, b, c}
    BY <1>7
  <2>2. ~OfMonitor(ops[i]) /\ Do(ops[i]) # "depend"
    BY <1>8, <1>9, <2>1 DEF Loose, Leads
  <2> QED
    BY <1>13, <1>14, <2>2 DEF MayTop, Twins
<1>17. \A i \in DOMAIN ops : ~OfMonitor(ops[i]) /\ Do(ops[i]) # "depend"
  <2>1. \A i \in DOMAIN ops : ops[i] \in {a, b, c}
    BY <1>7
  <2> QED
    BY <1>8, <1>9, <2>1 DEF Loose, Leads
<1>18. Refiled
  BY <1>12, RefiledSame DEF Leaves, hookVars
<1> QED
  BY <1>4, <1>5, <1>7, <1>12, <1>15, <1>16, <1>17, <1>18, QuietStep

(* An aborted child has no monitor to call: it is no client.               *)
LEMMA DropCounts ==
  ASSUME FrameInv, OrderInv, CountInv, NEW p \in Procs, Drop(p)
  PROVE  OrderInv' /\ CountInv'
<1>1. p \notin DOMAIN scenario.clients
  BY DEF Drop, OrderInv, Clients
<1>2. \A i \in DOMAIN work[p] : ~OfMonitor(work[p][i])
  BY <1>1 DEF OrderInv, Orderly, Placed
<1> QED
  BY <1>2, QuietEnd DEF Drop, counters

(* A deadline passes below calls that are not of monitors.                 *)
LEMMA ElapseCounts ==
  ASSUME FrameInv, OrderInv, CountInv, NEW p \in Procs, Elapse(p)
  PROVE  OrderInv' /\ CountInv'
<1>1. PICK i \in DOMAIN work[p] :
        /\ Do(work[p][i]) = "timed"
        /\ Leaves(p, <<EmitOp(<<"OnTimeout">>, Frames[On(work[p][i])].task)>>
                       \o SubSeq(work[p], i + 1, Len(work[p])), "err", AbortedBy(p, i))
  BY DEF Elapse
<1> DEFINE top == SubSeq(work[p], 1, i)
<1>2. PICK rest, ops :
        /\ rest = SubSeq(work[p], i + 1, Len(work[p]))
        /\ ops = <<EmitOp(<<"OnTimeout">>, Frames[On(work[p][i])].task)>>
  OBVIOUS
<1>3. IsSeq(work[p]) /\ Len(work[p]) \in Nat /\ i \in 1 .. Len(work[p])
  BY SeqShape DEF FrameInv, Stacks
<1>4. Cut(p, i, rest)
  <2>1. IsSeq(rest) /\ Len(rest) = Len(work[p]) - i
        /\ \A j \in 1 .. Len(rest) : rest[j] = work[p][j + i]
    BY <1>2, <1>3, SeqRest
  <2> QED
    BY <1>3, <2>1 DEF Cut
<1>5. \A j \in DOMAIN work[p] : ~OfMonitor(work[p][j])
  <2>1. ~Calling(work[p][i]) /\ ~Asked(work[p][i])
    BY <1>1 DEF Calling, Asked, Offered
  <2> QED
    BY <2>1, NoCallsBelow
<1>6. AbortedBy(p, i) \cap Clients = {}
  <2> SUFFICES ASSUME NEW k \in AbortedBy(p, i) PROVE k \notin Clients
    OBVIOUS
  <2>1. PICK S : work[p] \in Seq(S)
    BY <1>3 DEF IsSeq
  <2>2. DOMAIN top = 1 .. i /\ \A j \in 1 .. i : j \in DOMAIN work[p] /\ top[j] = work[p][j]
    BY <1>3, <2>1
  <2>3. k \in JoinedIn(top)
    BY DEF AbortedBy, LiveKids
  <2> HIDE DEF top
  <2>4. PICK j \in DOMAIN top : Do(top[j]) = "join" /\ k \in Arg(top[j])
    BY <2>3, JoinedHere
  <2> QED
    BY <2>2, <2>4, KidsAreNoClients
<1>7. LooseSeq(scenario, ops)
  BY <1>2, LooseEmit, LooseLiteral
<1>8. Leaves(p, ops \o rest, "err", AbortedBy(p, i)) /\ UNCHANGED <<hookVars, countdown, flag, ended>>
  BY <1>1, <1>2 DEF Elapse, counters
<1>9. IsSeq(ops) /\ \A j \in DOMAIN ops : ~OfMonitor(ops[j]) /\ Do(ops[j]) # "depend"
  BY <1>7 DEF LooseSeq, Loose, Leads
<1>10. \A j \in DOMAIN rest : ~OfMonitor(rest[j])
  BY <1>4, <1>5, <1>8, <1>9, StackFrom
<1>11. Orderly(scenario, p, ops) /\ \A j \in DOMAIN ops, l \in DOMAIN rest : MayTop(ops[j], rest[l])
  BY <1>7, <1>10, LooseOrderly
<1>12. Refiled
  BY <1>8, RefiledSame DEF Leaves, hookVars
<1> QED
  BY <1>4, <1>5, <1>6, <1>8, <1>9, <1>11, <1>12, QuietStep

(* join_next() and a return that drops the JoinSet.                        *)
LEMMA JoinCounts ==
  ASSUME FrameInv, OrderInv, CountInv, NEW p \in Procs, Join(p)
  PROVE  OrderInv' /\ CountInv'
<1> DEFINE kids == Arg(work[p][1])
           joins(left) == <<Op("join", On(work[p][1]), left)>>
<1>1. At(p, "join")
  BY DEF Join
<1>2. 1 \in DOMAIN work[p] /\ work[p] # <<>> /\ Do(work[p][1]) = "join"
  BY <1>1, SeqShape DEF FrameInv, Stacks, At
<1>3. kids \cap Clients = {}
  BY <1>2, KidsAreNoClients
<1>4. LooseSeq(scenario, <<>>) /\ \A k : LooseSeq(scenario, joins(kids \ {k}))
  BY <1>3, LooseOp, LooseLiteral DEF Clients
<1>5. ASSUME Returns(p, "ok") PROVE OrderInv' /\ CountInv'
  BY <1>1, <1>4, <1>5, Continuing DEF Returns, counters
<1>6. ASSUME NEW k, Continues(p, joins(kids \ {k})) PROVE OrderInv' /\ CountInv'
  BY <1>1, <1>4, <1>6, Continuing DEF Continues, counters
<1>7. ASSUME NEW r, Leaves(p, Tail(work[p]), r, LiveKids(<<work[p][1]>>)),
             UNCHANGED <<hookVars, counters>>
      PROVE  OrderInv' /\ CountInv'
  <2>1. LiveKids(<<work[p][1]>>) \cap Clients = {}
    <3>1. PICK h : h = <<work[p][1]>>
      OBVIOUS
    <3>2. \A i \in DOMAIN h : h[i] = work[p][1]
      BY <3>1
    <3>3. \A k \in LiveKids(h) : k \in kids
      BY <3>2, JoinedHere DEF LiveKids
    <3> QED
      BY <1>3, <3>1, <3>3
  <2>2. <<>> \o Tail(work[p]) = Tail(work[p])
    <3>1. PICK S : work[p] \in Seq(S) /\ work[p] # <<>>
      BY <1>2 DEF FrameInv, Stacks, IsSeq
    <3>2. PICK rest : rest = Tail(work[p])
      OBVIOUS
    <3>3. rest \in Seq(S)
      BY <3>1, <3>2
    <3>4. <<>> \o rest = rest
      BY <3>3
    <3> QED
      BY <3>2, <3>4
  <2>3. Leaves(p, <<>> \o Tail(work[p]), r, LiveKids(<<work[p][1]>>))
    BY <1>7, <2>2
  <2>4. UNCHANGED <<hookVars, countdown, flag, ended>>
    BY <1>7 DEF counters
  <2>5. Refiled
    BY <1>7, <2>4, RefiledSame DEF Leaves, hookVars
  <2> QED
    BY <1>1, <1>4, <2>1, <2>3, <2>4, <2>5, GoesOn
<1> QED
  BY <1>5, <1>6, <1>7 DEF Join

(* The children that are spawned are no clients and have no monitors.      *)
LEMMA ParallelCounts ==
  ASSUME FrameInv, OrderInv, CountInv, NEW p \in Procs, Parallel(p)
  PROVE  OrderInv' /\ CountInv'
<1> DEFINE n == On(work[p][1])
           kids == Frame(p).kids
           procs == SetToSeq(Idle)
           spawned == {procs[i] : i \in DOMAIN kids}
           joins == <<Op("join", n, spawned)>>
<1>1. At(p, "exec") /\ n \in DOMAIN Frames /\ Frame(p) = Frames[n]
  BY FirstStep DEF Parallel, Executes, Known, FrameSteps, Frame
<1>2. CASE kids = <<>>
  <2>1. Returns(p, "ok")
    BY <1>2 DEF Parallel
  <2> QED
    BY <1>1, <2>1, LooseLiteral, Continuing DEF Returns, counters
<1>3. CASE kids # <<>>
  <2>1. /\ Len(procs) >= Len(kids)
        /\ work' = [q \in Procs |->
             IF q = p THEN joins \o Tail(work[p])
             ELSE IF q \in spawned THEN Child(n, CHOOSE i \in DOMAIN kids : procs[i] = q)
             ELSE work[q]]
        /\ res' = [q \in Procs |-> IF q \in spawned THEN "ok" ELSE res[q]]
        /\ UNCHANGED <<hookVars, counters, doomed, scenario>>
    BY <1>3 DEF Parallel
  <2>2. \A q \in spawned : q \in Idle
    <3>1. Len(kids) \in Nat /\ DOMAIN kids = 1 .. Len(kids)
      BY <1>1, FrameFacts
    <3> QED
      BY <2>1, <3>1, IdleInOrder
  <2>3. \A q \in spawned : q \in Procs /\ q \notin Clients /\ work[q] = <<>> /\ q # p
    BY <1>1, <2>2 DEF Idle, At
  <2>4. ASSUME NEW q \in spawned PROVE LooseSeq(scenario, work'[q])
    <3>1. \A i : LooseSeq(scenario, Child(n, i))
      BY LooseOp, LooseEmit, LooseLiteral DEF Child, Exec
    <3> QED
      BY <2>1, <2>3, <3>1
  <2>5. LooseSeq(scenario, joins)
    <3>1. spawned \cap DOMAIN scenario.clients = {}
      BY <2>3 DEF Clients
    <3> HIDE DEF spawned
    <3>2. Loose(scenario, Op("join", n, spawned))
      BY <3>1, LooseOp
    <3> QED
      BY <3>2, LooseLiteral
  <2> HIDE DEF joins, spawned, procs, kids
  <2>6. IsSeq(work[p]) /\ Len(work[p]) \in Nat /\ work[p] # <<>> /\ 1 \in DOMAIN work[p]
        /\ Len(work[p]) # 0 /\ DOMAIN work[p] = 1 .. Len(work[p])
    BY <1>1, SeqShape DEF FrameInv, Stacks, At
  <2>7. PICK rest : rest = Tail(work[p])
    OBVIOUS
  <2>8. /\ IsSeq(rest) /\ Len(rest) = Len(work[p]) - 1 /\ DOMAIN rest = 1 .. Len(rest)
        /\ \A j \in 1 .. Len(rest) : rest[j] = work[p][j + 1] /\ j + 1 \in DOMAIN work[p]
    <3>1. IsSeq(rest) /\ Len(rest) = Len(work[p]) - 1
          /\ \A j \in 1 .. Len(rest) : rest[j] = work[p][j + 1]
      BY <2>6, <2>7, SeqTail
    <3> QED
      BY <2>6, <3>1, SeqShape
  <2>9. \A i \in DOMAIN work[p] : ~OfMonitor(work[p][i])
    <3>1. ~Calling(work[p][1])
      BY <1>1 DEF At, Calling
    <3> QED
      BY <2>6, <3>1, NoCallsBelow
  <2>10. work'[p] = joins \o rest
    BY <2>1, <2>7
  <2>11. IsSeq(joins)
    BY <2>5 DEF LooseSeq
  <2>12. Orderly(scenario, p, joins \o rest)
    <3>1. PICK S : S = work[p]
      OBVIOUS
    <3>2. /\ IsSeq(S) /\ 1 \in 0 .. Len(S) /\ Len(rest) = Len(S) - 1
          /\ \A j \in 1 .. Len(rest) : rest[j] = S[j + 1]
          /\ Orderly(scenario, p, S)
      BY <2>6, <2>8, <3>1 DEF OrderInv
    <3>3. /\ Orderly(scenario, p, joins)
          /\ \A i \in DOMAIN joins, j \in DOMAIN rest : MayTop(joins[i], rest[j])
      BY <2>5, <2>8, <2>9, LooseOrderly
    <3> QED
      BY <2>8, <2>11, <3>2, <3>3, OrderlyOn
  <2>13. OrderInv'
    <3>1. ASSUME NEW q \in Procs PROVE Orderly(scenario, q, work'[q])
      <4>1. CASE q = p
        BY <2>10, <2>12, <4>1
      <4>2. CASE q \in spawned
        BY <2>4, <4>2, LooseOrderly
      <4>3. CASE q # p /\ q \notin spawned
        BY <2>1, <4>3 DEF OrderInv
      <4> QED
        BY <4>1, <4>2, <4>3
    <3>2. doomed' \cap Clients' = {}
      BY <2>1 DEF OrderInv, Clients
    <3>3. Refiled
      BY <2>1, RefiledSame DEF hookVars
    <3>4. UNCHANGED scenario
      BY <2>1
    <3> QED
      BY <3>1, <3>2, <3>3, <3>4 DEF OrderInv, Orderly, Refiled
  <2>14. \A i \in DOMAIN work'[p] :
           ~OfMonitor(work'[p][i]) /\ (Do(work'[p][i]) = "depend" =>
             \E j \in DOMAIN work[p] : work[p][j] = work'[p][i])
    <3>1. \A i \in DOMAIN joins : ~OfMonitor(joins[i]) /\ Do(joins[i]) # "depend"
      BY <2>5 DEF LooseSeq, Loose, Leads
    <3>2. \A j \in DOMAIN rest : \E i \in DOMAIN work[p] : rest[j] = work[p][i]
      BY <2>8
    <3> QED
      BY <2>8, <2>9, <2>10, <2>11, <3>1, <3>2, ConcatFrom
  <2>15. \A d \in DOMAIN scenario.deps : d # 0
    BY DependenciesNamed
  <2>16. ASSUME NEW q \in Procs, NEW d \in DOMAIN scenario.deps
         PROVE  /\ Owes(q, d)' <=> Owes(q, d)
                /\ Stores(q, d)' <=> Stores(q, d)
                /\ Makes(q, d)' => Makes(q, d)
    <3>1. CASE q = p
      <4>1. ~Owes(p, d) /\ ~Stores(p, d)
        BY <2>9, <2>15 DEF Owes, Stores, OfMonitor
      <4>2. ~Owes(p, d)' /\ ~Stores(p, d)'
        BY <2>14, <2>15 DEF Owes, Stores, OfMonitor
      <4>3. Makes(p, d)' => Makes(p, d)
        BY <2>14 DEF Makes
      <4> QED
        BY <3>1, <4>1, <4>2, <4>3
    <3>2. CASE q \in spawned
      <4>1. \A i \in DOMAIN work'[q] : ~OfMonitor(work'[q][i]) /\ Do(work'[q][i]) # "depend"
        BY <2>4, <3>2 DEF LooseSeq, Loose, Leads
      <4>2. ~Owes(q, d)' /\ ~Stores(q, d)' /\ ~Makes(q, d)'
        BY <2>15, <4>1 DEF Owes, Stores, Makes, OfMonitor
      <4>3. DOMAIN work[q] = {}
        BY <2>3, <3>2, SeqEmpty
      <4> QED
        BY <4>2, <4>3 DEF Owes, Stores
    <3>3. CASE q # p /\ q \notin spawned
      BY <2>1, <3>3 DEF Owes, Stores, Makes
    <3> QED
      BY <3>1, <3>2, <3>3
  <2>17. ASSUME NEW d \in DOMAIN scenario.deps, Settled(d) PROVE Settled(d)'
    <3> SUFFICES ASSUME NEW q \in Procs, NEW i \in DOMAIN work'[q]
                 PROVE  /\ Do(work'[q][i]) = "deliver" => Arg(work'[q][i]).dep # d
                        /\ Do(work'[q][i]) = "store" => On(work'[q][i]) # d
      BY DEF Settled
    <3>1. CASE q = p
      BY <2>14, <2>15, <3>1 DEF OfMonitor
    <3>2. CASE q \in spawned
      BY <2>4, <2>15, <3>2 DEF LooseSeq, Loose, OfMonitor
    <3>3. CASE q # p /\ q \notin spawned
      BY <2>1, <2>17, <3>3 DEF Settled
    <3> QED
      BY <3>1, <3>2, <3>3
  <2>18. Refiled /\ UNCHANGED <<scenario, countdown, flag, ended>>
    BY <2>1, RefiledSame DEF hookVars, counters
  <2>19. CountInv'
    BY <2>16, <2>17, <2>18, CountSame
  <2> QED
    BY <2>13, <2>19
<1> QED
  BY <1>2, <1>3

-----------------------------------------------------------------------------
(***************************************************************************)
(* The registry: monitors are filed, and none comes to light again.        *)
(***************************************************************************)
(* attach() files a hook under its event and task alone.                   *)
LEMMA FiledAfter ==
  ASSUME NEW event, NEW task, NEW hook, attach(event, task, hook)
  PROVE  /\ Filed(event, task)' = Append(Filed(event, task), hook)
         /\ \A e, t : <<e, t>> # <<event, task>> => Filed(e, t)' = Filed(e, t)
<1>1. filed' = Put(filed, <<event, task>>, Append(Filed(event, task), hook))
  BY DEF attach
<1>2. DOMAIN filed' = DOMAIN filed \cup {<<event, task>>}
  BY <1>1 DEF Put
<1>3. filed'[<<event, task>>] = Append(Filed(event, task), hook)
  BY <1>1 DEF Put
<1>4. ASSUME NEW e, NEW t, <<e, t>> # <<event, task>> PROVE Filed(e, t)' = Filed(e, t)
  <2>1. CASE <<e, t>> \in DOMAIN filed
    <3>1. filed'[<<e, t>>] = filed[<<e, t>>]
      BY <1>1, <1>4, <2>1 DEF Put
    <3> QED
      BY <1>2, <2>1, <3>1 DEF Filed
  <2>2. CASE <<e, t>> \notin DOMAIN filed
    BY <1>2, <1>4, <2>2 DEF Filed
  <2> QED
    BY <2>1, <2>2
<1>5. Filed(event, task)' = Append(Filed(event, task), hook)
  BY <1>2, <1>3 DEF Filed
<1> QED
  BY <1>4, <1>5

(* What attach() does to the monitors of the dependencies.                 *)
LEMMA FilesMonitors ==
  ASSUME Registry, OrderInv, UNCHANGED scenario, NEW event, NEW task, NEW hook,
         attach(event, task, hook), FitsIn(scenario, hook, event, task)
  PROVE  /\ \A e, t : \A h \in Range(Filed(e, t)') : FitsIn(scenario, h, e, t)
         /\ \A d : d # hook.dep => Monitors(d)' = Monitors(d) /\ (Watched(d)' => Watched(d))
<1>1. \A e, t : IsSeq(Filed(e, t))
  BY EntryMirrors
<1>2. ASSUME NEW e, NEW t
      PROVE  \/ Filed(e, t)' = Filed(e, t)
             \/ e = event /\ t = task /\ Filed(e, t)' = Append(Filed(e, t), hook)
  <2>1. CASE <<e, t>> = <<event, task>>
    <3>1. e = event /\ t = task
      BY <2>1
    <3> QED
      BY <3>1, FiledAfter
  <2>2. CASE <<e, t>> # <<event, task>>
    BY <2>2, FiledAfter
  <2> QED
    BY <2>1, <2>2
<1>3. ASSUME NEW e, NEW t, NEW h \in Range(Filed(e, t)') PROVE FitsIn(scenario, h, e, t)
  <2>1. h \in Range(Filed(e, t)) \/ (h = hook /\ e = event /\ t = task)
    <3>1. PICK f, g : f = Filed(e, t) /\ g = Filed(e, t)'
      OBVIOUS
    <3>2. IsSeq(f) /\ h \in Range(g)
      BY <1>1, <1>3, <3>1
    <3>3. g = f \/ (e = event /\ t = task /\ g = Append(f, hook))
      BY <1>2, <3>1
    <3>4. Range(Append(f, hook)) = Range(f) \cup {hook}
      BY <3>2, NewestBefore
    <3> QED
      BY <3>1, <3>2, <3>3, <3>4
  <2> QED
    BY <2>1 DEF OrderInv
<1>4. ASSUME NEW d, d # hook.dep
      PROVE  Monitors(d)' = Monitors(d) /\ (Watched(d)' => Watched(d))
  <2>1. PICK f, g : f = Filed(OnTaskEnd, scenario.deps[d].task)
                    /\ g = Filed(OnTaskEnd, scenario.deps[d].task)'
    OBVIOUS
  <2>2. IsSeq(f) /\ (g = f \/ g = Append(f, hook))
    BY <1>1, <1>2, <2>1
  <2>3. /\ Range(g) = Range(f) \/ Range(g) = Range(f) \cup {hook}
        /\ \A h \in Range(f) : h \in NewestOfEachType(g) => h \in NewestOfEachType(f)
    BY <2>2, NewestBefore
  <2>4. /\ Monitors(d) = {h \in Range(f) : h.dep = d}
        /\ Monitors(d)' = {h \in Range(g) : h.dep = d}
    BY <2>1 DEF Monitors
  <2>5. Monitors(d)' = Monitors(d)
    BY <1>4, <2>3, <2>4
  <2>6. PICK untouched : untouched = Untouched(OnTaskEnd, scenario.deps[d].task)
    OBVIOUS
  <2>7. untouched = Untouched(OnTaskEnd, scenario.deps[d].task)'
    BY <2>6 DEF Untouched, attach
  <2>8. /\ Watched(d) <=>
             untouched /\ Monitors(d) # {} /\ Monitors(d) \subseteq NewestOfEachType(f)
        /\ Watched(d)' <=>
             untouched /\ Monitors(d)' # {} /\ Monitors(d)' \subseteq NewestOfEachType(g)
    BY <2>1, <2>6, <2>7 DEF Watched
  <2>9. \A h \in Monitors(d) : h \in Range(f)
    BY <2>4
  <2> QED
    BY <2>3, <2>5, <2>8, <2>9
<1> QED
  BY <1>3, <1>4

(* A hook that is no monitor is attached.                                  *)
LEMMA RefiledFiles ==
  ASSUME FrameInv, Registry, OrderInv, UNCHANGED scenario, NEW event, NEW task, NEW hook,
         attach(event, task, hook), hook.dep = 0
  PROVE  Refiled
<1>1. FitsIn(scenario, hook, event, task)
  BY DEF FitsIn
<1>2. \A d \in DOMAIN scenario.deps : d # hook.dep
  BY DependenciesNamed
<1>3. \A d \in DOMAIN scenario.deps : Monitors(d)' = Monitors(d) /\ (Watched(d)' => Watched(d))
  BY <1>1, <1>2, FilesMonitors
<1>4. \A e, t : \A h \in Range(Filed(e, t)') : FitsIn(scenario, h, e, t)
  BY <1>1, FilesMonitors
<1> QED
  BY <1>3, <1>4 DEF Refiled

(* detach() attaches nothing, and leaves its mark on the entry.            *)
LEMMA RefiledDetach ==
  ASSUME OrderInv, UNCHANGED scenario, NEW event, NEW task, NEW T, detach(event, task, T)
  PROVE  Refiled
<1>1. filed' = filed /\ detached \subseteq detached'
  BY DEF detach
<1>2. \A e, t : Filed(e, t)' = Filed(e, t)
  BY <1>1 DEF Filed
<1>3. \A e, t : Untouched(e, t)' => Untouched(e, t)
  BY <1>1 DEF Untouched
<1>4. \A e, t : \A h \in Range(Filed(e, t)') : FitsIn(scenario, h, e, t)
  BY <1>2 DEF OrderInv
<1>5. ASSUME NEW d PROVE Monitors(d)' = Monitors(d) /\ (Watched(d)' => Watched(d))
  <2>1. Monitors(d)' = Monitors(d)
    BY <1>2 DEF Monitors
  <2> QED
    BY <1>2, <1>3, <2>1 DEF Watched
<1> QED
  BY <1>4, <1>5 DEF Refiled

(* The uses of the registry that have nothing to do with monitors.         *)
LEMMA HooksCount ==
  ASSUME FrameInv, Registry, OrderInv, CountInv, NEW p \in Procs,
         \/ attach_hook(p) \/ detach_hook(p) \/ shared(p) \/ instruct(p)
         \/ disable(p) \/ enable(p)
  PROVE  OrderInv' /\ CountInv'
<1> DEFINE s == scenario
           task == On(work[p][1])
<1>1. LooseSeq(s, <<>>) /\ {} \cap Clients = {}
  BY LooseLiteral
<1>2. \A event : IsSeq(event) => /\ LooseSeq(s, <<EmitOp(<<"OnHookAttach">> \o event, task)>>)
                                /\ LooseSeq(s, <<EmitOp(<<"OnHookDetach">> \o event, task)>>)
  BY LooseEmit, LooseLiteral
<1>3. \A do : At(p, do) => 1 \in DOMAIN work[p] /\ Do(work[p][1]) = do
  BY SeqShape DEF FrameInv, Stacks, At
<1>4. At(p, "attach") \/ At(p, "detach") => IsSeq(Arg(work[p][1]).event)
  BY <1>3 DEF OrderInv, Orderly, Placed
<1>5. ASSUME NEW event, IsSeq(event), NEW T,
             Files(p, event, task, [type |-> T, id |-> nextHook, dep |-> 0]),
             UNCHANGED counters, NEW do \in {"attach", "shared"}, At(p, do)
      PROVE  OrderInv' /\ CountInv'
  <2> DEFINE hook == [type |-> T, id |-> nextHook, dep |-> 0]
             ops == <<EmitOp(<<"OnHookAttach">> \o event, task)>>
  <2>1. hook.dep = 0
    OBVIOUS
  <2> HIDE DEF hook
  <2>2. /\ attach(event, task, hook) /\ Leaves(p, ops \o Tail(work[p]), res[p], {})
        /\ UNCHANGED scenario /\ UNCHANGED <<countdown, flag, ended>>
    BY <1>5 DEF Files, Proceeds, Leaves, counters, hook
  <2>3. Refiled
    BY <2>1, <2>2, RefiledFiles
  <2>4. LooseSeq(s, ops)
    BY <1>2, <1>5
  <2> HIDE DEF ops
  <2> QED
    BY <1>1, <1>5, <2>2, <2>3, <2>4, GoesOn
<1>6. ASSUME attach_hook(p) PROVE OrderInv' /\ CountInv'
  BY <1>4, <1>5, <1>6 DEF attach_hook
<1>7. ASSUME shared(p) PROVE OrderInv' /\ CountInv'
  <2>1. At(p, "shared") /\ UNCHANGED counters
    BY <1>7 DEF shared
  <2>2. CASE Proceeds(p, <<>>, res[p]) /\ UNCHANGED hookVars
    BY <1>1, <2>1, <2>2, Continuing DEF counters
  <2>3. CASE \E T : Files(p, <<"()">>, task, [type |-> T, id |-> nextHook, dep |-> 0])
    <3>1. IsSeq(<<"()">>)
      BY SeqLiteral
    <3> QED
      BY <1>5, <2>1, <2>3, <3>1
  <2> QED
    BY <1>7, <2>2, <2>3 DEF shared
<1>8. ASSUME detach_hook(p) PROVE OrderInv' /\ CountInv'
  <2> DEFINE call == Arg(work[p][1])
  <2>1. At(p, "detach") /\ IsSeq(call.event)
    BY <1>4, <1>8 DEF detach_hook
  <2>2. PICK ops : /\ ops = <<>> \/ ops = <<EmitOp(<<"OnHookDetach">> \o call.event, task)>>
                   /\ Proceeds(p, ops, res[p])
    BY <1>8 DEF detach_hook
  <2>3. detach(call.event, task, call.type) /\ UNCHANGED <<countdown, flag, ended>>
    BY <1>8 DEF detach_hook, counters
  <2>4. Leaves(p, ops \o Tail(work[p]), res[p], {}) /\ UNCHANGED scenario
    BY <2>2 DEF Proceeds, Leaves
  <2>5. Refiled
    BY <2>3, <2>4, RefiledDetach
  <2>6. LooseSeq(s, ops)
    BY <1>1, <1>2, <2>1, <2>2
  <2> QED
    BY <1>1, <2>1, <2>3, <2>4, <2>5, <2>6, GoesOn
<1>9. ASSUME instruct(p) PROVE OrderInv' /\ CountInv'
  <2>1. /\ At(p, "instruct") /\ UNCHANGED <<hookVars, countdown, flag, ended>>
        /\ Panics(p) \/ Proceeds(p, <<>>, res[p])
    BY <1>9 DEF instruct, counters
  <2> QED
    BY <1>1, <2>1, Panicking, Continuing
<1>10. ASSUME disable(p) \/ enable(p) PROVE OrderInv' /\ CountInv'
  <2>1. /\ At(p, "disable") \/ At(p, "enable")
        /\ Proceeds(p, <<>>, res[p]) /\ UNCHANGED <<hookVars, countdown, flag, ended>>
    BY <1>10 DEF disable, enable
  <2> QED
    BY <1>1, <2>1, Continuing
<1> QED
  BY <1>6, <1>7, <1>8, <1>9, <1>10

\* rest is what is below the step on top of p's stack.
Below(p, do, rest) ==
    /\ rest = Tail(work[p]) /\ Cut(p, 1, rest)
    /\ 1 \in DOMAIN work[p] /\ Do(work[p][1]) = do
    /\ Placed(scenario, p, work[p][1])
    /\ \A j \in DOMAIN work[p] : j = 1 \/ j > 1
    /\ \A j \in DOMAIN work[p] : j > 1 => MayTop(work[p][1], work[p][j])
    /\ \A j \in DOMAIN rest : \E i \in DOMAIN work[p] : i > 1 /\ rest[j] = work[p][i]
    /\ \A j \in DOMAIN rest : MayTop(work[p][1], rest[j])

(* A step on top is taken off; what is below it is left.                   *)
LEMMA TakenOff ==
  ASSUME FrameInv, OrderInv, NEW p \in Procs, NEW do, At(p, do)
  PROVE  \E rest : Below(p, do, rest)
<1>1. IsSeq(work[p]) /\ Len(work[p]) \in Nat /\ work[p] # <<>> /\ 1 \in DOMAIN work[p]
      /\ Len(work[p]) # 0 /\ DOMAIN work[p] = 1 .. Len(work[p])
  BY SeqShape DEF FrameInv, Stacks, At
<1>2. PICK rest : rest = Tail(work[p])
  OBVIOUS
<1>3. /\ IsSeq(rest) /\ Len(rest) = Len(work[p]) - 1
      /\ \A j \in 1 .. Len(rest) : rest[j] = work[p][j + 1]
  BY <1>1, <1>2, SeqTail
<1>4. Cut(p, 1, rest)
  BY <1>1, <1>3 DEF Cut
<1>5. \A j \in DOMAIN work[p] : j > 1 => MayTop(work[p][1], work[p][j])
  BY <1>1 DEF OrderInv, Orderly
<1>6. \A j \in DOMAIN rest : \E i \in DOMAIN work[p] : i > 1 /\ rest[j] = work[p][i]
  <2>1. DOMAIN rest = 1 .. Len(rest)
    BY <1>3, SeqShape
  <2>2. \A j \in DOMAIN rest : j + 1 \in DOMAIN work[p] /\ j + 1 > 1
    BY <1>1, <1>3, <2>1
  <2> QED
    BY <1>3, <2>1, <2>2
<1>7. Placed(scenario, p, work[p][1]) /\ \A j \in DOMAIN work[p] : j = 1 \/ j > 1
  BY <1>1 DEF OrderInv, Orderly
<1>8. \A j \in DOMAIN rest : MayTop(work[p][1], rest[j])
  BY <1>5, <1>6
<1>9. Do(work[p][1]) = do
  BY DEF At
<1>10. 1 \in DOMAIN work[p]
  BY <1>1
<1>11. Below(p, do, rest)
  BY <1>2, <1>4, <1>5, <1>6, <1>7, <1>8, <1>9, <1>10 DEF Below
<1> QED
  BY <1>11

(* A new dependency has seen no run yet.                                   *)
LEMMA DependCounts ==
  ASSUME FrameInv, Registry, OrderInv, CountInv, NEW p \in Procs, Depend(p)
  PROVE  OrderInv' /\ CountInv'
<1>0. PICK d : d = On(work[p][1])
  OBVIOUS
<1> DEFINE dep == scenario.deps[d]
           hook == [type |-> dep.kind, id |-> nextHook, dep |-> d]
           ops == <<EmitOp(<<"OnHookAttach">> \o OnTaskEnd, dep.task)>>
<1>1. /\ At(p, "depend") /\ countdown' = [countdown EXCEPT ![d] = dep.value]
      /\ UNCHANGED <<flag, ended>>
      /\ attach(OnTaskEnd, dep.task, hook) /\ Proceeds(p, ops, res[p])
  BY <1>0 DEF Depend, Files
<1>1a. PICK rest : Below(p, "depend", rest)
  <2>1. At(p, "depend")
    BY <1>1
  <2> QED
    BY <2>1, TakenOff
<1>2. /\ Cut(p, 1, rest) /\ rest = Tail(work[p])
      /\ 1 \in DOMAIN work[p] /\ Do(work[p][1]) = "depend"
      /\ Placed(scenario, p, work[p][1])
      /\ \A j \in DOMAIN work[p] : j > 1 => MayTop(work[p][1], work[p][j])
      /\ \A j \in DOMAIN rest : \E i \in DOMAIN work[p] : i > 1 /\ rest[j] = work[p][i]
  BY <1>1a DEF Below
<1>3. d \in DOMAIN scenario.deps
  BY <1>0, <1>2 DEF Placed
<1>4. Makes(p, d)
  BY <1>0, <1>2 DEF Makes
<1>5. Fresh(d)
  BY <1>3, <1>4 DEF CountInv, KeepsCount
<1>6. FitsIn(scenario, hook, OnTaskEnd, dep.task) /\ hook.dep = d
  BY <1>3 DEF FitsIn
<1>7. LooseSeq(scenario, ops)
  BY SeqLiteral, LooseEmit, LooseLiteral DEF OnTaskEnd
<1> HIDE DEF hook, ops
<1>8. Leaves(p, ops \o rest, res[p], {}) /\ UNCHANGED scenario /\ {} \cap Clients = {}
  BY <1>1, <1>2 DEF Proceeds, Leaves
<1>9. \A i \in DOMAIN work[p] : ~OfMonitor(work[p][i])
  <2>1. ~Calling(work[p][1])
    BY <1>2 DEF Calling
  <2> QED
    BY <1>2, <2>1, NoCallsBelow
<1>10. IsSeq(ops) /\ \A i \in DOMAIN ops : ~OfMonitor(ops[i]) /\ Do(ops[i]) # "depend"
  BY <1>7 DEF LooseSeq, Loose, Leads
<1>11. \A j \in DOMAIN rest : ~OfMonitor(rest[j])
  BY <1>2, <1>9
<1>12. Orderly(scenario, p, ops) /\ \A i \in DOMAIN ops, j \in DOMAIN rest : MayTop(ops[i], rest[j])
  BY <1>7, <1>11, LooseOrderly
<1>13. /\ \A e, t : \A h \in Range(Filed(e, t)') : FitsIn(scenario, h, e, t)
       /\ \A e : e # d => Monitors(e)' = Monitors(e) /\ (Watched(e)' => Watched(e))
  BY <1>1, <1>6, <1>8, FilesMonitors
<1>14. OrderInv'
  BY <1>2, <1>8, <1>10, <1>12, <1>13, OrderStep
<1>15. /\ \A q \in Procs : \A e \in DOMAIN scenario.deps :
            /\ Owes(q, e)' <=> Owes(q, e)
            /\ Stores(q, e)' <=> Stores(q, e)
            /\ Makes(q, e)' => Makes(q, e)
       /\ \A e \in DOMAIN scenario.deps : Settled(e) => Settled(e)'
  BY <1>2, <1>8, <1>9, <1>10, QuietStacks
<1>16. /\ countdown' \in [DOMAIN scenario.deps -> Int]
       /\ countdown'[d] = dep.value
       /\ \A e \in DOMAIN scenario.deps : e # d => countdown'[e] = countdown[e]
  <2>1. dep.value \in Int
    BY <1>3, DependencyFacts
  <2> HIDE DEF dep
  <2> QED
    BY <1>1, <1>3, <2>1 DEF CountInv
<1>17. ASSUME NEW e \in DOMAIN scenario.deps, e # d PROVE KeepsCount(e)'
  <2>1. KeepsCount(e)
    BY DEF CountInv
  <2>2. countdown'[e] = countdown[e] /\ ended'[e] = ended[e] /\ (e \in flag' <=> e \in flag)
    BY <1>1, <1>16, <1>17
  <2> QED
    BY <1>8, <1>13, <1>15, <1>17, <2>1, <2>2, CountStays
<1>18. KeepsCount(d)'
  <2>1. ASSUME NEW q \in Procs, Makes(q, d)' PROVE FALSE
    <3>1. q = p
      <4>1. Makes(q, d)
        BY <1>3, <1>15, <2>1
      <4> QED
        BY <1>3, <1>4, <4>1 DEF CountInv, KeepsCount
    <3>2. PICK i \in DOMAIN work'[p] : Do(work'[p][i]) = "depend" /\ On(work'[p][i]) = d
      BY <2>1, <3>1 DEF Makes
    <3>3. PICK j \in DOMAIN work[p] : j > 1 /\ work'[p][i] = work[p][j]
      <4>1. \/ \E j \in DOMAIN ops : work'[p][i] = ops[j]
            \/ \E j \in DOMAIN work[p] : j > 1 /\ work'[p][i] = work[p][j]
        BY <1>2, <1>8, <1>10, StackFrom
      <4> QED
        BY <1>10, <3>2, <4>1
    <3> QED
      BY <1>0, <1>2, <3>2, <3>3 DEF MayTop, Twins
  <2>2. Exact(d)'
    <3>1. Settled(d)' /\ ended'[d] = 0 /\ d \notin flag'
      BY <1>1, <1>3, <1>5, <1>15 DEF Fresh
    <3>2. Owing(d)' = {} /\ \A q \in Procs : ~Stores(q, d)'
      BY <3>1 DEF Settled, Owing, Owes, Stores
    <3>3. Cardinality(Owing(d)') = 0
      BY <3>2, FS_EmptySet
    <3>4. PICK v \in Nat : scenario'.deps[d].value = v /\ countdown'[d] = v /\ 0 < v
      BY <1>3, <1>8, <1>16, DependencyFacts
    <3>5. PICK n, k : n = 0 /\ k = 0
      OBVIOUS
    <3>6. /\ n \in Nat /\ k \in Nat /\ n >= k /\ n - k < v /\ v = v - (n - k) /\ ~(n - k >= v)
      BY <3>4, <3>5
    <3>7. (ended[d] = n /\ Cardinality(Owing(d)) = k /\ countdown[d] = v
           /\ scenario.deps[d].value = v)'
      BY <3>1, <3>3, <3>4, <3>5
    <3>8. (d \notin flag /\ \A q \in Procs : ~Stores(q, d))'
      BY <3>1, <3>2
    <3> QED
      BY <3>4, <3>6, <3>7, <3>8 DEF Exact
  <2> QED
    BY <2>1, <2>2 DEF KeepsCount
<1>19. ended' \in [DOMAIN scenario.deps -> Nat]
  BY <1>1 DEF CountInv
<1>20. CountInv'
  BY <1>8, <1>16, <1>17, <1>18, <1>19 DEF CountInv
<1> QED
  BY <1>14, <1>20

-----------------------------------------------------------------------------
(***************************************************************************)
(* Emissions, the calls of the monitors and the flags they raise.          *)
(***************************************************************************)
\* The calls that an emission makes.
Delivers(ops, event, task) ==
    /\ IsSeq(ops)
    /\ \A i \in DOMAIN ops :
        Do(ops[i]) = "deliver" /\ Arg(ops[i]) \in Range(Filed(event, task))
    /\ \A i, j \in DOMAIN ops : Arg(ops[i]).type = Arg(ops[j]).type => i = j
    /\ Untouched(event, task) =>
        \A h \in NewestOfEachType(Filed(event, task)) : \E i \in DOMAIN ops : Arg(ops[i]) = h

(* An emission calls the newest hooks, if nobody has detached a type, and  *)
(* touches nothing but the count of the runs that ended.                   *)
LEMMA EmitDelivers ==
  ASSUME FrameInv, Registry, NEW p \in Procs, Emit(p)
  PROVE  /\ \E ops : /\ Delivers(ops, Arg(work[p][1]), On(work[p][1]))
                     /\ Proceeds(p, ops, res[p])
         /\ At(p, "emit") /\ Sees(p, Arg(work[p][1]), On(work[p][1]))
         /\ UNCHANGED <<hookVars, countdown, flag>>
<1> DEFINE event == Arg(work[p][1])
           task == On(work[p][1])
           slots == Entry(event, task)
<1>1. /\ At(p, "emit") /\ Sees(p, event, task) /\ UNCHANGED <<hookVars, countdown, flag>>
      /\ IF Unreachable(slots)
         THEN Panics(p)
         ELSE \E s \in Snapshots(slots) :
                Proceeds(p, [i \in DOMAIN s |-> Op("deliver", task, s[i])], res[p])
  BY DEF Emit
<1>2. ~Unreachable(slots)
  BY NeverUnreachable
<1>3. PICK s \in Snapshots(slots) :
        Proceeds(p, [i \in DOMAIN s |-> Op("deliver", task, s[i])], res[p])
  BY <1>1, <1>2
<1>4. PICK ops : ops = [i \in DOMAIN s |-> Op("deliver", task, s[i])]
  OBVIOUS
<1>5. PICK part : /\ Mirrors(slots, part) /\ Range(part) \subseteq Range(Filed(event, task))
                  /\ Untouched(event, task) => part = Filed(event, task)
  BY EntryMirrors DEF Keeps
<1> HIDE DEF slots
<1>6. /\ DOMAIN s = DOMAIN slots
      /\ Range(s) = NewestOfEachType(part)
      /\ \A i, j \in DOMAIN s : s[i].type = s[j].type => i = j
  <2>1. /\ DOMAIN s = DOMAIN slots
        /\ Range(s) = NewestOfEachType(part)
        /\ \A i, j \in DOMAIN s : s[i] = s[j] => i = j
    BY <1>3, <1>5, SnapshotIsNewest
  <2>2. \A i \in DOMAIN s : s[i] \in NewestOfEachType(part)
    BY <2>1 DEF Range
  <2>3. IsSeq(part)
    BY <1>5 DEF Mirrors
  <2> QED
    BY <2>1, <2>2, <2>3, NewestOnce
<1>7. IsSeq(slots) /\ Len(slots) \in Nat /\ DOMAIN slots = 1 .. Len(slots)
  BY <1>5, SeqShape DEF Mirrors
<1>8. IsSeq(ops)
  <2>1. ops \in [1 .. Len(slots) -> Range(ops)]
    BY <1>4, <1>6, <1>7 DEF Range
  <2> QED
    BY <1>7, <2>1, SeqFunction
<1>9. DOMAIN ops = DOMAIN s
      /\ \A i \in DOMAIN s : Do(ops[i]) = "deliver" /\ Arg(ops[i]) = s[i]
  BY <1>4 DEF Op, Do, Arg
<1>10. Delivers(ops, event, task)
  <2>1. \A i \in DOMAIN ops : Arg(ops[i]) \in Range(Filed(event, task))
    <3>1. \A i \in DOMAIN s : s[i] \in Range(part)
      BY <1>6 DEF Range, NewestOfEachType
    <3> QED
      BY <1>5, <1>9, <3>1
  <2>2. \A h \in NewestOfEachType(part) : \E i \in DOMAIN ops : Arg(ops[i]) = h
    BY <1>6, <1>9 DEF Range
  <2> QED
    BY <1>5, <1>6, <1>8, <1>9, <2>1, <2>2 DEF Delivers
<1> QED
  BY <1>1, <1>3, <1>4, <1>10

\* The run that ends under p now matters to dependency d.
Matters(p, event, task, d) ==
    /\ event = OnTaskEnd
    /\ \E h \in Range(Filed(event, task)) : h.dep = d
    /\ Counts(scenario.deps[d].kind, res[p])

(* The runs that ended, after one more.                                    *)
LEMMA SeesMatters ==
  ASSUME FrameInv, CountInv, NEW p \in Procs, NEW event, NEW task, Sees(p, event, task),
         event = OnTaskEnd => res[p] \in {"ok", "err"}
  PROVE  /\ ended' \in [DOMAIN scenario.deps -> Nat]
         /\ \A d \in DOMAIN scenario.deps :
              ended'[d] = IF Matters(p, event, task, d) THEN ended[d] + 1 ELSE ended[d]
<1> DEFINE wanted(d) ==
             [runs |-> {"ok", "err"}, successful_runs |-> {"ok"},
              failed_runs |-> {"err"}][scenario.deps[d].kind]
           seen(d) == /\ event = OnTaskEnd
                      /\ \E h \in Range(Filed(event, task)) : h.dep = d
                      /\ res[p] \in wanted(d)
<1>1. ended \in [DOMAIN scenario.deps -> Nat]
  BY DEF CountInv
<1>2. ended' = [d \in DOMAIN ended |-> IF seen(d) THEN ended[d] + 1 ELSE ended[d]]
  BY DEF Sees
<1>3. ASSUME NEW d \in DOMAIN scenario.deps, event = OnTaskEnd
      PROVE  res[p] \in wanted(d) <=> Counts(scenario.deps[d].kind, res[p])
  <2>1. scenario.deps[d].kind \in {"runs", "successful_runs", "failed_runs"}
    BY DependencyFacts
  <2>2. PICK kind, r : kind = scenario.deps[d].kind /\ r = res[p]
    OBVIOUS
  <2>3. r \in {"ok", "err"} /\ kind \in {"runs", "successful_runs", "failed_runs"}
    BY <1>3, <2>1, <2>2
  <2>4. r \in [runs |-> {"ok", "err"}, successful_runs |-> {"ok"}, failed_runs |-> {"err"}][kind]
          <=> Counts(kind, r)
    BY <2>3 DEF Counts
  <2> QED
    BY <2>2, <2>4
<1>4. \A d \in DOMAIN scenario.deps : seen(d) <=> Matters(p, event, task, d)
  BY <1>3 DEF Matters
<1> HIDE DEF seen
<1>5. DOMAIN ended' = DOMAIN scenario.deps
      /\ \A d \in DOMAIN scenario.deps :
           ended'[d] = IF seen(d) THEN ended[d] + 1 ELSE ended[d]
  BY <1>1, <1>2
<1>6. \A d \in DOMAIN scenario.deps : ended[d] \in Nat /\ ended[d] + 1 \in Nat
  BY <1>1
<1>7. ended' \in [DOMAIN scenario.deps -> Nat]
  BY <1>1, <1>2, <1>6
<1> QED
  BY <1>4, <1>5, <1>7

(* The processes that owe d a run are finitely many.                       *)
LEMMA OwingIsFinite ==
  ASSUME NEW d
  PROVE  IsFiniteSet(Owing(d)) /\ Cardinality(Owing(d)) \in Nat
<1>1. Owing(d) \subseteq Procs /\ IsFiniteSet(Procs)
  BY ScenarioAssumption DEF Owing
<1>2. IsFiniteSet(Owing(d))
  BY <1>1, FS_Subset
<1> QED
  BY <1>2, FS_CardinalityType

(* A run that ends is seen later: the number of runs seen stays.           *)
LEMMA ExactOwing ==
  ASSUME FrameInv, CountInv, NEW d \in DOMAIN scenario.deps, Exact(d), UNCHANGED scenario,
         countdown'[d] = countdown[d], d \in flag' <=> d \in flag,
         \A q \in Procs : Stores(q, d)' <=> Stores(q, d),
         NEW p, p \notin Owing(d), Owing(d)' = Owing(d) \cup {p}, ended'[d] = ended[d] + 1
  PROVE  Exact(d)'
<1>1. PICK n, k, v, x, stores :
        /\ n = ended[d] /\ k = Cardinality(Owing(d)) /\ v = scenario.deps[d].value
        /\ x = countdown[d] /\ stores = {q \in Procs : Stores(q, d)}
  OBVIOUS
<1>2. n \in Nat /\ k \in Nat /\ v \in Nat
  <2>1. n \in Nat
    BY <1>1 DEF CountInv
  <2>2. k \in Nat
    BY <1>1, OwingIsFinite
  <2>3. v \in Nat
    BY <1>1, DependencyFacts
  <2> QED
    BY <2>1, <2>2, <2>3
<1>3. Cardinality(Owing(d)') = k + 1
  BY <1>1, OwingIsFinite, FS_AddElement
<1>4. /\ n >= k
      /\ n - k < v => x = v - (n - k) /\ d \notin flag /\ stores = {}
      /\ n - k >= v => d \in flag \/ stores # {}
  BY <1>1, <1>2 DEF Exact
<1>5. (n + 1) - (k + 1) = n - k
  BY <1>2
<1>6. /\ ended'[d] = n + 1 /\ countdown'[d] = x /\ scenario'.deps[d].value = v
      /\ \A q \in Procs : Stores(q, d)' <=> q \in stores
  BY <1>1
<1>7. \A q \in stores : q \in Procs
  BY <1>1
<1> QED
  BY <1>2, <1>3, <1>4, <1>5, <1>6, <1>7 DEF Exact

(* An emission: at the end of a run the monitors of its task are called.   *)
LEMMA EmitCounts ==
  ASSUME FrameInv, Registry, ResultIsPromised, OrderInv, CountInv, NEW p \in Procs, Emit(p),
         \A t \in DOMAIN scenario.root : Promised[scenario.root[t]] \subseteq Ends
  PROVE  OrderInv' /\ CountInv'
<1>1. PICK event, task : event = Arg(work[p][1]) /\ task = On(work[p][1])
  OBVIOUS
<1>2. PICK ops : Delivers(ops, event, task) /\ Proceeds(p, ops, res[p])
  BY <1>1, EmitDelivers
<1>3. At(p, "emit") /\ Sees(p, event, task) /\ UNCHANGED <<hookVars, countdown, flag>>
  BY <1>1, EmitDelivers
<1>4. PICK rest : Below(p, "emit", rest)
  BY <1>3, TakenOff
<1>5. Leaves(p, ops \o rest, res[p], {}) /\ UNCHANGED scenario /\ {} \cap Clients = {}
  BY <1>2, <1>4 DEF Proceeds, Leaves, Below
<1>6. /\ IsSeq(ops)
      /\ \A i \in DOMAIN ops :
           /\ Do(ops[i]) = "deliver"
           /\ Arg(ops[i]) \in Range(Filed(event, task))
  BY <1>2 DEF Delivers
<1>7. \A h \in Range(Filed(event, task)) : FitsIn(scenario, h, event, task)
  BY DEF OrderInv
<1>8. Refiled
  BY <1>3, <1>5, RefiledSame DEF hookVars
<1>9. \A d \in DOMAIN scenario.deps : d # 0
  BY DependenciesNamed
<1>10. CASE event # OnTaskEnd
  <2>1. \A i \in DOMAIN ops : Arg(ops[i]).dep = 0
    BY <1>6, <1>7, <1>10 DEF FitsIn
  <2>2. LooseSeq(scenario, ops)
    BY <1>6, <2>1 DEF LooseSeq, Loose, Leads, OfMonitor
  <2>3. ended' = ended
    <3>1. /\ ended \in [DOMAIN scenario.deps -> Nat] /\ ended' \in [DOMAIN scenario.deps -> Nat]
          /\ \A d \in DOMAIN scenario.deps : ended'[d] = ended[d]
      BY <1>3, <1>10, SeesMatters DEF Matters, CountInv
    <3> QED
      BY <3>1
  <2> QED
    BY <1>2, <1>3, <2>2, <2>3, Continuing
<1>11. CASE event = OnTaskEnd
  <2>1. Leads(work[p][1]) /\ ~Calling(work[p][1])
    BY <1>1, <1>4, <1>11 DEF Below, Leads, Calling
  <2>2. p \in DOMAIN scenario.clients
    BY <1>4, <2>1 DEF Below, Placed
  <2>3. Cut(p, 1, rest) /\ 1 \in DOMAIN work[p] /\ Do(work[p][1]) = "emit"
    BY <1>4 DEF Below
  <2>4. \A j \in DOMAIN rest : Asked(rest[j])
    BY <1>4, <2>1 DEF Below, MayTop
  <2>5. \A j \in DOMAIN rest : ~OfMonitor(rest[j]) /\ Do(rest[j]) \notin {"deliver", "store"}
    BY <2>4 DEF Asked, Offered, OfMonitor
  <2>6. \A i \in DOMAIN work[p] : ~OfMonitor(work[p][i])
    BY <2>1, <2>3, NoCallsBelow
  <2>7. Orderly(scenario, p, ops)
    <3>1. ASSUME NEW i \in DOMAIN ops PROVE Placed(scenario, p, ops[i])
      BY <1>6, <1>7, <2>2 DEF Placed, FitsIn
    <3>2. ASSUME NEW i \in DOMAIN ops, NEW j \in DOMAIN ops, i # j
          PROVE  ~Twins(ops[i], ops[j])
      <4> SUFFICES ASSUME Twins(ops[i], ops[j]) PROVE FALSE
        OBVIOUS
      <4>1. Arg(ops[i]).dep = Arg(ops[j]).dep /\ Arg(ops[i]).dep # 0
        BY <1>6 DEF Twins
      <4>2. Arg(ops[i]).type = Arg(ops[j]).type
        BY <1>6, <1>7, <4>1 DEF FitsIn
      <4> QED
        BY <1>2, <3>2, <4>2 DEF Delivers
    <3>3. DOMAIN ops = 1 .. Len(ops) /\ Len(ops) \in Nat
      BY <1>6, SeqShape
    <3>4. \A i, j \in DOMAIN ops : i < j => i # j
      BY <3>3
    <3>5. \A i \in DOMAIN ops : ~Leads(ops[i]) /\ Calling(ops[i])
      BY <1>6 DEF Leads, Calling
    <3> QED
      BY <3>1, <3>2, <3>4, <3>5 DEF Orderly, MayTop
  <2>8. \A i \in DOMAIN ops, j \in DOMAIN rest : MayTop(ops[i], rest[j])
    BY <1>6, <2>4, <2>5 DEF MayTop, Twins, Leads
  <2>9. OrderInv'
    BY <1>5, <1>6, <1>8, <2>3, <2>7, <2>8, OrderStep DEF Refiled
  <2>10. /\ res'[p] = res[p] /\ \A q \in Procs : q # p => work'[q] = work[q] /\ res'[q] = res[q]
         /\ \A i \in DOMAIN work'[p] :
              \/ \E j \in DOMAIN ops : work'[p][i] = ops[j]
              \/ \E j \in DOMAIN work[p] : j > 1 /\ work'[p][i] = work[p][j]
    BY <1>5, <1>6, <2>3, StackFrom
  <2>11. \A j \in DOMAIN ops : \E i \in DOMAIN work'[p] : work'[p][i] = ops[j]
    BY <1>5, <1>6, <2>3, StackKeeps
  <2>12. ASSUME NEW d \in DOMAIN scenario.deps
         PROVE  /\ ~Owes(p, d) /\ ~Stores(p, d) /\ ~Stores(p, d)'
                /\ Makes(p, d)' => Makes(p, d)
                /\ Owes(p, d)' <=> \E i \in DOMAIN ops :
                     Arg(ops[i]).dep = d /\ Counts(Arg(ops[i]).type, res[p])
                /\ \A q \in Procs : q # p =>
                     /\ Owes(q, d)' <=> Owes(q, d)
                     /\ Stores(q, d)' <=> Stores(q, d)
                     /\ Makes(q, d)' <=> Makes(q, d)
    <3>1. ~Owes(p, d) /\ ~Stores(p, d)
      BY <1>9, <2>6 DEF Owes, Stores, OfMonitor
    <3>2. ~Stores(p, d)'
      BY <1>6, <2>6, <2>10 DEF Stores, OfMonitor
    <3>3. Makes(p, d)' => Makes(p, d)
      BY <1>6, <2>10 DEF Makes
    <3>4. ASSUME Owes(p, d)'
          PROVE  \E i \in DOMAIN ops : Arg(ops[i]).dep = d /\ Counts(Arg(ops[i]).type, res[p])
      <4>1. PICK i \in DOMAIN work'[p] :
              /\ Do(work'[p][i]) = "deliver" /\ Arg(work'[p][i]).dep = d
              /\ Counts(Arg(work'[p][i]).type, res[p])
        BY <2>10, <3>4 DEF Owes
      <4>2. ~ \E j \in DOMAIN work[p] : work'[p][i] = work[p][j]
        BY <1>9, <2>6, <4>1 DEF OfMonitor
      <4> QED
        BY <2>10, <4>1, <4>2
    <3>5. ASSUME NEW i \in DOMAIN ops, Arg(ops[i]).dep = d, Counts(Arg(ops[i]).type, res[p])
          PROVE  Owes(p, d)'
      <4>1. PICK j \in DOMAIN work'[p] : work'[p][j] = ops[i]
        BY <2>11
      <4> QED
        BY <1>6, <2>10, <3>5, <4>1 DEF Owes
    <3>6. \A q \in Procs : q # p =>
            /\ Owes(q, d)' <=> Owes(q, d)
            /\ Stores(q, d)' <=> Stores(q, d)
            /\ Makes(q, d)' <=> Makes(q, d)
      BY <2>10 DEF Owes, Stores, Makes
    <3> QED
      BY <3>1, <3>2, <3>3, <3>4, <3>5, <3>6
  <2>13. res[p] \in {"ok", "err"}
    <3>1. res[p] \in Values
      BY <1>3, FirstStep
    <3>2. task \in DOMAIN scenario.root
      BY <1>1, <1>4, <1>11 DEF Below, Placed
    <3>3. res[p] \in Promised[scenario.root[task]]
      BY <1>1, <1>3, <1>11 DEF ResultIsPromised
    <3>4. res[p] \in Ends
      BY <3>2, <3>3
    <3> QED
      BY <3>1, <3>4 DEF Ends, Values, Outcomes
  <2>14. /\ ended' \in [DOMAIN scenario.deps -> Nat]
         /\ \A d \in DOMAIN scenario.deps :
              ended'[d] = IF Matters(p, event, task, d) THEN ended[d] + 1 ELSE ended[d]
    BY <1>3, <2>13, SeesMatters
  <2>15. ASSUME NEW d \in DOMAIN scenario.deps, \A i \in DOMAIN ops : Arg(ops[i]).dep # d,
                ~Matters(p, event, task, d)
         PROVE  KeepsCount(d)'
    <3>1. \A q \in Procs :
            /\ Owes(q, d)' <=> Owes(q, d)
            /\ Stores(q, d)' <=> Stores(q, d)
            /\ Makes(q, d)' => Makes(q, d)
      BY <2>12, <2>15
    <3>2. ASSUME Settled(d) PROVE Settled(d)'
      <4> SUFFICES ASSUME NEW q \in Procs, NEW i \in DOMAIN work'[q]
                   PROVE  /\ Do(work'[q][i]) = "deliver" => Arg(work'[q][i]).dep # d
                          /\ Do(work'[q][i]) = "store" => On(work'[q][i]) # d
        BY DEF Settled
      <4> QED
        BY <1>6, <2>10, <2>15, <3>2 DEF Settled
    <3>3. ended'[d] = ended[d] /\ countdown'[d] = countdown[d] /\ (d \in flag' <=> d \in flag)
      BY <1>3, <2>14, <2>15
    <3>4. /\ (\E q \in Procs : Makes(q, d)') /\ Monitors(d) = {} => Monitors(d)' = {}
          /\ Watched(d)' => Watched(d)
      BY <1>8 DEF Refiled
    <3>5. KeepsCount(d)
      BY DEF CountInv
    <3> QED
      BY <1>5, <3>1, <3>2, <3>3, <3>4, <3>5, CountStays
  <2>16. ASSUME NEW d \in DOMAIN scenario.deps, NEW h \in Range(Filed(event, task)), h.dep = d
         PROVE  KeepsCount(d)'
    <3>1. task = scenario.deps[d].task /\ h \in Monitors(d)
      BY <1>7, <1>9, <1>11, <2>16 DEF FitsIn, Monitors
    <3>2. KeepsCount(d)
      BY DEF CountInv
    <3>3. ASSUME NEW q \in Procs, Makes(q, d)' PROVE FALSE
      <4>1. Makes(q, d)
        BY <2>12, <3>3
      <4>2. Monitors(d) = {}
        BY <3>2, <4>1 DEF KeepsCount, Fresh
      <4> QED
        BY <3>1, <4>2
    <3>4. ASSUME Watched(d)' PROVE Exact(d)'
      <4>1. Watched(d) /\ Exact(d)
        BY <1>8, <3>2, <3>4 DEF Refiled, KeepsCount
      <4>2. Untouched(event, task) /\ h \in NewestOfEachType(Filed(event, task))
        BY <1>11, <3>1, <4>1 DEF Watched
      <4>3. PICK i \in DOMAIN ops : Arg(ops[i]) = h
        BY <1>2, <4>2 DEF Delivers
      <4>4. \A g \in Range(Filed(event, task)) : g.dep = d => g.type = scenario.deps[d].kind
        BY <1>7, <1>9 DEF FitsIn
      <4>5. Owes(p, d)' <=> Counts(scenario.deps[d].kind, res[p])
        BY <1>6, <2>12, <2>16, <4>3, <4>4
      <4>6. Matters(p, event, task, d) <=> Counts(scenario.deps[d].kind, res[p])
        BY <1>11, <2>16 DEF Matters
      <4>7. /\ countdown'[d] = countdown[d] /\ (d \in flag' <=> d \in flag)
            /\ \A q \in Procs : Stores(q, d)' <=> Stores(q, d)
        BY <1>3, <2>12
      <4>8. CASE Counts(scenario.deps[d].kind, res[p])
        <5>1. p \notin Owing(d) /\ Owing(d)' = Owing(d) \cup {p}
          BY <2>12, <4>5, <4>8 DEF Owing
        <5>2. ended'[d] = ended[d] + 1
          BY <2>14, <4>6, <4>8
        <5> QED
          BY <1>5, <4>1, <4>7, <5>1, <5>2, ExactOwing
      <4>9. CASE ~Counts(scenario.deps[d].kind, res[p])
        <5>1. Owing(d)' = Owing(d)
          BY <2>12, <4>5, <4>9 DEF Owing
        <5>2. ended'[d] = ended[d]
          BY <2>14, <4>6, <4>9
        <5> QED
          BY <1>5, <4>1, <4>7, <5>1, <5>2 DEF Exact
      <4> QED
        BY <4>8, <4>9
    <3> QED
      BY <3>3, <3>4 DEF KeepsCount
  <2>17. \A d \in DOMAIN scenario.deps : KeepsCount(d)'
    <3> SUFFICES ASSUME NEW d \in DOMAIN scenario.deps PROVE KeepsCount(d)'
      OBVIOUS
    <3>1. CASE \E h \in Range(Filed(event, task)) : h.dep = d
      BY <2>16, <3>1
    <3>2. CASE ~ \E h \in Range(Filed(event, task)) : h.dep = d
      BY <1>6, <2>15, <3>2 DEF Matters
    <3> QED
      BY <3>1, <3>2
  <2>18. CountInv'
    BY <1>3, <1>5, <2>14, <2>17 DEF CountInv
  <2> QED
    BY <2>9, <2>18
<1> QED
  BY <1>10, <1>11

(* What is on the stack of p after the step on top of it.                  *)
LEMMA TopStacks ==
  ASSUME FrameInv, NEW p \in Procs, NEW do, NEW rest, Below(p, do, rest), NEW ops,
         IsSeq(ops), Leaves(p, ops \o rest, res[p], {}),
         \A i \in DOMAIN ops : Do(ops[i]) \notin {"deliver", "depend"}
  PROVE  /\ \A q \in Procs : q # p => work'[q] = work[q] /\ res'[q] = res[q]
         /\ \A d : Owes(p, d)' <=>
              \E j \in DOMAIN work[p] :
                /\ j > 1 /\ Do(work[p][j]) = "deliver" /\ Arg(work[p][j]).dep = d
                /\ Counts(Arg(work[p][j]).type, res[p])
         /\ \A d : Stores(p, d)' <=>
              \/ \E i \in DOMAIN ops : Do(ops[i]) = "store" /\ On(ops[i]) = d
              \/ \E j \in DOMAIN work[p] :
                   j > 1 /\ Do(work[p][j]) = "store" /\ On(work[p][j]) = d
         /\ \A d : Makes(p, d)' => Makes(p, d)
<1>1. Cut(p, 1, rest)
  BY DEF Below
<1>2. /\ res'[p] = res[p] /\ \A q \in Procs : q # p => work'[q] = work[q] /\ res'[q] = res[q]
      /\ \A i \in DOMAIN work'[p] :
           \/ \E j \in DOMAIN ops : work'[p][i] = ops[j]
           \/ \E j \in DOMAIN work[p] : j > 1 /\ work'[p][i] = work[p][j]
  BY <1>1, StackFrom
<1>3. /\ \A j \in DOMAIN ops : \E i \in DOMAIN work'[p] : work'[p][i] = ops[j]
      /\ \A j \in DOMAIN work[p] : j > 1 => \E i \in DOMAIN work'[p] : work'[p][i] = work[p][j]
  BY <1>1, StackKeeps
<1>4. ASSUME NEW d
      PROVE  Owes(p, d)' <=>
              \E j \in DOMAIN work[p] :
                /\ j > 1 /\ Do(work[p][j]) = "deliver" /\ Arg(work[p][j]).dep = d
                /\ Counts(Arg(work[p][j]).type, res[p])
  <2>1. ASSUME Owes(p, d)'
        PROVE  \E j \in DOMAIN work[p] :
                /\ j > 1 /\ Do(work[p][j]) = "deliver" /\ Arg(work[p][j]).dep = d
                /\ Counts(Arg(work[p][j]).type, res[p])
    <3>1. PICK i \in DOMAIN work'[p] :
            /\ Do(work'[p][i]) = "deliver" /\ Arg(work'[p][i]).dep = d
            /\ Counts(Arg(work'[p][i]).type, res[p])
      BY <1>2, <2>1 DEF Owes
    <3>2. PICK j \in DOMAIN work[p] : j > 1 /\ work'[p][i] = work[p][j]
      BY <1>2, <3>1
    <3> QED
      BY <3>1, <3>2
  <2>2. ASSUME NEW j \in DOMAIN work[p], j > 1, Do(work[p][j]) = "deliver",
               Arg(work[p][j]).dep = d, Counts(Arg(work[p][j]).type, res[p])
        PROVE  Owes(p, d)'
    <3>1. PICK i \in DOMAIN work'[p] : work'[p][i] = work[p][j]
      BY <1>3, <2>2
    <3> QED
      BY <1>2, <2>2, <3>1 DEF Owes
  <2> QED
    BY <2>1, <2>2
<1>5. ASSUME NEW d
      PROVE  Stores(p, d)' <=>
              \/ \E i \in DOMAIN ops : Do(ops[i]) = "store" /\ On(ops[i]) = d
              \/ \E j \in DOMAIN work[p] :
                   j > 1 /\ Do(work[p][j]) = "store" /\ On(work[p][j]) = d
  <2>1. \A i \in DOMAIN work'[p] : Do(work'[p][i]) = "store" /\ On(work'[p][i]) = d =>
              \/ \E j \in DOMAIN ops : Do(ops[j]) = "store" /\ On(ops[j]) = d
              \/ \E j \in DOMAIN work[p] :
                   j > 1 /\ Do(work[p][j]) = "store" /\ On(work[p][j]) = d
    BY <1>2
  <2>2. \A j \in DOMAIN ops : Do(ops[j]) = "store" /\ On(ops[j]) = d =>
              \E i \in DOMAIN work'[p] : Do(work'[p][i]) = "store" /\ On(work'[p][i]) = d
    BY <1>3
  <2>3. \A j \in DOMAIN work[p] : j > 1 /\ Do(work[p][j]) = "store" /\ On(work[p][j]) = d =>
              \E i \in DOMAIN work'[p] : Do(work'[p][i]) = "store" /\ On(work'[p][i]) = d
    BY <1>3
  <2> QED
    BY <2>1, <2>2, <2>3 DEF Stores
<1>6. ASSUME NEW d, Makes(p, d)' PROVE Makes(p, d)
  <2>1. PICK i \in DOMAIN work'[p] : Do(work'[p][i]) = "depend" /\ On(work'[p][i]) = d
    BY <1>6 DEF Makes
  <2>2. PICK j \in DOMAIN work[p] : work'[p][i] = work[p][j]
    BY <1>2, <2>1
  <2> QED
    BY <2>1, <2>2 DEF Makes
<1> QED
  BY <1>2, <1>4, <1>5, <1>6

(* The same for a dependency that the step on top is not about.            *)
LEMMA TopElsewhere ==
  ASSUME FrameInv, NEW p \in Procs, NEW do, NEW rest, Below(p, do, rest), NEW ops,
         IsSeq(ops), Leaves(p, ops \o rest, res[p], {}),
         \A i \in DOMAIN ops : Do(ops[i]) \notin {"deliver", "depend"},
         NEW d,
         \A i \in DOMAIN ops : ~(Do(ops[i]) = "store" /\ On(ops[i]) = d),
         ~ /\ Do(work[p][1]) = "deliver" /\ Arg(work[p][1]).dep = d
           /\ Counts(Arg(work[p][1]).type, res[p]),
         ~(Do(work[p][1]) = "store" /\ On(work[p][1]) = d)
  PROVE  /\ \A q \in Procs :
              /\ Owes(q, d)' <=> Owes(q, d)
              /\ Stores(q, d)' <=> Stores(q, d)
              /\ Makes(q, d)' => Makes(q, d)
         /\ Settled(d) => Settled(d)'
<1>1. \A j \in DOMAIN work[p] : j = 1 \/ j > 1
  BY DEF Below
<1>2. /\ \A q \in Procs : q # p => work'[q] = work[q] /\ res'[q] = res[q]
      /\ Owes(p, d)' <=>
              \E j \in DOMAIN work[p] :
                /\ j > 1 /\ Do(work[p][j]) = "deliver" /\ Arg(work[p][j]).dep = d
                /\ Counts(Arg(work[p][j]).type, res[p])
      /\ Stores(p, d)' <=>
              \/ \E i \in DOMAIN ops : Do(ops[i]) = "store" /\ On(ops[i]) = d
              \/ \E j \in DOMAIN work[p] :
                   j > 1 /\ Do(work[p][j]) = "store" /\ On(work[p][j]) = d
      /\ Makes(p, d)' => Makes(p, d)
  BY TopStacks
<1>3. Owes(p, d) <=>
        \E j \in DOMAIN work[p] :
           /\ j > 1 /\ Do(work[p][j]) = "deliver" /\ Arg(work[p][j]).dep = d
           /\ Counts(Arg(work[p][j]).type, res[p])
  BY <1>1 DEF Owes
<1>4. Stores(p, d) <=>
        \E j \in DOMAIN work[p] : j > 1 /\ Do(work[p][j]) = "store" /\ On(work[p][j]) = d
  BY <1>1 DEF Stores
<1>5. ASSUME NEW q \in Procs
      PROVE  /\ Owes(q, d)' <=> Owes(q, d)
             /\ Stores(q, d)' <=> Stores(q, d)
             /\ Makes(q, d)' => Makes(q, d)
  <2>1. CASE q = p
    BY <1>2, <1>3, <1>4, <2>1
  <2>2. CASE q # p
    BY <1>2, <2>2 DEF Owes, Stores, Makes
  <2> QED
    BY <2>1, <2>2
<1>6. ASSUME Settled(d) PROVE Settled(d)'
  <2>1. \A i \in DOMAIN work'[p] :
           \/ \E j \in DOMAIN ops : work'[p][i] = ops[j]
           \/ \E j \in DOMAIN work[p] : j > 1 /\ work'[p][i] = work[p][j]
    BY StackFrom DEF Below
  <2> SUFFICES ASSUME NEW q \in Procs, NEW i \in DOMAIN work'[q]
               PROVE  /\ Do(work'[q][i]) = "deliver" => Arg(work'[q][i]).dep # d
                      /\ Do(work'[q][i]) = "store" => On(work'[q][i]) # d
    BY DEF Settled
  <2> QED
    BY <1>2, <1>6, <2>1 DEF Settled
<1> QED
  BY <1>5, <1>6

(* The flag that a monitor raises.                                         *)
LEMMA StoreFlagCounts ==
  ASSUME FrameInv, OrderInv, CountInv, NEW p \in Procs, StoreFlag(p)
  PROVE  OrderInv' /\ CountInv'
<1>1. PICK e : e = On(work[p][1])
  OBVIOUS
<1>2. /\ At(p, "store") /\ flag' = flag \cup {e} /\ Proceeds(p, <<>>, res[p])
      /\ UNCHANGED <<hookVars, countdown, ended>>
  BY <1>1 DEF StoreFlag
<1>3. PICK rest : Below(p, "store", rest)
  BY <1>2, TakenOff
<1>4. /\ Leaves(p, <<>> \o rest, res[p], {}) /\ UNCHANGED scenario /\ {} \cap Clients = {}
      /\ Cut(p, 1, rest) /\ 1 \in DOMAIN work[p] /\ Do(work[p][1]) = "store"
  BY <1>2, <1>3 DEF Proceeds, Leaves, Below
<1>5. Refiled
  BY <1>2, <1>4, RefiledSame DEF hookVars
<1>6. PICK ops : ops = <<>>
  OBVIOUS
<1>7. IsSeq(ops) /\ DOMAIN ops = {} /\ Leaves(p, ops \o rest, res[p], {})
  BY <1>4, <1>6, SeqEmpty
<1>8. OrderInv'
  BY <1>4, <1>5, <1>7, OrderStep DEF Refiled, Orderly
<1>9. ASSUME NEW d \in DOMAIN scenario.deps, d # e PROVE KeepsCount(d)'
  <2>1. /\ \A q \in Procs :
             /\ Owes(q, d)' <=> Owes(q, d)
             /\ Stores(q, d)' <=> Stores(q, d)
             /\ Makes(q, d)' => Makes(q, d)
        /\ Settled(d) => Settled(d)'
    BY <1>1, <1>3, <1>4, <1>7, <1>9, TopElsewhere
  <2>2. /\ KeepsCount(d) /\ countdown'[d] = countdown[d] /\ ended'[d] = ended[d]
        /\ d \in flag' <=> d \in flag
    BY <1>2, <1>9 DEF CountInv
  <2>3. /\ (\E q \in Procs : Makes(q, d)') /\ Monitors(d) = {} => Monitors(d)' = {}
        /\ Watched(d)' => Watched(d)
    BY <1>5 DEF Refiled
  <2> QED
    BY <1>4, <2>1, <2>2, <2>3, CountStays
<1>10. ASSUME e \in DOMAIN scenario.deps PROVE KeepsCount(e)'
  <2>1. KeepsCount(e)
    BY <1>10 DEF CountInv
  <2>2. Stores(p, e) /\ ~Settled(e)
    BY <1>1, <1>4 DEF Stores, Settled
  <2>3. /\ \A q \in Procs : q # p => work'[q] = work[q] /\ res'[q] = res[q]
        /\ Makes(p, e)' => Makes(p, e)
        /\ Owes(p, e)' <=>
              \E j \in DOMAIN work[p] :
                /\ j > 1 /\ Do(work[p][j]) = "deliver" /\ Arg(work[p][j]).dep = e
                /\ Counts(Arg(work[p][j]).type, res[p])
    BY <1>3, <1>7, TopStacks
  <2>4. Owes(p, e)' <=> Owes(p, e)
    <3>1. \A j \in DOMAIN work[p] : j = 1 \/ j > 1
      BY <1>3 DEF Below
    <3> QED
      BY <1>4, <2>3, <3>1 DEF Owes
  <2>5. ASSUME NEW q \in Procs, Makes(q, e)' PROVE FALSE
    <3>1. Makes(q, e)
      BY <2>3, <2>5 DEF Makes
    <3> QED
      BY <2>1, <2>2, <3>1 DEF KeepsCount, Fresh
  <2>6. Owing(e)' = Owing(e)
    <3>1. \A q \in Procs : Owes(q, e)' <=> Owes(q, e)
      BY <2>3, <2>4 DEF Owes
    <3> QED
      BY <3>1 DEF Owing
  <2>7. ASSUME Watched(e)' PROVE Exact(e)'
    <3>1. Exact(e)
      BY <1>5, <1>10, <2>1, <2>7 DEF Refiled, KeepsCount
    <3>2. PICK n, k, v : n = ended[e] /\ k = Cardinality(Owing(e)) /\ v = scenario.deps[e].value
      OBVIOUS
    <3>3. n \in Nat /\ k \in Nat /\ v \in Nat
      <4>1. n \in Nat
        BY <1>10, <3>2 DEF CountInv
      <4>2. k \in Nat
        BY <3>2, OwingIsFinite
      <4>3. v \in Nat
        BY <1>10, <3>2, DependencyFacts
      <4> QED
        BY <4>1, <4>2, <4>3
    <3>4. n - k >= 0 /\ ~(n - k < v)
      BY <2>2, <3>1, <3>2 DEF Exact
    <3>5. e \in flag' /\ ended'[e] = n /\ Cardinality(Owing(e)') = k /\ scenario'.deps[e].value = v
      BY <1>2, <1>4, <2>6, <3>2
    <3> QED
      BY <3>4, <3>5 DEF Exact
  <2> QED
    BY <2>5, <2>7 DEF KeepsCount
<1>11. CountInv'
  BY <1>2, <1>4, <1>9, <1>10 DEF CountInv
<1> QED
  BY <1>8, <1>11

(* The u16 counter takes one off.                                          *)
LEMMA OneLess ==
  ASSUME NEW x \in Nat, 0 < x, x < 65536
  PROVE  (x + 65535) % 65536 = x - 1
<1>1. PICK y \in Nat : y = x - 1
  OBVIOUS
<1>2. x + 65535 = y + 65536 /\ y < 65536
  BY <1>1
<1>3. (y + 65536) % 65536 = y
  BY <1>2
<1> QED
  BY <1>1, <1>2, <1>3

(* One process fewer.                                                      *)
LEMMA OneFewer ==
  ASSUME NEW S, IsFiniteSet(S), NEW x \in S
  PROVE  /\ Cardinality(S) \in Nat /\ Cardinality(S) > 0
         /\ Cardinality(S \ {x}) = Cardinality(S) - 1
<1>1. Cardinality(S \ {x}) = Cardinality(S) - 1
  BY FS_RemoveElement
<1>2. Cardinality(S) \in Nat /\ Cardinality(S) # 0
  BY FS_CardinalityType, FS_EmptySet
<1> QED
  BY <1>1, <1>2

(* A run that is taken off the counter has been seen.                      *)
LEMMA ExactSeeing ==
  ASSUME FrameInv, CountInv, NEW d \in DOMAIN scenario.deps, Exact(d), UNCHANGED scenario,
         0 < countdown[d] /\ countdown[d] < 65536 => countdown'[d] = countdown[d] - 1,
         ended'[d] = ended[d], d \in flag' <=> d \in flag,
         NEW p, p \in Owing(d), Owing(d)' = Owing(d) \ {p},
         (\E q \in Procs : Stores(q, d)') <=> (\E q \in Procs : Stores(q, d)) \/ Raises(d)
  PROVE  Exact(d)'
<1> DEFINE before == \E q \in Procs : Stores(q, d)
           after == \E q \in Procs : Stores(q, d)'
<1>1. PICK n, k, v, x :
        /\ n = ended[d] /\ k = Cardinality(Owing(d)) /\ v = scenario.deps[d].value
        /\ x = countdown[d]
  OBVIOUS
<1>2. n \in Nat /\ k \in Nat /\ v \in Nat /\ v < 65536
  <2>1. n \in Nat
    BY <1>1 DEF CountInv
  <2>2. k \in Nat
    BY <1>1, OwingIsFinite
  <2>3. v \in Nat /\ v < 65536
    BY <1>1, DependencyFacts
  <2> QED
    BY <2>1, <2>2, <2>3
<1>3. k > 0 /\ Cardinality(Owing(d)') = k - 1
  BY <1>1, OwingIsFinite, OneFewer
<1>4. PICK seen \in Nat : seen = n - k
  <2>1. n - k >= 0
    BY <1>1 DEF Exact
  <2> QED
    BY <1>2, <2>1
<1>5. n - (k - 1) = seen + 1
  BY <1>2, <1>4
<1>6. /\ seen < v => x = v - seen /\ d \notin flag /\ ~before
      /\ seen >= v => d \in flag \/ before
  BY <1>1, <1>4 DEF Exact
<1>7. after <=> before \/ x = 1
  BY <1>1 DEF Raises
<1>8. /\ ended'[d] = n /\ scenario'.deps[d].value = v /\ (d \in flag' <=> d \in flag)
      /\ 0 < x /\ x < 65536 => countdown'[d] = x - 1
  BY <1>1
<1>9. Exact(d)' <=>
        /\ seen + 1 >= 0
        /\ seen + 1 < v => countdown'[d] = v - (seen + 1) /\ d \notin flag' /\ ~after
        /\ seen + 1 >= v => d \in flag' \/ after
  BY <1>3, <1>5, <1>8 DEF Exact
<1> HIDE DEF before, after
<1>10. CASE seen >= v
  <2>1. d \in flag' \/ after
    BY <1>6, <1>7, <1>8, <1>10
  <2>2. seen + 1 >= v /\ ~(seen + 1 < v) /\ seen + 1 >= 0
    BY <1>2, <1>10
  <2> QED
    BY <1>9, <2>1, <2>2
<1>11. CASE seen < v
  <2>1. x = v - seen /\ d \notin flag /\ ~before
    BY <1>6, <1>11
  <2>2. x \in Nat /\ 0 < x /\ x < 65536
    BY <1>2, <1>11, <2>1
  <2>3. countdown'[d] = x - 1 /\ x - 1 = v - (seen + 1)
    BY <1>2, <1>8, <2>1, <2>2
  <2>4. (x = 1 /\ seen + 1 >= v /\ ~(seen + 1 < v)) \/ (x # 1 /\ ~(seen + 1 >= v))
    BY <1>2, <2>1, <2>2
  <2>5. seen + 1 >= 0
    OBVIOUS
  <2> QED
    BY <1>7, <1>8, <1>9, <2>1, <2>3, <2>4, <2>5
<1> QED
  BY <1>2, <1>10, <1>11

(* A hook that is called: a monitor takes one off its counter.             *)
LEMMA DeliverCounts ==
  ASSUME ~OverflowChecks, FrameInv, OrderInv, CountInv, NEW p \in Procs, Deliver(p)
  PROVE  OrderInv' /\ CountInv'
<1>1. PICK h, e : h = Arg(work[p][1]) /\ e = h.dep
  OBVIOUS
<1>2. At(p, "deliver")
  BY DEF Deliver
<1>3. PICK rest : Below(p, "deliver", rest)
  BY <1>2, TakenOff
<1>4. /\ Cut(p, 1, rest) /\ 1 \in DOMAIN work[p] /\ Do(work[p][1]) = "deliver"
      /\ rest = Tail(work[p]) /\ Placed(scenario, p, work[p][1])
      /\ \A j \in DOMAIN work[p] : j = 1 \/ j > 1
      /\ \A j \in DOMAIN work[p] : j > 1 => MayTop(work[p][1], work[p][j])
      /\ \A j \in DOMAIN rest : MayTop(work[p][1], rest[j])
  BY <1>3 DEF Below
<1>5. \A d \in DOMAIN scenario.deps : d # 0
  BY DependenciesNamed
<1>6. CASE ~(e # 0 /\ Counts(h.type, res[p]))
  <2>1. Continues(p, <<>>)
    BY <1>1, <1>6 DEF Deliver
  <2>2. PICK ops : ops = <<>>
    OBVIOUS
  <2>3. /\ IsSeq(ops) /\ DOMAIN ops = {} /\ Leaves(p, ops \o rest, res[p], {})
        /\ UNCHANGED <<hookVars, countdown, flag, ended>> /\ UNCHANGED scenario
        /\ {} \cap Clients = {}
    BY <1>4, <2>1, <2>2, SeqEmpty DEF Continues, Proceeds, Leaves, counters
  <2>4. Refiled
    BY <2>3, RefiledSame DEF hookVars
  <2>5. OrderInv'
    BY <1>4, <2>3, <2>4, OrderStep DEF Refiled, Orderly
  <2>6. ASSUME NEW d \in DOMAIN scenario.deps
        PROVE  /\ \A q \in Procs :
                    /\ Owes(q, d)' <=> Owes(q, d)
                    /\ Stores(q, d)' <=> Stores(q, d)
                    /\ Makes(q, d)' => Makes(q, d)
               /\ Settled(d) => Settled(d)'
    <3>1. ~ /\ Do(work[p][1]) = "deliver" /\ Arg(work[p][1]).dep = d
            /\ Counts(Arg(work[p][1]).type, res[p])
      BY <1>1, <1>5, <1>6
    <3>2. ~(Do(work[p][1]) = "store" /\ On(work[p][1]) = d)
      BY <1>4
    <3> QED
      BY <1>3, <2>3, <3>1, <3>2, TopElsewhere
  <2>7. CountInv'
    BY <2>3, <2>4, <2>6, CountSame
  <2> QED
    BY <2>5, <2>7
<1>7. CASE e # 0 /\ Counts(h.type, res[p])
  <2>1. MonitorCounts(p, e)
    BY <1>1, <1>7 DEF Deliver
  <2>2. PICK ops : /\ ops = IF Raises(e) THEN <<Op("store", e, 0)>> ELSE <<>>
                   /\ Proceeds(p, ops, res[p])
    BY <2>1 DEF MonitorCounts
  <2>3. /\ countdown' = [countdown EXCEPT ![e] = (@ + 65535) % 65536]
        /\ UNCHANGED <<hookVars, flag, ended>>
    BY <2>1 DEF MonitorCounts
  <2>4. /\ IsSeq(ops) /\ Leaves(p, ops \o rest, res[p], {}) /\ UNCHANGED scenario
        /\ {} \cap Clients = {}
    <3>1. IsSeq(ops)
      <4>1. \A a : IsSeq(<<a>>) /\ IsSeq(<<>>)
        BY SeqLiteral
      <4> QED
        BY <2>2, <4>1
    <3> QED
      BY <1>4, <2>2, <3>1 DEF Proceeds, Leaves
  <2>5. /\ \A i \in DOMAIN ops : Do(ops[i]) = "store" /\ On(ops[i]) = e
        /\ (\E i \in DOMAIN ops : Do(ops[i]) = "store" /\ On(ops[i]) = e) <=> Raises(e)
        /\ \A i, j \in DOMAIN ops : ~(i < j)
    <3>1. PICK a : a = Op("store", e, 0)
      OBVIOUS
    <3>2. Do(a) = "store" /\ On(a) = e
      BY <3>1 DEF Op, Do, On
    <3>3. DOMAIN <<a>> = {1} /\ <<a>>[1] = a /\ DOMAIN <<>> = {}
      OBVIOUS
    <3>4. /\ Raises(e) => DOMAIN ops = {1} /\ ops[1] = a
          /\ ~Raises(e) => DOMAIN ops = {}
      BY <2>2, <3>1, <3>3
    <3>5. \A i, j \in {1} : ~(i < j)
      OBVIOUS
    <3> QED
      BY <3>2, <3>4, <3>5
  <2>6. OfMonitor(work[p][1]) /\ ~Asked(work[p][1]) /\ e \in DOMAIN scenario.deps
        /\ h.type = scenario.deps[e].kind /\ p \in DOMAIN scenario.clients
    BY <1>1, <1>4, <1>7 DEF OfMonitor, Asked, Offered, Placed
  <2>7. Refiled
    BY <2>3, <2>4, RefiledSame DEF hookVars
  <2>8. OrderInv'
    <3>1. Orderly(scenario, p, ops)
      <4>1. \A i \in DOMAIN ops : Placed(scenario, p, ops[i])
        BY <2>5, <2>6 DEF Placed
      <4> QED
        BY <2>5, <4>1 DEF Orderly
    <3>2. ASSUME NEW i \in DOMAIN ops, NEW j \in DOMAIN rest PROVE MayTop(ops[i], rest[j])
      <4>1. Do(ops[i]) = "store"
        BY <2>5
      <4>2. MayTop(work[p][1], rest[j])
        BY <1>4
      <4>3. Asked(rest[j]) \/ Calling(rest[j])
        BY <2>6, <4>2 DEF MayTop
      <4> QED
        BY <4>1, <4>3 DEF MayTop, Leads, Calling, Twins
    <3> QED
      BY <1>4, <2>4, <2>7, <3>1, <3>2, OrderStep DEF Refiled
  <2>9. \A i \in DOMAIN ops : Do(ops[i]) \notin {"deliver", "depend"}
    BY <2>5
  <2>10. /\ countdown' \in [DOMAIN scenario.deps -> Int]
         /\ countdown'[e] = (countdown[e] + 65535) % 65536
         /\ \A d \in DOMAIN scenario.deps : d # e => countdown'[d] = countdown[d]
    <3>1. countdown \in [DOMAIN scenario.deps -> Int]
      BY DEF CountInv
    <3>2. PICK x : x = (countdown[e] + 65535) % 65536
      OBVIOUS
    <3>3. x \in Int
      <4>1. PICK y \in Int : y = countdown[e] + 65535
        BY <2>6, <3>1
      <4>2. y % 65536 \in Int
        OBVIOUS
      <4> QED
        BY <3>2, <4>1, <4>2
    <3>4. countdown' = [countdown EXCEPT ![e] = x]
      BY <2>3, <3>2
    <3> QED
      BY <2>6, <3>1, <3>2, <3>3, <3>4
  <2>11. ASSUME NEW d \in DOMAIN scenario.deps, d # e PROVE KeepsCount(d)'
    <3>1. /\ \A q \in Procs :
               /\ Owes(q, d)' <=> Owes(q, d)
               /\ Stores(q, d)' <=> Stores(q, d)
               /\ Makes(q, d)' => Makes(q, d)
          /\ Settled(d) => Settled(d)'
      <4>1. ~ /\ Do(work[p][1]) = "deliver" /\ Arg(work[p][1]).dep = d
              /\ Counts(Arg(work[p][1]).type, res[p])
        BY <1>1, <2>11
      <4>2. ~(Do(work[p][1]) = "store" /\ On(work[p][1]) = d)
        BY <1>4
      <4>3. \A i \in DOMAIN ops : ~(Do(ops[i]) = "store" /\ On(ops[i]) = d)
        BY <2>5, <2>11
      <4> QED
        BY <1>3, <2>4, <2>9, <4>1, <4>2, <4>3, TopElsewhere
    <3>2. /\ KeepsCount(d) /\ countdown'[d] = countdown[d] /\ ended'[d] = ended[d]
          /\ d \in flag' <=> d \in flag
      BY <2>3, <2>10, <2>11 DEF CountInv
    <3>3. /\ (\E q \in Procs : Makes(q, d)') /\ Monitors(d) = {} => Monitors(d)' = {}
          /\ Watched(d)' => Watched(d)
      BY <2>7 DEF Refiled
    <3> QED
      BY <2>4, <3>1, <3>2, <3>3, CountStays
  <2>12. KeepsCount(e)'
    <3>1. KeepsCount(e)
      BY <2>6 DEF CountInv
    <3>2. ~Settled(e) /\ p \in Owing(e)
      BY <1>1, <1>4, <1>7 DEF Settled, Owing, Owes
    <3>3. /\ \A q \in Procs : q # p => work'[q] = work[q] /\ res'[q] = res[q]
          /\ Makes(p, e)' => Makes(p, e)
          /\ Owes(p, e)' <=>
               \E j \in DOMAIN work[p] :
                 /\ j > 1 /\ Do(work[p][j]) = "deliver" /\ Arg(work[p][j]).dep = e
                 /\ Counts(Arg(work[p][j]).type, res[p])
          /\ Stores(p, e)' <=>
               \/ \E i \in DOMAIN ops : Do(ops[i]) = "store" /\ On(ops[i]) = e
               \/ \E j \in DOMAIN work[p] :
                    j > 1 /\ Do(work[p][j]) = "store" /\ On(work[p][j]) = e
      BY <1>3, <2>4, <2>9, TopStacks
    <3>4. ASSUME NEW q \in Procs, Makes(q, e)' PROVE FALSE
      <4>1. Makes(q, e)
        BY <3>3, <3>4 DEF Makes
      <4> QED
        BY <3>1, <3>2, <4>1 DEF KeepsCount, Fresh
    <3>5. ~Owes(p, e)'
      BY <1>1, <1>4, <1>7, <3>3 DEF MayTop, Twins
    <3>6. Owing(e)' = Owing(e) \ {p}
      <4>1. \A q \in Procs : q # p => (Owes(q, e)' <=> Owes(q, e))
        BY <3>3 DEF Owes
      <4> QED
        BY <3>5, <4>1 DEF Owing
    <3>7. Stores(p, e)' <=> Stores(p, e) \/ Raises(e)
      <4>1. Stores(p, e) <=>
              \E j \in DOMAIN work[p] :
                j > 1 /\ Do(work[p][j]) = "store" /\ On(work[p][j]) = e
        BY <1>4 DEF Stores
      <4> QED
        BY <2>5, <3>3, <4>1
    <3>8. \A q \in Procs : q # p => (Stores(q, e)' <=> Stores(q, e))
      BY <3>3 DEF Stores
    <3>9. ASSUME Watched(e)' PROVE Exact(e)'
      <4>1. Exact(e)
        BY <2>6, <2>7, <3>1, <3>9 DEF Refiled, KeepsCount
      <4>2. ended'[e] = ended[e] /\ (e \in flag' <=> e \in flag)
        BY <2>3
      <4>3. 0 < countdown[e] /\ countdown[e] < 65536 => countdown'[e] = countdown[e] - 1
        <5>1. PICK x \in Int : x = countdown[e]
          BY <2>6 DEF CountInv
        <5>2. 0 < x /\ x < 65536 => (x + 65535) % 65536 = x - 1
          BY <5>1, OneLess
        <5> QED
          BY <2>10, <5>1, <5>2
      <4>4. (\E q \in Procs : Stores(q, e)') <=> (\E q \in Procs : Stores(q, e)) \/ Raises(e)
        BY <3>7, <3>8
      <4>5. p \in Owing(e) /\ UNCHANGED scenario /\ e \in DOMAIN scenario.deps
        BY <2>4, <2>6, <3>2
      <4> QED
        BY <3>6, <4>1, <4>2, <4>3, <4>4, <4>5, ExactSeeing
    <3> QED
      BY <3>4, <3>9 DEF KeepsCount
  <2>13. CountInv'
    <3>1. ended' \in [DOMAIN scenario.deps -> Nat]
      BY <2>3 DEF CountInv
    <3> QED
      BY <2>4, <2>10, <2>11, <2>12, <3>1 DEF CountInv
  <2> QED
    BY <2>8, <2>13
<1> QED
  BY <1>6, <1>7

-----------------------------------------------------------------------------
(***************************************************************************)
(* The invariant.                                                          *)
(***************************************************************************)
(* Before the clients begin, no dependency is made yet.                    *)
LEMMA OrderInit == Init => OrderInv
<1> SUFFICES ASSUME Init PROVE OrderInv
  OBVIOUS
<1>1. /\ scenario \in Scenarios /\ doomed = {} /\ filed = << >>
      /\ work = [p \in Procs |-> IF p \in Clients THEN scenario.clients[p] ELSE <<>>]
  BY DEF Init, InitHooks
<1>2. \A event, task : Range(Filed(event, task)) = {}
  <2>1. \A event, task : Filed(event, task) = <<>>
    BY <1>1, SeqEmpty DEF Filed
  <2> QED
    BY <2>1, SeqEmpty DEF Range
<1>3. ASSUME NEW p \in Procs PROVE Orderly(scenario, p, work[p])
  <2>1. CASE p \in Clients
    <3>1. PICK ops : ops = scenario.clients[p]
      OBVIOUS
    <3>2. work[p] = ops /\ p \in DOMAIN scenario.clients
      BY <1>1, <2>1, <3>1 DEF Clients
    <3>3. ProperProgram(scenario, ops) /\ MadeOnce(scenario)
      BY <1>1, <3>1, <3>2, ScenarioAssumption DEF ProperDependencies
    <3>4. DOMAIN ops = 1 .. Len(ops) /\ Len(ops) \in Nat
      BY <3>3, SeqShape DEF ProperProgram
    <3>5. \A i \in DOMAIN ops :
            /\ Asked(ops[i]) /\ ~OfMonitor(ops[i])
            /\ Do(ops[i]) \notin {"deliver", "emit", "join"}
      BY <3>3 DEF ProperProgram, Asked, Offered, OfMonitor
    <3>6. \A i \in DOMAIN ops : Placed(scenario, p, ops[i])
      BY <3>2, <3>3, <3>5 DEF ProperProgram, Placed
    <3>7. ASSUME NEW i \in DOMAIN ops, NEW j \in DOMAIN ops, i < j
          PROVE  MayTop(ops[i], ops[j])
      <4>1. i # j
        BY <3>4, <3>7
      <4>2. ~Twins(ops[i], ops[j])
        BY <3>1, <3>2, <3>3, <3>5, <4>1 DEF Twins, MadeOnce
      <4> QED
        BY <3>5, <4>2 DEF MayTop
    <3> QED
      BY <3>2, <3>6, <3>7 DEF Orderly
  <2>2. CASE p \notin Clients
    <3>1. work[p] = <<>> /\ DOMAIN <<>> = {}
      BY <1>1, <2>2, SeqEmpty
    <3> QED
      BY <3>1 DEF Orderly
  <2> QED
    BY <2>1, <2>2
<1> QED
  BY <1>1, <1>2, <1>3 DEF OrderInv

(* ... and none has been counted for.                                      *)
LEMMA CountInit == Init => CountInv
<1> SUFFICES ASSUME Init PROVE CountInv
  OBVIOUS
<1>1. /\ scenario \in Scenarios /\ flag = {} /\ filed = << >>
      /\ work = [p \in Procs |-> IF p \in Clients THEN scenario.clients[p] ELSE <<>>]
      /\ countdown = [d \in DOMAIN scenario.deps |-> 0]
      /\ ended = [d \in DOMAIN scenario.deps |-> 0]
  BY DEF Init, InitHooks
<1>2. \A d : Monitors(d) = {}
  <2>1. \A event, task : Filed(event, task) = <<>>
    BY <1>1, SeqEmpty DEF Filed
  <2>2. Range(<<>>) = {}
    BY SeqEmpty DEF Range
  <2> QED
    BY <2>1, <2>2 DEF Monitors
<1>3. ASSUME NEW p \in Procs, NEW i \in DOMAIN work[p]
      PROVE  /\ p \in DOMAIN scenario.clients /\ work[p] = scenario.clients[p]
             /\ Do(work[p][i]) \in Offered
  <2>1. p \in Clients
    BY <1>1, <1>3, SeqEmpty
  <2>2. work[p] = scenario.clients[p] /\ p \in DOMAIN scenario.clients
    BY <1>1, <2>1 DEF Clients
  <2>3. ProperProgram(scenario, scenario.clients[p])
    BY <1>1, <2>2, ScenarioAssumption
  <2> QED
    BY <1>3, <2>2, <2>3 DEF ProperProgram
<1>4. \A d : Settled(d)
  BY <1>3 DEF Settled, Offered
<1>5. ASSUME NEW d \in DOMAIN scenario.deps PROVE KeepsCount(d)
  <2>1. Fresh(d)
    BY <1>1, <1>2, <1>4 DEF Fresh
  <2>2. ASSUME NEW p \in Procs, Makes(p, d), NEW q \in Procs, Makes(q, d) PROVE q = p
    <3>1. PICK i \in DOMAIN work[p] : Do(work[p][i]) = "depend" /\ On(work[p][i]) = d
      BY <2>2 DEF Makes
    <3>2. PICK j \in DOMAIN work[q] : Do(work[q][j]) = "depend" /\ On(work[q][j]) = d
      BY <2>2 DEF Makes
    <3>3. MadeOnce(scenario)
      BY <1>1, ScenarioAssumption DEF ProperDependencies
    <3> QED
      BY <1>3, <3>1, <3>2, <3>3 DEF MadeOnce
  <2>3. ~Watched(d)
    BY <1>2 DEF Watched
  <2> QED
    BY <2>1, <2>2, <2>3 DEF KeepsCount
<1>6. 0 \in Nat /\ 0 \in Int
  OBVIOUS
<1> QED
  BY <1>1, <1>5, <1>6 DEF CountInv

(* Every step of every process, and every deadline.                        *)
LEMMA CountNext ==
  ASSUME ~OverflowChecks, LeavesRunNothing
  PROVE  FrameInv /\ Registry /\ PromiseInv /\ OrderInv /\ CountInv /\ [Next]_vars
           => OrderInv' /\ CountInv'
<1> SUFFICES ASSUME FrameInv, Registry, PromiseInv, OrderInv, CountInv, [Next]_vars
             PROVE  OrderInv' /\ CountInv'
  OBVIOUS
<1>1. ASSUME UNCHANGED vars PROVE OrderInv' /\ CountInv'
  <2>1. UNCHANGED <<filed, detached, scenario, work, res, doomed, countdown, flag, ended>>
    BY <1>1 DEF vars, hookVars, counters
  <2>2. Refiled
    BY <2>1, RefiledSame
  <2>3. \A q \in Procs : \A d \in DOMAIN scenario.deps :
            /\ Owes(q, d)' <=> Owes(q, d)
            /\ Stores(q, d)' <=> Stores(q, d)
            /\ Makes(q, d)' => Makes(q, d)
    BY <2>1 DEF Owes, Stores, Makes
  <2>4. \A d \in DOMAIN scenario.deps : Settled(d) => Settled(d)'
    BY <2>1 DEF Settled
  <2>5. CountInv'
    BY <2>1, <2>2, <2>3, <2>4, CountSame
  <2>6. \A p \in Procs : Orderly(scenario', p, work'[p])
    BY <2>1 DEF OrderInv
  <2>7. \A event, task : \A h \in Range(Filed(event, task)') : FitsIn(scenario', h, event, task)
    BY <2>1, <2>2 DEF Refiled
  <2>8. doomed' \cap Clients' = {}
    BY <2>1 DEF OrderInv, Clients
  <2> QED
    BY <2>5, <2>6, <2>7, <2>8 DEF OrderInv, Orderly, FitsIn
<1>2. ASSUME NEW p \in Procs, FrameStep(p) PROVE OrderInv' /\ CountInv'
  BY <1>2, ExecuteCounts, ResumeCounts, RunCounts, ParallelCounts, JoinCounts DEF FrameStep
<1>3. ASSUME NEW p \in Procs, HookStep(p) PROVE OrderInv' /\ CountInv'
  <2>1. \A t \in DOMAIN scenario.root : Promised[scenario.root[t]] \subseteq Ends
    BY ScenarioAssumption, PromisesDefined DEF FrameInv, Promised
  <2>2. ResultIsPromised
    BY PromiseKept
  <2> QED
    BY <1>3, <2>1, <2>2, EmitCounts, DeliverCounts, StoreFlagCounts, HooksCount, DependCounts
    DEF HookStep
<1> QED
  BY <1>1, <1>2, <1>3, DropCounts, ElapseCounts DEF Next, Step

-----------------------------------------------------------------------------
(* The dependency attached last of its kind on a task is resolved exactly  *)
(* when as many matching runs have ended as it asks for, whoever ran the   *)
(* task and however its u16 counter wraps afterwards, in a build without   *)
(* overflow checks and where no leaf runs a task that a deadline around    *)
(* the leaf could cut off between the end of the run and the monitor       *)
(* (dependency.rs, impl_monitor_based_dependency).                         *)
THEOREM NewestMonitorIsExact ==
  ~OverflowChecks /\ LeavesRunNothing => (Spec => []NewestDependencyCounts)
<1> SUFFICES ASSUME ~OverflowChecks, LeavesRunNothing
             PROVE  Spec => []NewestDependencyCounts
  OBVIOUS
<1>1. Init => PromiseInv /\ OrderInv /\ CountInv
  BY PromiseInit, OrderInit, CountInit
<1>2. FrameInv /\ Registry /\ PromiseInv /\ OrderInv /\ CountInv /\ [Next]_vars
        => (PromiseInv /\ OrderInv /\ CountInv)'
  <2>1. FrameInv /\ Registry /\ PromiseInv /\ [Next]_vars => PromiseInv'
    BY PromiseNext
  <2>2. FrameInv /\ Registry /\ PromiseInv /\ OrderInv /\ CountInv /\ [Next]_vars
          => OrderInv' /\ CountInv'
    BY CountNext
  <2> QED
    BY <2>1, <2>2
<1>3. FrameInv /\ CountInv => NewestDependencyCounts
  <2> SUFFICES ASSUME FrameInv, CountInv, NEW d \in DOMAIN scenario.deps, Settled(d), Watched(d)
               PROVE  d \in flag <=> ended[d] >= scenario.deps[d].value
    BY DEF NewestDependencyCounts, Watched
  <2>1. Exact(d)
    BY DEF CountInv, KeepsCount
  <2>2. Owing(d) = {} /\ \A q \in Procs : ~Stores(q, d)
    BY DEF Settled, Owing, Owes, Stores
  <2>3. PICK n, v : n = ended[d] /\ v = scenario.deps[d].value
    OBVIOUS
  <2>4. n \in Nat /\ v \in Nat
    BY <2>3, DependencyFacts DEF CountInv
  <2>5. Cardinality(Owing(d)) = 0
    BY <2>2, FS_EmptySet
  <2>6. n - 0 = n /\ (n >= v \/ n < v) /\ ~(n >= v /\ n < v)
    BY <2>4
  <2> QED
    BY <2>1, <2>2, <2>3, <2>5, <2>6 DEF Exact
<1> QED
  BY <1>1, <1>2, <1>3, Invariants, PTL DEF Spec
=============================================================================
