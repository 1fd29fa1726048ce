-------------------------- MODULE IntegrationProofs --------------------------
(***************************************************************************)
(* What the journal calls integrated is on the caller's branch, what it    *)
(* intends cannot be pruned, no child is reported as failed while its work *)
(* is the caller's tip, nothing is relaunched at a tip the journal does    *)
(* not name, and parallel siblings that share a path never both land:      *)
(* proved for any number of children and commits, with crashes between any *)
(* two writes, workers that go on, retries and resets by an operator.  The *)
(* walk of the journal is a recursion, reasoned about through sets of      *)
(* states it cannot leave; where its end matters, for the callers that the *)
(* guard parks, the walk itself is a witness that every step extends.      *)
(***************************************************************************)
EXTENDS Integration, SequenceTheorems, FiniteSetTheorems, WellFoundedInduction, TLAPS

-----------------------------------------------------------------------------
(* The invariant. *)

\* A dispatch in flight has an engine and a running caller, who does not commit; an
\* integration is part of one, and so is a child that the engine launched.
Running ==
  /\ body # "no" => up /\ live[Caller] = "running"
  /\ body \in {"working", "failing"} => batch # None
  /\ at.step # "no" => body \in {"working", "failing"}
  /\ \A c \in Children : up /\ live[c] # "no" =>
       body \in {"working", "failing"} /\ c \in call.children \ done

\* A pushed frame has its branch, which grew from its base; the walk of a child sees
\* exits only.
Based ==
  /\ base[Caller] = <<>>
  /\ \A f \in Frames :
       /\ base[f] # None => tip[f] # None /\ IsPrefix(base[f], tip[f])
       /\ live[f] = "branched" => tip[f] # None
       /\ live[f] = "running" \/ blocked[f] # None => base[f] # None
  /\ \A c \in Children : \A i \in 1..Len(log[c]) : log[c][i].type = "exited"

\* An exited child has a head that grew from its base, and one that runs, or is about
\* to, has nothing left of an earlier attempt.
Exits ==
  \A c \in Children :
    /\ outcome[c] # "none" => base[c] # None /\ head[c] # None /\ IsPrefix(base[c], head[c])
    /\ live[c] = "branched" => outcome[c] # "ok"
    /\ live[c] = "running" => outcome[c] = "none" /\ ~popped[c] /\ integrating[c] = None

\* An intent grows from its base, and its candidate is the head of the child, or held
\* by the temporary ref.
Intended ==
  \A c \in Children : integrating[c] # None =>
    /\ IsPrefix(integrating[c].base, integrating[c].cand)
    /\ outcome[c] = "ok" => \/ integrating[c].cand = head[c]
                            \/ temp[c] = integrating[c].cand

\* What the integration in progress has done, step by step.
Landing ==
  LET c == at.child IN
  at.step # "no" =>
    /\ c \in call.children \ done /\ outcome[c] = "ok" /\ live[c] = "no"
    /\ at.step \in {"reapply", "intent"} => integrating[c] = None
    /\ at.step = "intent" => /\ IsPrefix(at.base, at.cand)
                             /\ at.cand = head[c] \/ temp[c] = at.cand
    /\ at.step \in {"advance", "landed"} =>
         integrating[c] = [base |-> at.base, cand |-> at.cand]
    /\ at.step = "landed" => IsPrefix(at.cand, tip[Caller])
    /\ at.step \in {"receipt", "pop"} => integrated[c] # None /\ integrating[c] = None
    /\ at.step = "fail" =>
         integrating[c] = None \/ integrating[c].cand # tip[Caller]

IInv == TypeOK /\ Running /\ Based /\ Exits /\ Intended /\ ReceiptsHold /\ Landing

-----------------------------------------------------------------------------
(* Prefixes. *)

LEMMA PrefixMeans ==
  ASSUME NEW s \in Tips, NEW t \in Tips
  PROVE  IsPrefix(s, t) <=> Len(s) <= Len(t) /\ \A i \in 1..Len(s) : s[i] = t[i]
<1> DEFINE S == Frames \X Nat
<1>1. /\ s \in Seq(S) /\ t \in Seq(S)
      /\ Len(s) \in Nat /\ Len(t) \in Nat
      /\ \A i \in 1..Len(s) : s[i] \in S
      /\ \A i \in 1..Len(t) : t[i] \in S
  BY LenProperties, ElementOfSeq DEF Tips
<1> HIDE DEF S
<1>2. CASE Len(s) <= Len(t)
  <2>1. /\ SubSeq(s, 1, Len(s)) \in Seq(S) /\ SubSeq(t, 1, Len(s)) \in Seq(S)
        /\ Len(SubSeq(s, 1, Len(s))) = Len(s) /\ Len(SubSeq(t, 1, Len(s))) = Len(s)
        /\ \A i \in 1..Len(s) : SubSeq(s, 1, Len(s))[i] = s[i]
                                /\ SubSeq(t, 1, Len(s))[i] = t[i]
    BY <1>1, <1>2, SubSeqProperties
  <2>2. (\A i \in 1..Len(s) : s[i] = t[i]) => SubSeq(s, 1, Len(s)) = SubSeq(t, 1, Len(s))
    BY <2>1, SeqEqual
  <2>3. SubSeq(s, 1, Len(s)) = SubSeq(t, 1, Len(s)) => \A i \in 1..Len(s) : s[i] = t[i]
    BY <2>1
  <2> QED BY <1>2, <2>2, <2>3 DEF IsPrefix
<1>3. CASE ~(Len(s) <= Len(t))
  BY <1>3 DEF IsPrefix
<1> QED BY <1>2, <1>3

LEMMA PrefixRefl ==
  ASSUME NEW s \in Tips PROVE IsPrefix(s, s)
<1>1. Len(s) \in Nat
  BY LenProperties DEF Tips
<1> QED BY <1>1, PrefixMeans

LEMMA PrefixTrans ==
  ASSUME NEW s \in Tips, NEW t \in Tips, NEW u \in Tips, IsPrefix(s, t), IsPrefix(t, u)
  PROVE  IsPrefix(s, u)
<1>1. Len(s) \in Nat /\ Len(t) \in Nat /\ Len(u) \in Nat
  BY LenProperties DEF Tips
<1>2. Len(s) <= Len(t) /\ \A i \in 1..Len(s) : s[i] = t[i]
  BY PrefixMeans
<1>3. Len(t) <= Len(u) /\ \A i \in 1..Len(t) : t[i] = u[i]
  BY PrefixMeans
<1>4. Len(s) <= Len(u) /\ \A i \in 1..Len(s) : s[i] = u[i]
  BY <1>1, <1>2, <1>3
<1> QED BY <1>4, PrefixMeans

\* The empty tip is one, and None is not.
LEMMA EmptyTip == <<>> \in Tips /\ None \notin Tips /\ None # <<>>
<1>1. <<>> \in Tips
  BY EmptySeq DEF Tips
<1>2. None \notin Tips
  BY ConstantsAssumption DEF Tips
<1> QED BY <1>1, <1>2

LEMMA PrefixEmpty ==
  ASSUME NEW t \in Tips PROVE IsPrefix(<<>>, t)
<1>1. Len(t) \in Nat /\ Len(<<>>) = 0
  BY LenProperties DEF Tips
<1>2. Len(<<>>) <= Len(t) /\ \A i \in 1..Len(<<>>) : <<>>[i] = t[i]
  BY <1>1
<1> QED BY <1>2, EmptyTip, PrefixMeans

\* A commit extends a tip.
LEMMA PrefixAppend ==
  ASSUME NEW t \in Tips, NEW e \in Frames \X Nat
  PROVE  Append(t, e) \in Tips /\ IsPrefix(t, Append(t, e))
<1>1. Append(t, e) \in Tips
  BY AppendProperties DEF Tips
<1>2. /\ Len(t) \in Nat /\ Len(Append(t, e)) = Len(t) + 1
      /\ \A i \in 1..Len(t) : Append(t, e)[i] = t[i]
  BY AppendProperties, LenProperties DEF Tips
<1>3. Len(t) <= Len(Append(t, e)) /\ \A i \in 1..Len(t) : t[i] = Append(t, e)[i]
  BY <1>2
<1> QED BY <1>1, <1>3, PrefixMeans

\* So do reapplied commits.
LEMMA PrefixConcat ==
  ASSUME NEW t \in Tips, NEW u \in Tips
  PROVE  t \o u \in Tips /\ IsPrefix(t, t \o u)
<1>1. /\ t \o u \in Tips
      /\ Len(t) \in Nat /\ Len(u) \in Nat /\ Len(t \o u) = Len(t) + Len(u)
      /\ \A i \in 1..Len(t) + Len(u) :
           (t \o u)[i] = IF i <= Len(t) THEN t[i] ELSE u[i - Len(t)]
  BY ConcatProperties, LenProperties DEF Tips
<1>2. Len(t) <= Len(t \o u) /\ \A i \in 1..Len(t) : t[i] = (t \o u)[i]
  BY <1>1
<1> QED BY <1>1, <1>2, PrefixMeans

-----------------------------------------------------------------------------
(* The walk of the journal. *)

LEMMA LeastElement ==
  ASSUME NEW S \in SUBSET Nat, S # {}
  PROVE  \E m \in S : \A n \in S : m <= n
<1> DEFINE T == {0 .. n : n \in S}
<1>1. T # {} /\ T \subseteq FiniteSubsetsOf(Nat)
  <2>1. T # {}
    OBVIOUS
  <2>2. \A n \in S : IsFiniteSet(0 .. n) /\ (0 .. n) \subseteq Nat
    BY FS_Interval
  <2> QED BY <2>1, <2>2 DEF FiniteSubsetsOf
<1>2. PICK X \in T : \A Y \in T : <<Y, X>> \notin StrictSubsetOrdering(Nat)
  <2>1. IsWellFoundedOn(StrictSubsetOrdering(Nat), FiniteSubsetsOf(Nat))
    BY FS_StrictSubsetOrderingWellFounded
  <2> HIDE DEF T
  <2> QED BY <1>1, <2>1, WFMin, Zenon
<1>3. PICK m \in S : X = 0 .. m
  OBVIOUS
<1>4. \A n \in S : m <= n
  <2> SUFFICES ASSUME NEW n \in S, n < m PROVE FALSE
    OBVIOUS
  <2>1. 0 .. n \in T /\ (0 .. n) \subseteq (0 .. m) /\ m \in 0 .. m /\ m \notin 0 .. n
    OBVIOUS
  <2>2. <<0 .. n, X>> \in StrictSubsetOrdering(Nat)
    BY <2>1, <1>3 DEF StrictSubsetOrdering
  <2> QED BY <2>1, <2>2, <1>2
<1> QED BY <1>4

Start(f) == [tip |-> base[f], pending |-> None]

\* A set that the walk begins in, and that no event of the log leads out of, has the
\* state in which the walk ends.
LEMMA WalkStays ==
  ASSUME NEW f, NEW S, Len(log[f]) \in Nat, Start(f) \in S,
         \A s \in S : \A i \in 1..Len(log[f]) : Walk(f, s, log[f][i]) \in S
  PROVE  Walked(f) \in S
<1> DEFINE L == Len(log[f])
           Good(n, g) == /\ g \in [0..n -> S] /\ g[0] = Start(f)
                         /\ \A i \in 1..n : g[i] = Walk(f, g[i - 1], log[f][i])
           Bad == {n \in Nat : n <= L /\ \A g : ~Good(n, g)}
           Rec(h) == h = [n \in 0..L |-> IF n = 0 THEN [tip |-> base[f], pending |-> None]
                                         ELSE Walk(f, h[n - 1], log[f][n])]
           w == CHOOSE h : Rec(h)
<1>1. Bad = {}
  <2> SUFFICES ASSUME Bad # {} PROVE FALSE
    OBVIOUS
  <2>1. PICK n \in Bad : \A m \in Bad : n <= m
    <3>1. Bad \in SUBSET Nat
      OBVIOUS
    <3> HIDE DEF Bad
    <3> QED BY <3>1, LeastElement
  <2>2. n \in Nat /\ n <= L
    OBVIOUS
  <2>3. n # 0
    <3>1. Good(0, [i \in 0..0 |-> Start(f)])
      OBVIOUS
    <3> HIDE DEF Good
    <3> QED BY <3>1
  <2>4. n - 1 \in Nat /\ n - 1 <= L /\ n - 1 \notin Bad
    <3>1. n - 1 \in Nat /\ n - 1 <= L /\ ~(n <= n - 1)
      BY <2>2, <2>3
    <3> HIDE DEF Bad
    <3> QED BY <2>1, <3>1
  <2>5. PICK g : Good(n - 1, g)
    BY <2>4
  <2> DEFINE k == [i \in 0..n |-> IF i = n THEN Walk(f, g[n - 1], log[f][n]) ELSE g[i]]
  <2>6. \A i \in 0..n - 1 : g[i] \in S /\ i \in 0..n
    BY <2>2, <2>5
  <2>7. Walk(f, g[n - 1], log[f][n]) \in S
    BY <2>2, <2>3, <2>6
  <2>8. k \in [0..n -> S]
    <3>1. ASSUME NEW i \in 0..n
          PROVE  (IF i = n THEN Walk(f, g[n - 1], log[f][n]) ELSE g[i]) \in S
      <4>1. CASE i = n
        BY <4>1, <2>7
      <4>2. CASE i # n
        BY <4>2, <2>2, <2>6
      <4> QED BY <4>1, <4>2
    <3> QED BY <3>1
  <2>9. k[0] = Start(f)
    <3>1. 0 \in 0..n /\ 0 # n
      BY <2>2, <2>3
    <3>2. k[0] = g[0]
      BY <3>1
    <3> QED BY <3>2, <2>5
  <2>10. ASSUME NEW i \in 1..n PROVE k[i] = Walk(f, k[i - 1], log[f][i])
    <3>1. i \in 0..n /\ i - 1 \in 0..n /\ i - 1 # n
      BY <2>2
    <3>2. k[i - 1] = g[i - 1]
      BY <3>1
    <3>3. CASE i = n
      BY <3>1, <3>2, <3>3
    <3>4. CASE i # n
      <4>1. i \in 1..n - 1
        BY <2>2, <3>4
      <4>2. k[i] = g[i]
        BY <3>1, <3>4
      <4> QED BY <4>1, <4>2, <3>2, <2>5
    <3> QED BY <3>3, <3>4
  <2>11. Good(n, k)
    <3> HIDE DEF k
    <3> QED BY <2>8, <2>9, <2>10
  <2> HIDE DEF k, Good
  <2> QED BY <2>1, <2>11
<1>2. PICK g : Good(L, g)
  <2>1. L \in Nat /\ L <= L
    OBVIOUS
  <2> HIDE DEF Good
  <2> QED BY <1>1, <2>1
<1>3. Rec(g)
  <2>1. g = [n \in 0..L |-> g[n]]
    BY <1>2
  <2>2. \A n \in 0..L : g[n] = IF n = 0 THEN Start(f) ELSE Walk(f, g[n - 1], log[f][n])
    BY <1>2
  <2> QED BY <2>1, <2>2 DEF Start
<1>4. Rec(w)
  BY <1>3, Zenon
<1>5. /\ w[0] = Start(f)
      /\ \A n \in 1..L : w[n] = Walk(f, w[n - 1], log[f][n])
  <2> HIDE DEF w
  <2>1. w = [n \in 0..L |-> IF n = 0 THEN [tip |-> base[f], pending |-> None]
                             ELSE Walk(f, w[n - 1], log[f][n])]
    BY <1>4
  <2>2. \A n \in 0..L : w[n] = IF n = 0 THEN [tip |-> base[f], pending |-> None]
                               ELSE Walk(f, w[n - 1], log[f][n])
    BY <2>1
  <2>3. 0 \in 0..L /\ \A n \in 1..L : n \in 0..L /\ n # 0
    OBVIOUS
  <2> QED BY <2>2, <2>3 DEF Start
<1> HIDE DEF w
<1>6. {n \in Nat : n <= L /\ w[n] \notin S} = {}
  <2> DEFINE B == {n \in Nat : n <= L /\ w[n] \notin S}
  <2> SUFFICES ASSUME B # {} PROVE FALSE
    OBVIOUS
  <2>1. PICK n \in B : \A m \in B : n <= m
    <3>1. B \in SUBSET Nat
      OBVIOUS
    <3> HIDE DEF B
    <3> QED BY <3>1, LeastElement
  <2>2. n \in Nat /\ n <= L /\ n # 0 /\ w[n] \notin S
    BY <1>5
  <2>3. n - 1 \in Nat /\ n - 1 <= L /\ n - 1 \notin B
    <3>1. n - 1 \in Nat /\ n - 1 <= L /\ ~(n <= n - 1)
      BY <2>2
    <3> HIDE DEF B
    <3> QED BY <2>1, <3>1
  <2>4. w[n - 1] \in S
    BY <2>3
  <2>5. n \in 1..L
    BY <2>2
  <2> QED BY <1>5, <2>2, <2>4, <2>5
<1>7. w[L] \in S
  BY <1>6
<1>8. Walked(f) = w[L]
  BY DEF Walked, w
<1> QED BY <1>7, <1>8

LEMMA ChildrenAreFrames ==
  /\ Children \subseteq Frames /\ Caller \in Frames /\ Caller \notin Children
  /\ Frames \ {Caller} = Children
BY ConstantsAssumption DEF Children, Frames, Caller

Entries == [type : {"called", "exited", "integrating", "integrated"}, base : Tips, tip : Tips]

LEMMA LogTypes ==
  ASSUME TypeOK, NEW f \in Frames
  PROVE  /\ Len(log[f]) \in Nat /\ DOMAIN log[f] = 1..Len(log[f])
         /\ \A i \in 1..Len(log[f]) : log[f][i] \in Entries
<1>1. log[f] \in Seq(Entries)
  BY DEF TypeOK, Entries
<1> QED BY <1>1, LenProperties, ElementOfSeq

\* Whatever the walk arrives at, an event names it.
LEMMA WalkIsNamed ==
  ASSUME TypeOK, NEW f \in Frames
  PROVE  /\ ExpectedTip(f) \in Named(f)
         /\ Explained(f) => tip[f] \in Named(f)
<1> DEFINE P == {e \in Entries : e.base \in Named(f) /\ e.tip \in Named(f)}
           S == [tip : Named(f), pending : {None} \cup P]
<1>1. Len(log[f]) \in Nat /\ \A i \in 1..Len(log[f]) : log[f][i] \in P
  <2>1. /\ Len(log[f]) \in Nat /\ DOMAIN log[f] = 1..Len(log[f])
        /\ \A i \in 1..Len(log[f]) : log[f][i] \in Entries
    BY LogTypes
  <2>2. \A i \in 1..Len(log[f]) : log[f][i].base \in Named(f) /\ log[f][i].tip \in Named(f)
    BY <2>1 DEF Named, ToSet
  <2> QED BY <2>1, <2>2
<1>2. Start(f) \in S
  BY DEF Start, Named
<1>3. ASSUME NEW s \in S, NEW e \in P PROVE Walk(f, s, e) \in S
  <2>1. e.type \in {"called", "exited", "integrating", "integrated"}
        /\ e.base \in Named(f) /\ e.tip \in Named(f)
    BY DEF Entries
  <2>2. [s EXCEPT !.tip = e.tip] \in S /\ [tip |-> e.base, pending |-> e] \in S
        /\ [tip |-> e.tip, pending |-> None] \in S
    <3> HIDE DEF P
    <3> QED BY <2>1
  <2> HIDE DEF P, S
  <2>3. CASE e.type = "called"
    BY <2>2, <2>3 DEF Walk
  <2>4. CASE e.type = "exited"
    BY <2>2, <2>4 DEF Walk
  <2>5. CASE e.type = "integrating"
    BY <2>2, <2>5 DEF Walk
  <2>6. CASE e.type = "integrated"
    BY <2>2, <2>6 DEF Walk
  <2> QED BY <2>1, <2>3, <2>4, <2>5, <2>6
<1>4. Walked(f) \in S
  <2> HIDE DEF P, S
  <2> QED BY <1>1, <1>2, <1>3, WalkStays
<1>5. ExpectedTip(f) \in Named(f)
  BY <1>4 DEF ExpectedTip
<1>6. Explained(f) => tip[f] \in Named(f)
  BY <1>4 DEF Explained
<1> QED BY <1>5, <1>6

LEMMA ExpectedTipTyped ==
  ASSUME TypeOK, NEW f \in Frames, base[f] # None
  PROVE  ExpectedTip(f) \in Tips
<1>1. /\ DOMAIN log[f] = 1..Len(log[f])
      /\ \A i \in 1..Len(log[f]) : log[f][i].base \in Tips /\ log[f][i].tip \in Tips
  BY LogTypes DEF Entries
<1>2. base[f] \in Tips
  BY DEF TypeOK
<1>3. Named(f) \subseteq Tips
  BY <1>1, <1>2 DEF Named, ToSet
<1> QED BY <1>3, WalkIsNamed

\* The walk of a child never leaves what grew from its base.
LEMMA ExpectedTipOfChild ==
  ASSUME TypeOK, Based, NEW c \in Children, base[c] # None
  PROVE  IsPrefix(base[c], ExpectedTip(c))
<1> DEFINE G == {t \in Tips : IsPrefix(base[c], t)}
           S == [tip : G, pending : {None}]
<1>1. c \in Frames /\ base[c] \in Tips
  BY ChildrenAreFrames DEF TypeOK
<1>2. Start(c) \in S
  BY <1>1, PrefixRefl DEF Start
<1>3. ASSUME NEW s \in S, NEW i \in 1..Len(log[c]) PROVE Walk(c, s, log[c][i]) \in S
  <2> DEFINE e == log[c][i]
  <2>1. e.type = "exited" /\ e.tip \in Tips
    BY <1>1, LogTypes DEF Based, Entries
  <2>2. Observes(c, s, e.tip) => e.tip \in G
    BY <1>1, <2>1, PrefixTrans DEF Observes, Reaches
  <2>3. e.tip \in G => [s EXCEPT !.tip = e.tip] \in S
    <3> HIDE DEF G, e
    <3> QED OBVIOUS
  <2> HIDE DEF G, S, e
  <2>4. Walk(c, s, e) \in S
    BY <2>1, <2>2, <2>3 DEF Walk
  <2> QED BY <2>4 DEF e
<1>4. Len(log[c]) \in Nat
  BY <1>1, LogTypes
<1>5. Walked(c) \in S
  <2> HIDE DEF S
  <2> QED BY <1>2, <1>3, <1>4, WalkStays
<1> QED BY <1>5 DEF ExpectedTip

-----------------------------------------------------------------------------
(* What a step keeps that does not touch it. *)

LEMMA StoresKept ==
  ASSUME IInv,
         UNCHANGED <<base, outcome, head, integrating, integrated, tip>>,
         \A c \in Children : log'[c] = log[c],
         \A f \in Frames : live'[f] \in {"no", live[f]} \/ f = Caller,
         \A f \in Frames : blocked'[f] # None => base[f] # None,
         \A c \in Children : popped'[c] =>
           popped[c] \/ (live[c] = "no" /\ (outcome[c] = "ok" => integrated[c] # None)),
         \A c \in Children : integrating[c] # None /\ outcome[c] = "ok" => temp'[c] = temp[c]
  PROVE  Based' /\ Exits' /\ Intended' /\ ReceiptsHold'
<1> USE ChildrenAreFrames
<1>1. Based'
  <2>1. base[Caller] = <<>> /\ base[Caller] # None /\ tip[Caller] # None
    BY EmptyTip DEF IInv, Based
  <2>2. \A f \in Frames :
          /\ base[f] # None => tip[f] # None /\ IsPrefix(base[f], tip[f])
          /\ live'[f] = "branched" => tip[f] # None
          /\ live'[f] = "running" \/ blocked'[f] # None => base[f] # None
    BY <2>1 DEF IInv, Based
  <2>3. \A c \in Children : \A i \in 1..Len(log'[c]) : log'[c][i].type = "exited"
    BY DEF IInv, Based
  <2> QED BY <2>1, <2>2, <2>3 DEF Based
<1>2. Exits'
  <2>1. \A c \in Children : live'[c] = "no" \/ live'[c] = live[c]
    OBVIOUS
  <2> QED BY <2>1 DEF IInv, Exits
<1>3. Intended'
  BY DEF IInv, Intended
<1>4. ReceiptsHold'
  BY DEF IInv, ReceiptsHold
<1> QED BY <1>1, <1>2, <1>3, <1>4

LEMMA LandingKept ==
  ASSUME IInv, at' = at,
         at.step # "no" =>
           /\ call' = call /\ tip'[Caller] = tip[Caller]
           /\ at.child \notin done'
           /\ outcome'[at.child] = outcome[at.child] /\ live'[at.child] = "no"
           /\ integrating'[at.child] = integrating[at.child]
           /\ integrated'[at.child] = integrated[at.child]
           /\ head'[at.child] = head[at.child] /\ temp'[at.child] = temp[at.child]
  PROVE  Landing'
BY DEF IInv, Landing

LEMMA RunningKept ==
  ASSUME IInv, UNCHANGED <<up, body, batch, at, call, done>>, live'[Caller] = live[Caller],
         \A c \in Children : live'[c] # "no" =>
           live[c] # "no" \/ (body \in {"working", "failing"} /\ c \in call.children \ done)
  PROVE  Running'
BY DEF IInv, Running

\* Events are entries of the log.
LEMMA EntryTypes ==
  ASSUME NEW b \in Tips, NEW t \in Tips
  PROVE  /\ Called(t) \in Entries /\ Exited(t) \in Entries
         /\ Integrates(b, t) \in Entries /\ Integrated(b, t) \in Entries
<1>1. <<>> \in Tips
  BY EmptySeq DEF Tips
<1> QED BY <1>1 DEF Entries, Called, Exited, Integrates, Integrated

LEMMA NoteFacts ==
  ASSUME TypeOK, NEW f \in Frames, NEW e \in Entries, Note(f, e)
  PROVE  /\ log' \in [Frames -> Seq(Entries)]
         /\ \A g \in Frames \ {f} : log'[g] = log[g]
         /\ log'[f] = Append(log[f], e)
<1>1. log \in [Frames -> Seq(Entries)]
  BY DEF TypeOK, Entries
<1>2. Append(log[f], e) \in Seq(Entries)
  BY <1>1, AppendProperties
<1> QED BY <1>1, <1>2 DEF Note

LEMMA CallerTip ==
  ASSUME IInv PROVE tip[Caller] \in Tips /\ None \notin Tips
<1>1. tip[Caller] # None /\ tip[Caller] \in Tips \cup {None}
  BY ChildrenAreFrames, EmptyTip DEF IInv, Based, TypeOK
<1> QED BY <1>1, EmptyTip

-----------------------------------------------------------------------------
(* The steps of the caller and its dispatch. *)

LEMMA ObserveStep ==
  ASSUME IInv, Observe PROVE IInv'
<1>1. /\ body = "no" /\ Note(Caller, Called(tip[Caller]))
      /\ UNCHANGED <<base, outcome, head, popped, integrating, integrated, call, repushed,
                     blocked, tip, temp, up, live, body, batch, owned, done, at, made>>
  BY DEF Observe, MayCall, git, memory, bounds
<1>2. Called(tip[Caller]) \in Entries
  BY CallerTip, EntryTypes
<1>3. /\ log' \in [Frames -> Seq(Entries)]
      /\ \A c \in Children : log'[c] = log[c]
  BY <1>1, <1>2, NoteFacts, ChildrenAreFrames DEF IInv
<1>4. TypeOK'
  <2>1. log' \in [Frames -> Seq([type : {"called", "exited", "integrating", "integrated"},
                                   base : Tips, tip : Tips])]
    BY <1>3 DEF Entries
  <2> QED BY ZenonT(40), <1>1, <1>3, <2>1 DEF IInv, TypeOK
<1>5. Based' /\ Exits' /\ Intended' /\ ReceiptsHold'
  BY <1>1, <1>3, StoresKept DEF IInv, Based
<1>6. Landing'
  BY <1>1, LandingKept DEF IInv, Running
<1>7. Running'
  BY <1>1, RunningKept
<1> QED BY <1>4, <1>5, <1>6, <1>7 DEF IInv

LEMMA CallSteps ==
  ASSUME IInv, (\E parallel \in BOOLEAN : CallDispatch(parallel))
               \/ (\E c \in Children : CallRetry(c))
  PROVE  IInv'
<1>1. /\ up /\ live[Caller] = "running" /\ body = "no" /\ body' = "entered"
      /\ Note(Caller, Called(tip[Caller]))
      /\ UNCHANGED <<base, outcome, head, popped, integrating, integrated,
                     blocked, tip, temp, up, live, batch, owned, done, at, made>>
  BY DEF CallDispatch, CallRetry, MayCall, git, bounds
<1>2. Called(tip[Caller]) \in Entries
  BY CallerTip, EntryTypes
<1>3. /\ log' \in [Frames -> Seq(Entries)]
      /\ \A c \in Children : log'[c] = log[c]
  BY <1>1, <1>2, NoteFacts, ChildrenAreFrames DEF IInv
<1>4. /\ call' \in [children : SUBSET Children, open : BOOLEAN, parallel : BOOLEAN,
                    retry : BOOLEAN]
      /\ repushed' \in BOOLEAN
  <2>1. CASE \E parallel \in BOOLEAN : CallDispatch(parallel)
    <3>1. PICK p \in BOOLEAN : CallDispatch(p)
      BY <2>1
    <3>2. /\ call' = [children |-> Children, open |-> TRUE, parallel |-> p, retry |-> FALSE]
          /\ repushed' = repushed
      BY <3>1 DEF CallDispatch, NoCall
    <3> QED BY <3>2 DEF IInv, TypeOK
  <2>2. CASE \E c \in Children : CallRetry(c)
    <3>1. PICK c \in Children : CallRetry(c)
      BY <2>2
    <3>2. /\ call' = [children |-> {c}, open |-> TRUE, parallel |-> FALSE, retry |-> TRUE]
          /\ repushed' = FALSE
      BY <3>1 DEF CallRetry, NoCall
    <3> QED BY <3>2
  <2> QED BY <2>1, <2>2
<1>5. TypeOK'
  <2>1. log' \in [Frames -> Seq([type : {"called", "exited", "integrating", "integrated"},
                                   base : Tips, tip : Tips])]
    BY <1>3 DEF Entries
  <2> QED BY ZenonT(40), <1>1, <1>3, <1>4, <2>1 DEF IInv, TypeOK
<1>6. Based' /\ Exits' /\ Intended' /\ ReceiptsHold'
  BY <1>1, <1>3, StoresKept DEF IInv, Based
<1>7. at.step = "no" /\ at' = at
  BY <1>1 DEF IInv, Running
<1>8. \A c \in Children : live[c] = "no"
  BY <1>1 DEF IInv, Running
<1>9. Landing' /\ Running'
  BY <1>1, <1>7, <1>8 DEF Landing, Running
<1> QED BY <1>5, <1>6, <1>9 DEF IInv

LEMMA BodySteps ==
  ASSUME IInv, ReplayCall \/ EnterBody \/ EndFailing \/ Return
  PROVE  IInv'
<1>1. /\ UNCHANGED <<log, base, outcome, head, popped, integrating, integrated, repushed,
                     blocked, tip, temp, up, live, at, made>>
      /\ up
  BY DEF ReplayCall, EnterBody, EndFailing, Return, MayCall, durable, git, bounds
<1>2. at.step = "no"
  <2>1. CASE ReplayCall \/ EnterBody
    BY <2>1 DEF IInv, Running, ReplayCall, MayCall, EnterBody
  <2>2. CASE EndFailing
    BY <2>2 DEF EndFailing, Idle
  <2>3. CASE Return
    BY <2>3 DEF IInv, Landing, Return
  <2> QED BY <2>1, <2>2, <2>3
<1>3. /\ call' \in [children : SUBSET Children, open : BOOLEAN, parallel : BOOLEAN,
                    retry : BOOLEAN]
      /\ body' \in {"no", "entered", "working", "failing"}
      /\ batch' \in Tips \cup {None} /\ done' \subseteq Children
      /\ owned' \subseteq UNION {Paths[c] : c \in Children}
  <2>1. CASE ReplayCall \/ EndFailing
    <3>1. /\ UNCHANGED <<call, batch, owned, done>> /\ body' \in {"no", "entered"}
      BY <2>1 DEF ReplayCall, EndFailing, durable
    <3> QED BY <3>1 DEF IInv, TypeOK
  <2>2. CASE EnterBody
    <3>1. Claims \subseteq UNION {Paths[c] : c \in Children}
      BY DEF Claims, SourcePaths
    <3> QED BY <2>2, <3>1, CallerTip DEF EnterBody, durable, IInv, TypeOK
  <2>3. CASE Return
    BY <2>3 DEF Return, IInv, TypeOK
  <2> QED BY <2>1, <2>2, <2>3
<1>4. TypeOK'
  BY ZenonT(40), <1>1, <1>3 DEF IInv, TypeOK
<1>5. Based' /\ Exits' /\ Intended' /\ ReceiptsHold'
  BY <1>1, StoresKept DEF IInv, Based
<1>6. Landing'
  BY <1>1, <1>2 DEF Landing
<1>7. body' # "no" =>
        /\ live[Caller] = "running"
        /\ body' \in {"working", "failing"} => batch' # None
  <2>1. CASE ReplayCall
    BY <2>1 DEF ReplayCall, MayCall
  <2>2. CASE EnterBody
    BY <2>2, CallerTip DEF EnterBody, IInv, Running
  <2>3. CASE EndFailing \/ Return
    BY <2>3 DEF EndFailing, Return
  <2> QED BY <2>1, <2>2, <2>3
<1>8. \A c \in Children : live[c] = "no"
  <2>1. CASE ReplayCall \/ EnterBody
    BY <2>1 DEF IInv, Running, ReplayCall, MayCall, EnterBody
  <2>2. CASE EndFailing
    BY <2>2 DEF EndFailing
  <2>3. CASE Return
    BY <2>3 DEF IInv, Running, Return
  <2> QED BY <2>1, <2>2, <2>3
<1>9. Running'
  BY <1>1, <1>2, <1>7, <1>8 DEF Running
<1> QED BY <1>4, <1>5, <1>6, <1>9 DEF IInv

-----------------------------------------------------------------------------
(* The engine process and the workers. *)

LEMMA CommitStep ==
  ASSUME IInv, NEW f \in Frames, WorkerCommits(f)
  PROVE  IInv'
<1>1. /\ live[f] = "running" /\ (f = Caller => body = "no")
      /\ tip' = [tip EXCEPT ![f] = Append(tip[f], <<f, made[f]>>)]
      /\ made' = [made EXCEPT ![f] = made[f] + 1]
      /\ UNCHANGED <<log, base, outcome, head, popped, integrating, integrated, call,
                     repushed, blocked, temp, up, live, body, batch, owned, done, at>>
  BY DEF WorkerCommits, durable, memory
<1>2. tip[f] \in Tips /\ base[f] # None /\ <<f, made[f]>> \in Frames \X Nat
  BY <1>1 DEF IInv, Based, TypeOK
<1>3. Append(tip[f], <<f, made[f]>>) \in Tips /\ IsPrefix(tip[f], Append(tip[f], <<f, made[f]>>))
  BY <1>2, PrefixAppend
<1>4. /\ \A g \in Frames \ {f} : tip'[g] = tip[g]
      /\ tip'[f] = Append(tip[f], <<f, made[f]>>)
      /\ tip' \in [Frames -> Tips \cup {None}] /\ made' \in [Frames -> Nat]
  BY <1>1, <1>3 DEF IInv, TypeOK
<1>5. TypeOK'
  BY ZenonT(40), <1>1, <1>4 DEF IInv, TypeOK
<1>6. tip'[f] \in Tips /\ tip'[f] # None
  BY <1>3, <1>4, CallerTip
<1>7. Based'
  <2>1. base[f] \in Tips /\ IsPrefix(base[f], tip[f])
    BY <1>2 DEF IInv, Based, TypeOK
  <2>2. IsPrefix(base[f], tip'[f])
    BY <1>2, <1>3, <1>4, <2>1, PrefixTrans
  <2>3. \A g \in Frames : base[g] # None => tip'[g] # None /\ IsPrefix(base[g], tip'[g])
    BY <1>4, <1>6, <2>2 DEF IInv, Based
  <2>4. \A g \in Frames : live[g] = "branched" => tip'[g] # None
    BY <1>4, <1>6 DEF IInv, Based
  <2> QED BY <1>1, <2>3, <2>4 DEF IInv, Based
<1>8. Exits' /\ Intended'
  BY <1>1 DEF IInv, Exits, Intended
<1>9. ReceiptsHold'
  <2>1. ASSUME NEW c \in Children, integrated[c] # None
        PROVE  IsPrefix(integrated[c].cand, tip'[Caller])
    <3>1. IsPrefix(integrated[c].cand, tip[Caller]) /\ integrated[c].cand \in Tips
      BY <2>1 DEF IInv, ReceiptsHold, TypeOK, Intents
    <3>2. CASE f = Caller
      BY <1>2, <1>3, <1>4, <3>1, <3>2, PrefixTrans
    <3>3. CASE f # Caller
      BY <1>4, <3>1, <3>3, ChildrenAreFrames
    <3> QED BY <3>2, <3>3
  <2> QED BY <1>1, <2>1 DEF IInv, ReceiptsHold
<1>10. Landing'
  <2>1. at.step # "no" => tip'[Caller] = tip[Caller]
    BY <1>1, <1>4, ChildrenAreFrames DEF IInv, Running
  <2> QED BY <1>1, <2>1 DEF IInv, Landing
<1>11. Running'
  BY <1>1, RunningKept
<1> QED BY <1>5, <1>7, <1>8, <1>9, <1>10, <1>11 DEF IInv

LEMMA CrashStep ==
  ASSUME IInv, Crash PROVE IInv'
<1>1. /\ up' = FALSE /\ body' = "no" /\ batch' = None /\ owned' = {} /\ done' = {} /\ at' = Idle
      /\ live' = [f \in Frames |-> IF live[f] = "running" THEN "running" ELSE "no"]
      /\ UNCHANGED <<log, base, outcome, head, popped, integrating, integrated, call,
                     repushed, blocked, tip, temp, made>>
  BY DEF Crash, durable, git, bounds
<1>2. Idle \in [child : Frames, base : Tips, cand : Tips,
                step : {"no", "reapply", "intent", "advance", "landed", "receipt",
                        "pop", "fail"}]
  BY ChildrenAreFrames, EmptySeq DEF Idle, Tips
<1>3. TypeOK'
  BY ZenonT(40), <1>1, <1>2 DEF IInv, TypeOK
<1>4. \A f \in Frames : live'[f] \in {"no", live[f]}
  BY <1>1
<1>5. Based' /\ Exits' /\ Intended' /\ ReceiptsHold'
  BY <1>1, <1>4, StoresKept DEF IInv, Based
<1>6. Landing' /\ Running'
  BY <1>1 DEF Landing, Running, Idle
<1> QED BY <1>3, <1>5, <1>6 DEF IInv

LEMMA RestartStep ==
  ASSUME IInv, Restart PROVE IInv'
<1>1. /\ ~up /\ up' = TRUE
      /\ temp' = [c \in Children |-> IF c \in Retained THEN temp[c] ELSE None]
      /\ live' = [f \in Frames |-> "no"]
      /\ UNCHANGED <<log, base, outcome, head, popped, integrating, integrated, call,
                     repushed, blocked, tip, body, batch, owned, done, at, made>>
  BY DEF Restart, durable
<1>2. body = "no" /\ at.step = "no"
  BY <1>1 DEF IInv, Running
<1>3. TypeOK'
  BY ZenonT(40), <1>1 DEF IInv, TypeOK
<1>4. \A c \in Children : integrating[c] # None => temp'[c] = temp[c]
  BY <1>1 DEF Retained
<1>5. Based' /\ Exits' /\ Intended' /\ ReceiptsHold'
  BY <1>1, <1>4, StoresKept DEF IInv, Based
<1>6. \A c \in Children : live'[c] = "no"
  BY <1>1, ChildrenAreFrames
<1>7. Landing' /\ Running'
  BY <1>1, <1>2, <1>6 DEF Landing, Running
<1> QED BY <1>3, <1>5, <1>7 DEF IInv

LEMMA RelaunchSteps ==
  ASSUME IInv, Relaunch \/ \E f \in Frames : ParkRun(f)
  PROVE  IInv'
<1>1. /\ UNCHANGED <<log, base, outcome, head, popped, integrating, integrated, call,
                     repushed, tip, temp, body, batch, owned, done, at, made>>
      /\ live[Caller] = "no"
  BY DEF Relaunch, ParkRun, git, memory, bounds
<1>2. body = "no" /\ at.step = "no"
  BY <1>1 DEF IInv, Running
<1>3. /\ blocked' \in [Frames -> Tips \cup {None}] /\ up' \in BOOLEAN
      /\ live' \in [Frames -> {"no", "branched", "running"}]
      /\ \A f \in Frames : live'[f] = live[f] \/ f = Caller
      /\ \A f \in Frames : blocked'[f] # None => base[f] # None
  <2>1. CASE Relaunch
    BY <2>1, ChildrenAreFrames DEF Relaunch, IInv, TypeOK, Based
  <2>2. CASE \E f \in Frames : ParkRun(f)
    <3>1. PICK f \in Frames : ParkRun(f)
      BY <2>2
    <3>2. base[f] # None
      BY <3>1, EmptyTip DEF ParkRun, Parked, IInv, Based
    <3>3. blocked' = [blocked EXCEPT ![f] = tip[f]] /\ up' = FALSE /\ live' = live
      BY <3>1 DEF ParkRun, memory
    <3> QED BY <3>2, <3>3 DEF IInv, TypeOK, Based
  <2> QED BY <2>1, <2>2
<1>4. TypeOK'
  BY ZenonT(40), <1>1, <1>3 DEF IInv, TypeOK
<1>5. Based' /\ Exits' /\ Intended' /\ ReceiptsHold'
  BY <1>1, <1>3, StoresKept
<1>6. \A c \in Children : up' /\ live'[c] # "no" => up /\ live[c] # "no"
  <2>1. CASE Relaunch
    BY <1>3, <2>1, ChildrenAreFrames DEF Relaunch
  <2>2. CASE \E f \in Frames : ParkRun(f)
    BY <2>2 DEF ParkRun
  <2> QED BY <2>1, <2>2
<1>7. Landing' /\ Running'
  BY <1>1, <1>2, <1>6 DEF IInv, Landing, Running
<1> QED BY <1>4, <1>5, <1>7 DEF IInv

LEMMA ResetStep ==
  ASSUME IInv, NEW f \in Frames, OperatorResets(f)
  PROVE  IInv'
<1>1. /\ ~up /\ blocked[f] # None
      /\ \A c \in Children :
           f = Caller /\ integrated[c] # None => IsPrefix(integrated[c].cand, ExpectedTip(f))
      /\ tip' = [tip EXCEPT ![f] = ExpectedTip(f)]
      /\ UNCHANGED <<log, base, outcome, head, popped, integrating, integrated, call,
                     repushed, blocked, temp, up, live, body, batch, owned, done, at, made>>
  BY DEF OperatorResets, durable, memory, bounds
<1>2. body = "no" /\ at.step = "no"
  BY <1>1 DEF IInv, Running
<1>3. base[f] # None /\ base[f] \in Tips
  BY <1>1 DEF IInv, Based, TypeOK
<1>4. ExpectedTip(f) \in Tips /\ ExpectedTip(f) # None
  BY <1>3, ExpectedTipTyped, CallerTip DEF IInv
<1>5. /\ \A g \in Frames \ {f} : tip'[g] = tip[g]
      /\ tip'[f] = ExpectedTip(f)
      /\ tip' \in [Frames -> Tips \cup {None}]
  BY <1>1, <1>4 DEF IInv, TypeOK
<1>6. TypeOK'
  BY ZenonT(40), <1>1, <1>5 DEF IInv, TypeOK
<1>7. IsPrefix(base[f], tip'[f])
  <2>1. CASE f = Caller
    BY <2>1, <1>4, <1>5, PrefixEmpty DEF IInv, Based
  <2>2. CASE f # Caller
    BY <2>2, <1>3, <1>5, ExpectedTipOfChild, ChildrenAreFrames DEF IInv
  <2> QED BY <2>1, <2>2
<1>8. Based'
  <2>1. \A g \in Frames : base[g] # None => tip'[g] # None /\ IsPrefix(base[g], tip'[g])
    BY <1>4, <1>5, <1>7 DEF IInv, Based
  <2>2. \A g \in Frames : live[g] = "branched" => tip'[g] # None
    BY <1>4, <1>5 DEF IInv, Based
  <2> QED BY <1>1, <2>1, <2>2 DEF IInv, Based
<1>9. Exits' /\ Intended'
  BY <1>1 DEF IInv, Exits, Intended
<1>10. ReceiptsHold'
  <2>1. ASSUME NEW c \in Children, integrated[c] # None
        PROVE  IsPrefix(integrated[c].cand, tip'[Caller])
    <3>1. CASE f = Caller
      BY <1>1, <1>5, <2>1, <3>1
    <3>2. CASE f # Caller
      BY <1>5, <2>1, <3>2, ChildrenAreFrames DEF IInv, ReceiptsHold
    <3> QED BY <3>1, <3>2
  <2> QED BY <1>1, <2>1 DEF IInv, ReceiptsHold
<1>11. Landing' /\ Running'
  BY <1>1, <1>2 DEF Landing, Running
<1> QED BY <1>6, <1>8, <1>9, <1>10, <1>11 DEF IInv

-----------------------------------------------------------------------------
(* The steps of a child's launch. *)

LEMMA BranchStep ==
  ASSUME IInv, NEW c \in Children, Branch(c)
  PROVE  IInv'
<1>1. /\ body \in {"working", "failing"} /\ live[c] = "no"
      /\ outcome[c] = "none" \/ outcome[c] = "failed"
      /\ base[c] = None /\ tip[c] = None
      /\ tip' = [tip EXCEPT ![c] = IF call.parallel THEN batch ELSE tip[Caller]]
      /\ live' = [live EXCEPT ![c] = "branched"]
      /\ c \in call.children \ done
      /\ UNCHANGED <<log, base, outcome, head, popped, integrating, integrated, call,
                     repushed, blocked, temp, up, body, batch, owned, done, at, made>>
  BY DEF Branch, Turn, NeedsLaunch, durable, bounds
<1>2. (IF call.parallel THEN batch ELSE tip[Caller]) \in Tips
  <2>1. batch \in Tips
    BY <1>1 DEF IInv, Running, TypeOK
  <2> QED BY <2>1, CallerTip
<1>3. c \in Frames /\ c # Caller
  BY ChildrenAreFrames
<1>4. /\ \A g \in Frames \ {c} : tip'[g] = tip[g] /\ live'[g] = live[g]
      /\ tip'[c] \in Tips /\ tip'[c] # None /\ live'[c] = "branched"
      /\ tip' \in [Frames -> Tips \cup {None}]
      /\ live' \in [Frames -> {"no", "branched", "running"}]
  BY <1>1, <1>2, <1>3, EmptyTip DEF IInv, TypeOK
<1>5. TypeOK'
  BY ZenonT(40), <1>1, <1>4 DEF IInv, TypeOK
<1>6. Based'
  <2>1. \A g \in Frames :
          /\ base[g] # None => tip'[g] # None /\ IsPrefix(base[g], tip'[g])
          /\ live'[g] = "branched" => tip'[g] # None
          /\ live'[g] = "running" \/ blocked[g] # None => base[g] # None
    BY <1>1, <1>4 DEF IInv, Based
  <2> QED BY <1>1, <2>1 DEF IInv, Based
<1>7. Exits'
  BY <1>1, <1>4, ChildrenAreFrames DEF IInv, Exits
<1>8. tip'[Caller] = tip[Caller] /\ live'[Caller] = live[Caller]
  BY <1>3, <1>4, ChildrenAreFrames
<1>9. Intended' /\ ReceiptsHold'
  BY <1>1, <1>8 DEF IInv, Intended, ReceiptsHold
<1>10. Landing'
  <2>1. at.step # "no" => at.child # c /\ at.child \in Children /\ at.child \notin done
    BY <1>1 DEF IInv, Landing, TypeOK
  <2> QED BY <1>1, <1>4, <1>8, <2>1, ChildrenAreFrames DEF IInv, Landing
<1>11. Running'
  BY <1>1, <1>4, <1>8, RunningKept, ChildrenAreFrames
<1> QED BY <1>5, <1>6, <1>7, <1>9, <1>10, <1>11 DEF IInv

LEMMA ReopenStep ==
  ASSUME IInv, NEW c \in Children, Reopen(c)
  PROVE  IInv'
<1>1. /\ body \in {"working", "failing"} /\ live[c] = "no"
      /\ outcome[c] = "none" \/ outcome[c] = "failed"
      /\ base[c] # None
      /\ temp' \in {temp, [temp EXCEPT ![c] = None]}
      /\ live' = [live EXCEPT ![c] = "branched"]
      /\ c \in call.children \ done
      /\ UNCHANGED <<log, base, outcome, head, popped, integrating, integrated, call,
                     repushed, blocked, tip, up, body, batch, owned, done, at, made>>
  BY DEF Reopen, Turn, NeedsLaunch, durable, bounds
<1>2. c \in Frames /\ c # Caller
  BY ChildrenAreFrames
<1>3. /\ \A g \in Frames \ {c} : live'[g] = live[g]
      /\ live'[c] = "branched" /\ live'[Caller] = live[Caller]
      /\ live' \in [Frames -> {"no", "branched", "running"}]
      /\ temp' \in [Children -> Tips \cup {None}]
      /\ \A d \in Children \ {c} : temp'[d] = temp[d]
  <2>1. live \in [Frames -> {"no", "branched", "running"}]
        /\ temp \in [Children -> Tips \cup {None}]
    BY DEF IInv, TypeOK
  <2>2. /\ temp' \in [Children -> Tips \cup {None}]
        /\ \A d \in Children \ {c} : temp'[d] = temp[d]
    BY <1>1, <2>1
  <2> QED BY <1>1, <1>2, <2>1, <2>2, ChildrenAreFrames
<1>4. TypeOK'
  BY ZenonT(40), <1>1, <1>3 DEF IInv, TypeOK
<1>5. Based'
  <2>1. \A g \in Frames :
          /\ live'[g] = "branched" => tip[g] # None
          /\ live'[g] = "running" \/ blocked[g] # None => base[g] # None
    BY <1>1, <1>3 DEF IInv, Based
  <2> QED BY <1>1, <2>1 DEF IInv, Based
<1>6. Exits'
  BY <1>1, <1>3, ChildrenAreFrames DEF IInv, Exits
<1>7. Intended' /\ ReceiptsHold'
  BY <1>1, <1>3 DEF IInv, Intended, ReceiptsHold
<1>8. Landing'
  <2>1. at.step # "no" => at.child # c /\ at.child \in Children /\ at.child \notin done
    BY <1>1 DEF IInv, Landing, TypeOK
  <2> QED BY <1>1, <1>3, <2>1, ChildrenAreFrames DEF IInv, Landing
<1>9. Running'
  BY <1>1, <1>3, RunningKept, ChildrenAreFrames
<1> QED BY <1>4, <1>5, <1>6, <1>7, <1>8, <1>9 DEF IInv

LEMMA PushStep ==
  ASSUME IInv, NEW c \in Children, Push(c)
  PROVE  IInv'
<1>1. /\ live[c] = "branched" /\ live' = [live EXCEPT ![c] = "running"]
      /\ base' = [base EXCEPT ![c] = IF base[c] = None THEN tip[c] ELSE base[c]]
      /\ outcome' = [outcome EXCEPT ![c] = "none"]
      /\ head' = [head EXCEPT ![c] = None] /\ popped' = [popped EXCEPT ![c] = FALSE]
      /\ integrating' = [integrating EXCEPT ![c] = None]
      /\ integrated' = [integrated EXCEPT ![c] = None]
      /\ blocked' = [blocked EXCEPT ![c] = None]
      /\ repushed' = call.retry
      /\ UNCHANGED <<log, call, tip, temp, up, body, batch, owned, done, at, made>>
  BY DEF Push, git, bounds
<1>2. c \in Frames /\ c # Caller
  BY ChildrenAreFrames
<1>3. tip[c] # None /\ tip[c] \in Tips
  BY <1>1, <1>2 DEF IInv, Based, TypeOK
<1>4. /\ base' \in [Frames -> Tips \cup {None}] /\ base'[c] \in Tips /\ base'[c] # None
      /\ IsPrefix(base'[c], tip[c])
      /\ \A g \in Frames \ {c} : base'[g] = base[g]
  <2>1. base'[c] = IF base[c] = None THEN tip[c] ELSE base[c]
    BY <1>1, <1>2 DEF IInv, TypeOK
  <2>2. IsPrefix(base'[c], tip[c])
    BY <1>2, <1>3, <2>1, PrefixRefl DEF IInv, Based
  <2> QED BY <1>1, <1>2, <1>3, <2>1, <2>2, EmptyTip DEF IInv, TypeOK
<1>5. /\ live' \in [Frames -> {"no", "branched", "running"}]
      /\ blocked' \in [Frames -> Tips \cup {None}]
      /\ live'[c] = "running" /\ blocked'[c] = None
      /\ \A g \in Frames \ {c} : live'[g] = live[g] /\ blocked'[g] = blocked[g]
  BY <1>1, <1>2 DEF IInv, TypeOK
<1>6. /\ outcome' \in [Frames -> {"none", "ok", "failed"}]
      /\ head' \in [Children -> Tips \cup {None}] /\ popped' \in [Children -> BOOLEAN]
      /\ outcome'[c] = "none" /\ ~popped'[c]
      /\ \A d \in Children \ {c} :
           outcome'[d] = outcome[d] /\ head'[d] = head[d] /\ popped'[d] = popped[d]
  BY <1>1, <1>2, ChildrenAreFrames DEF IInv, TypeOK
<1>7. /\ integrating' \in [Children -> Intents \cup {None}]
      /\ integrated' \in [Children -> Intents \cup {None}]
      /\ integrating'[c] = None /\ integrated'[c] = None
      /\ \A d \in Children \ {c} :
           integrating'[d] = integrating[d] /\ integrated'[d] = integrated[d]
  BY <1>1, <1>2 DEF IInv, TypeOK
<1>8. TypeOK'
  BY ZenonT(40), <1>1, <1>4, <1>5, <1>6, <1>7 DEF IInv, TypeOK
<1>9. Based'
  <2>1. \A g \in Frames : base'[g] # None => tip[g] # None /\ IsPrefix(base'[g], tip[g])
    BY <1>3, <1>4 DEF IInv, Based
  <2>2. \A g \in Frames : live'[g] = "branched" => tip[g] # None
    BY <1>5 DEF IInv, Based
  <2>3. \A g \in Frames : live'[g] = "running" \/ blocked'[g] # None => base'[g] # None
    BY <1>4, <1>5 DEF IInv, Based
  <2>4. base'[Caller] = <<>>
    BY <1>2, <1>4, ChildrenAreFrames DEF IInv, Based
  <2> QED BY <1>1, <2>1, <2>2, <2>3, <2>4 DEF IInv, Based
<1>10. Exits'
  <2>1. ASSUME NEW d \in Children \ {c}
        PROVE  base'[d] = base[d] /\ live'[d] = live[d]
    BY <1>4, <1>5, ChildrenAreFrames
  <2> QED BY <1>5, <1>6, <1>7, <2>1 DEF IInv, Exits
<1>11. Intended' /\ ReceiptsHold'
  BY <1>1, <1>6, <1>7 DEF IInv, Intended, ReceiptsHold
<1>12. Landing'
  <2>1. at.step # "no" => at.child # c /\ at.child \in Children /\ at.child \notin done
    BY <1>1 DEF IInv, Landing, TypeOK
  <2>2. at.step # "no" => live'[at.child] = "no"
    BY <1>5, <2>1, ChildrenAreFrames DEF IInv, Landing
  <2> QED BY <1>1, <1>6, <1>7, <2>1, <2>2, LandingKept
<1>13. Running'
  BY <1>1, <1>2, <1>5, RunningKept, ChildrenAreFrames
<1> QED BY <1>8, <1>9, <1>10, <1>11, <1>12, <1>13 DEF IInv

LEMMA ExitStep ==
  ASSUME IInv, NEW c \in Children, NEW o \in {"ok", "failed"}, ExitChild(c, o)
  PROVE  IInv'
<1>1. /\ live[c] = "running" /\ live' = [live EXCEPT ![c] = "no"]
      /\ outcome' = [outcome EXCEPT ![c] = o] /\ head' = [head EXCEPT ![c] = tip[c]]
      /\ Note(c, Exited(tip[c]))
      /\ UNCHANGED <<base, popped, integrating, integrated, call, repushed, blocked,
                     tip, temp, up, body, batch, owned, done, at, made>>
  BY DEF ExitChild, git, bounds
<1>2. c \in Frames /\ c # Caller
  BY ChildrenAreFrames
<1>3. base[c] # None /\ tip[c] # None /\ tip[c] \in Tips /\ IsPrefix(base[c], tip[c])
  BY <1>1, <1>2 DEF IInv, Based, TypeOK
<1>4. /\ log' \in [Frames -> Seq(Entries)] /\ log'[c] = Append(log[c], Exited(tip[c]))
      /\ \A d \in Children \ {c} : log'[d] = log[d]
  <2>1. Exited(tip[c]) \in Entries
    BY <1>3, EntryTypes
  <2> QED BY <1>1, <1>2, <2>1, NoteFacts, ChildrenAreFrames DEF IInv
<1>5. /\ live' \in [Frames -> {"no", "branched", "running"}] /\ live'[c] = "no"
      /\ outcome' \in [Frames -> {"none", "ok", "failed"}] /\ outcome'[c] = o
      /\ head' \in [Children -> Tips \cup {None}] /\ head'[c] = tip[c]
      /\ \A g \in Frames \ {c} : live'[g] = live[g] /\ outcome'[g] = outcome[g]
      /\ \A d \in Children \ {c} : head'[d] = head[d]
  BY <1>1, <1>2, <1>3 DEF IInv, TypeOK
<1>6. TypeOK'
  <2>1. log' \in [Frames -> Seq([type : {"called", "exited", "integrating", "integrated"},
                                   base : Tips, tip : Tips])]
    BY <1>4 DEF Entries
  <2> QED BY ZenonT(40), <1>1, <1>4, <1>5, <2>1 DEF IInv, TypeOK
<1>7. Based'
  <2>1. ASSUME NEW i \in 1..Len(log'[c]) PROVE log'[c][i].type = "exited"
    <3>1. log[c] \in Seq(Entries) /\ Exited(tip[c]) \in Entries
      BY <1>2, <1>3, EntryTypes DEF IInv, TypeOK, Entries
    <3>2. /\ Len(log[c]) \in Nat /\ Len(log'[c]) = Len(log[c]) + 1
          /\ \A j \in 1..Len(log[c]) : log'[c][j] = log[c][j]
          /\ log'[c][Len(log[c]) + 1] = Exited(tip[c])
      BY <1>4, <3>1, AppendProperties, LenProperties
    <3>3. CASE i \in 1..Len(log[c])
      BY <3>2, <3>3 DEF IInv, Based
    <3>4. CASE i = Len(log[c]) + 1
      BY <3>2, <3>4 DEF Exited
    <3>5. i \in 1..Len(log[c]) \/ i = Len(log[c]) + 1
      BY <3>2
    <3> QED BY <3>3, <3>4, <3>5
  <2>2. \A d \in Children : \A i \in 1..Len(log'[d]) : log'[d][i].type = "exited"
    BY <1>4, <2>1 DEF IInv, Based
  <2>3. \A g \in Frames : live'[g] = "no" \/ live'[g] = live[g]
    BY <1>5
  <2> QED BY <1>1, <2>2, <2>3 DEF IInv, Based
<1>8. Exits'
  <2>1. \A d \in Children \ {c} :
          live'[d] = live[d] /\ outcome'[d] = outcome[d] /\ head'[d] = head[d]
    BY <1>5, ChildrenAreFrames
  <2>2. ASSUME NEW d \in Children \ {c}
        PROVE  /\ outcome'[d] # "none" => /\ base[d] # None /\ head'[d] # None
                                          /\ IsPrefix(base[d], head'[d])
               /\ live'[d] = "branched" => outcome'[d] # "ok"
               /\ live'[d] = "running" =>
                    outcome'[d] = "none" /\ ~popped[d] /\ integrating[d] = None
    BY <2>1 DEF IInv, Exits
  <2>3. /\ base[c] # None /\ head'[c] # None /\ IsPrefix(base[c], head'[c])
        /\ live'[c] = "no"
    BY <1>3, <1>5
  <2> QED BY <1>1, <2>2, <2>3 DEF Exits
<1>9. integrating[c] = None /\ ~popped[c] /\ outcome[c] = "none"
  BY <1>1 DEF IInv, Exits
<1>10. \A d \in Children \ {c} : outcome'[d] = outcome[d] /\ head'[d] = head[d]
  BY <1>5, ChildrenAreFrames
<1>11. Intended' /\ ReceiptsHold'
  BY <1>1, <1>9, <1>10 DEF IInv, Intended, ReceiptsHold
<1>12. Landing'
  <2>1. at.step # "no" => at.child # c /\ at.child \in Children /\ at.child \notin done
    BY <1>1 DEF IInv, Landing, TypeOK
  <2>2. at.step # "no" => live'[at.child] = "no"
    BY <1>5, <2>1, ChildrenAreFrames DEF IInv, Landing
  <2> QED BY <1>1, <1>10, <2>1, <2>2, LandingKept
<1>13. Running'
  BY <1>1, <1>2, <1>5, RunningKept, ChildrenAreFrames
<1> QED BY <1>6, <1>7, <1>8, <1>11, <1>12, <1>13 DEF IInv

\* The steps that end the turn of a child without integrating it.
LEMMA TurnSteps ==
  ASSUME IInv, NEW c \in Children,
         RejectBranch(c) \/ BlockChild(c) \/ UnwindChild(c) \/ FinishFailed(c)
         \/ FinishIntegrated(c)
  PROVE  IInv'
<1>1. /\ UNCHANGED <<log, base, outcome, head, integrating, integrated, call, repushed,
                     tip, temp, up, batch, at, made>>
      /\ done' = done \cup {c}
  BY DEF RejectBranch, BlockChild, UnwindChild, FinishFailed, FinishIntegrated,
         durable, git, bounds
<1>2. c \in Frames /\ c # Caller
  BY ChildrenAreFrames
<1>3. /\ blocked' \in [Frames -> Tips \cup {None}]
      /\ \A f \in Frames : blocked'[f] # None => base[f] # None
  <2>1. CASE BlockChild(c)
    BY <2>1, <1>2 DEF BlockChild, IInv, TypeOK, Based
  <2>2. CASE ~BlockChild(c)
    <3>1. blocked' = blocked
      BY <2>2 DEF RejectBranch, UnwindChild, FinishFailed, FinishIntegrated, durable
    <3> QED BY <3>1 DEF IInv, TypeOK, Based
  <2> QED BY <2>1, <2>2
<1>4. /\ popped' \in [Children -> BOOLEAN]
      /\ \A d \in Children : popped'[d] =>
           popped[d] \/ (live[d] = "no" /\ (outcome[d] = "ok" => integrated[d] # None))
  <2>1. CASE FinishFailed(c) \/ FinishIntegrated(c)
    <3>1. /\ popped' = [popped EXCEPT ![c] = TRUE] /\ live[c] = "no"
          /\ outcome[c] = "ok" => integrated[c] # None
      BY <2>1 DEF FinishFailed, FinishIntegrated, Finishes, Turn
    <3> QED BY <3>1 DEF IInv, TypeOK
  <2>2. CASE ~(FinishFailed(c) \/ FinishIntegrated(c))
    <3>1. popped' = popped
      BY <2>2 DEF RejectBranch, BlockChild, UnwindChild, durable
    <3> QED BY <3>1 DEF IInv, TypeOK
  <2> QED BY <2>1, <2>2
<1>5. /\ live' \in [Frames -> {"no", "branched", "running"}]
      /\ live'[Caller] = live[Caller]
      /\ \A f \in Frames : live'[f] \in {"no", live[f]}
  <2>1. live \in [Frames -> {"no", "branched", "running"}]
    BY DEF IInv, TypeOK
  <2>2. CASE UnwindChild(c)
    <3>1. live' = [live EXCEPT ![c] = "no"]
      BY <2>2 DEF UnwindChild
    <3> QED BY <1>2, <2>1, <3>1, ChildrenAreFrames
  <2>3. CASE ~UnwindChild(c)
    <3>1. live' = live
      BY <2>3 DEF RejectBranch, BlockChild, FinishFailed, FinishIntegrated
    <3> QED BY <2>1, <3>1
  <2> QED BY <2>2, <2>3
<1>6. owned' \subseteq UNION {Paths[d] : d \in Children}
  <2>1. CASE FinishIntegrated(c)
    <3>1. owned' = owned \cup SourcePaths(c)
      BY <2>1 DEF FinishIntegrated
    <3>2. SourcePaths(c) \subseteq UNION {Paths[d] : d \in Children}
      BY DEF SourcePaths
    <3> QED BY <3>1, <3>2 DEF IInv, TypeOK
  <2>2. CASE ~FinishIntegrated(c)
    <3>1. owned' = owned
      BY <2>2 DEF RejectBranch, BlockChild, UnwindChild, FinishFailed
    <3> QED BY <3>1 DEF IInv, TypeOK
  <2> QED BY <2>1, <2>2
<1>7. /\ body' = body \/ (body' = "failing" /\ body \in {"working", "failing"})
      /\ up' = up /\ call' = call
      /\ live'[c] = "no"
      /\ at.step # "no" => at.child # c
  <2>1. CASE BlockChild(c)
    BY <2>1, <1>2 DEF BlockChild, Turn, git, bounds, IInv, Landing
  <2>2. CASE UnwindChild(c)
    BY <2>2, <1>2 DEF UnwindChild, durable, IInv, TypeOK, Running, Landing
  <2>3. CASE RejectBranch(c)
    BY <2>3, <1>2 DEF RejectBranch, Turn, durable, IInv, Based, Exits, Landing
  <2>4. CASE FinishFailed(c) \/ FinishIntegrated(c)
    <3>1. at.step = "no"
      BY <2>4 DEF FinishFailed, FinishIntegrated, Finishes, Idle
    <3> QED BY <2>4, <3>1 DEF FinishFailed, FinishIntegrated, Finishes, Turn
  <2> QED BY <2>1, <2>2, <2>3, <2>4
<1>8. TypeOK'
  <2>1. body' \in {"no", "entered", "working", "failing"} /\ done' \subseteq Children
    BY <1>1, <1>7 DEF IInv, TypeOK
  <2> QED BY ZenonT(40), <1>1, <1>3, <1>4, <1>5, <1>6, <1>7, <2>1 DEF IInv, TypeOK
<1>9. Based' /\ Exits' /\ Intended' /\ ReceiptsHold'
  BY <1>1, <1>3, <1>4, <1>5, StoresKept
<1>10. Landing'
  <2>1. at.step # "no" => at.child \notin done' /\ live'[at.child] = "no"
    BY <1>1, <1>5, <1>7, ChildrenAreFrames DEF IInv, Landing, TypeOK
  <2> QED BY <1>1, <1>7, <2>1, LandingKept
<1>11. Running'
  <2>1. \A d \in Children : up /\ live'[d] # "no" =>
          body' \in {"working", "failing"} /\ d \in call.children \ done'
    BY <1>1, <1>5, <1>7, ChildrenAreFrames DEF IInv, Running
  <2> QED BY <1>1, <1>5, <1>7, <2>1 DEF IInv, Running
<1> QED BY <1>8, <1>9, <1>10, <1>11 DEF IInv

-----------------------------------------------------------------------------
(* The steps of an integration. *)

\* What these steps have in common: a child that is done with its attempt, and
\* the stores they leave alone.
LEMMA IntegrationFacts ==
  ASSUME IInv, at.step # "no"
  PROVE  /\ at.child \in Children /\ at.child \in call.children \ done
         /\ outcome[at.child] = "ok" /\ live[at.child] = "no"
         /\ head[at.child] \in Tips /\ base[at.child] \in Tips
         /\ IsPrefix(base[at.child], head[at.child])
         /\ at.base \in Tips /\ at.cand \in Tips /\ at.child \in Frames
<1>1. /\ at.child \in call.children \ done /\ outcome[at.child] = "ok"
      /\ live[at.child] = "no"
  BY DEF IInv, Landing
<1>2. at.child \in Children
  BY <1>1 DEF IInv, TypeOK
<1>3. /\ base[at.child] # None /\ head[at.child] # None
      /\ IsPrefix(base[at.child], head[at.child])
  BY <1>1, <1>2 DEF IInv, Exits
<1> QED BY <1>1, <1>2, <1>3, ChildrenAreFrames DEF IInv, TypeOK

\* What an attempt adds to its base is a sequence of commits.
LEMMA SourceTyped ==
  ASSUME NEW c \in Children, head[c] \in Tips, base[c] \in Tips
  PROVE  Source(c) \in Tips
<1>1. Len(head[c]) \in Nat /\ Len(base[c]) \in Nat
  BY LenProperties DEF Tips
<1>2. \A i \in Len(base[c]) + 1 .. Len(head[c]) : i \in 1..Len(head[c])
  BY <1>1
<1>3. \A i \in 1..Len(head[c]) : head[c][i] \in Frames \X Nat
  BY ElementOfSeq DEF Tips
<1> QED BY <1>1, <1>2, <1>3, SubSeqProperties DEF Source, Tips

LEMMA StartStep ==
  ASSUME IInv, NEW c \in Children, StartIntegration(c)
  PROVE  IInv'
<1>1. /\ at.step = "no" /\ c \in call.children \ done /\ live[c] = "no"
      /\ body \in {"working", "failing"} /\ outcome[c] = "ok" /\ integrated[c] = None
      /\ UNCHANGED <<log, base, outcome, head, popped, integrating, integrated, call,
                     repushed, blocked, tip, temp, up, live, body, batch, owned, done, made>>
  BY DEF StartIntegration, Finishes, Turn, Idle, IntegrateStays, git, bounds
<1>2. CASE integrating[c] # None
  <2>1. at' = [child |-> c, step |-> "advance",
               base |-> integrating[c].base, cand |-> integrating[c].cand]
    BY <1>2 DEF StartIntegration
  <2>2. integrating[c] \in Intents
    BY <1>2 DEF IInv, TypeOK
  <2>3. integrating[c] = [base |-> at'.base, cand |-> at'.cand]
    BY <2>1, <2>2 DEF Intents
  <2>4. at' \in [child : Frames, base : Tips, cand : Tips,
                 step : {"no", "reapply", "intent", "advance", "landed", "receipt",
                         "pop", "fail"}]
    BY <2>1, <2>2, ChildrenAreFrames DEF Intents
  <2>5. Landing'
    BY <1>1, <2>1, <2>3 DEF Landing
  <2>6. TypeOK'
    BY ZenonT(40), <1>1, <2>4 DEF IInv, TypeOK
  <2>7. Running'
    BY <1>1 DEF IInv, Running
  <2> QED BY <1>1, <2>5, <2>6, <2>7, StoresKept DEF IInv, Based
<1>3. CASE integrating[c] = None
  <2>1. /\ at'.child = c /\ at'.base = tip[Caller] /\ at'.cand = <<>>
        /\ at'.step \in {"fail", "reapply"}
        /\ at' = [child |-> at'.child, base |-> at'.base, cand |-> at'.cand, step |-> at'.step]
    BY <1>3 DEF StartIntegration
  <2>2. at' \in [child : Frames, base : Tips, cand : Tips,
                 step : {"no", "reapply", "intent", "advance", "landed", "receipt",
                         "pop", "fail"}]
    BY <2>1, CallerTip, EmptyTip, ChildrenAreFrames
  <2>3. Landing'
    BY <1>1, <1>3, <2>1 DEF Landing
  <2>4. TypeOK'
    BY ZenonT(40), <1>1, <2>2 DEF IInv, TypeOK
  <2>5. Running'
    BY <1>1 DEF IInv, Running
  <2> QED BY <1>1, <2>3, <2>4, <2>5, StoresKept DEF IInv, Based
<1> QED BY <1>2, <1>3

LEMMA ReapplyStep ==
  ASSUME IInv, Reapply
  PROVE  IInv'
<1> DEFINE c == at.child
<1>1. /\ at.step = "reapply"
      /\ UNCHANGED <<log, base, outcome, head, popped, integrating, integrated, call,
                     repushed, blocked, tip, up, live, body, batch, owned, done, made>>
  BY DEF Reapply, IntegrateStays, bounds
<1>2. /\ c \in Children /\ c \in call.children \ done /\ outcome[c] = "ok"
      /\ live[c] = "no" /\ head[c] \in Tips /\ base[c] \in Tips
      /\ IsPrefix(base[c], head[c]) /\ at.base \in Tips /\ at.cand \in Tips /\ c \in Frames
  BY <1>1, IntegrationFacts
<1>3. integrating[c] = None /\ body \in {"working", "failing"}
  BY <1>1 DEF IInv, Landing, Running
<1>4. Source(c) \in Tips
  BY <1>2, SourceTyped
<1>5. /\ at.base \o Source(c) \in Tips
      /\ IsPrefix(at.base, at.base \o Source(c))
  BY <1>2, <1>4, PrefixConcat
<1>6. /\ at'.child = c /\ at'.base = at.base /\ at'.cand \in Tips
      /\ at' \in [child : Frames, base : Tips, cand : Tips,
                  step : {"no", "reapply", "intent", "advance", "landed", "receipt",
                          "pop", "fail"}]
      /\ at'.step \in {"intent", "fail"}
      /\ at'.step = "intent" => /\ IsPrefix(at'.base, at'.cand)
                                /\ at'.cand = head[c] \/ temp'[c] = at'.cand
      /\ temp' \in [Children -> Tips \cup {None}]
      /\ \A d \in Children \ {c} : temp'[d] = temp[d]
  <2>1. at \in [child : Frames, base : Tips, cand : Tips,
                step : {"no", "reapply", "intent", "advance", "landed", "receipt",
                        "pop", "fail"}]
        /\ temp \in [Children -> Tips \cup {None}]
    BY DEF IInv, TypeOK
  <2>2. CASE at.base = base[c] /\ temp' = temp
             /\ at' = [at EXCEPT !.step = "intent", !.cand = head[c]]
    BY <1>2, <2>1, <2>2
  <2>3. CASE /\ at' = [at EXCEPT !.step = "intent", !.cand = at.base \o Source(c)]
             /\ temp' = [temp EXCEPT ![c] = at.base \o Source(c)]
    <3> DEFINE cand == at.base \o Source(c)
    <3>1. at' = [at EXCEPT !.step = "intent", !.cand = cand]
          /\ temp' = [temp EXCEPT ![c] = cand]
          /\ cand \in Tips /\ IsPrefix(at.base, cand)
      BY <1>5, <2>3
    <3> HIDE DEF cand
    <3>2. at'.cand = cand /\ temp'[c] = cand /\ at'.base = at.base
      BY <1>2, <2>1, <3>1
    <3> QED BY <1>2, <2>1, <3>1, <3>2
  <2>4. CASE at' = [at EXCEPT !.step = "fail"] /\ temp' = temp
    BY <1>2, <2>1, <2>4
  <2> QED BY <2>2, <2>3, <2>4 DEF Reapply, Goto
<1>7. TypeOK'
  BY ZenonT(40), <1>1, <1>6 DEF IInv, TypeOK
<1>8. Running'
  BY <1>1, <1>3 DEF IInv, Running
<1>9. Landing'
  BY <1>1, <1>2, <1>3, <1>6 DEF Landing
<1>10. \A d \in Children : integrating[d] # None => temp'[d] = temp[d]
  BY <1>3, <1>6
<1>11. Based' /\ Exits' /\ Intended' /\ ReceiptsHold'
  BY <1>1, <1>10, StoresKept DEF IInv, Based
<1> QED BY <1>7, <1>8, <1>9, <1>11 DEF IInv

LEMMA LogIntentStep ==
  ASSUME IInv, LogIntent
  PROVE  IInv'
<1> DEFINE c == at.child
           intent == [base |-> at.base, cand |-> at.cand]
<1>1. /\ at.step = "intent" /\ at' = [at EXCEPT !.step = "advance"]
      /\ integrating' = [integrating EXCEPT ![c] = intent]
      /\ Note(Caller, Integrates(at.base, at.cand))
      /\ UNCHANGED <<base, outcome, head, popped, integrated, call, repushed, blocked,
                     tip, temp, up, live, body, batch, owned, done, made>>
  BY DEF LogIntent, Goto, IntegrateStays, git, bounds
<1>2. /\ c \in Children /\ c \in call.children \ done /\ outcome[c] = "ok"
      /\ live[c] = "no" /\ at.base \in Tips /\ at.cand \in Tips
  BY <1>1, IntegrationFacts
<1>3. /\ IsPrefix(at.base, at.cand)
      /\ at.cand = head[c] \/ temp[c] = at.cand
      /\ body \in {"working", "failing"}
  BY <1>1 DEF IInv, Landing, Running
<1>4. at' \in [child : Frames, base : Tips, cand : Tips,
               step : {"no", "reapply", "intent", "advance", "landed", "receipt",
                       "pop", "fail"}]
      /\ at'.child = c /\ at'.base = at.base /\ at'.cand = at.cand /\ at'.step = "advance"
  BY <1>1 DEF IInv, TypeOK
<1>5. /\ integrating' \in [Children -> Intents \cup {None}]
      /\ integrating'[c] = intent
      /\ \A d \in Children \ {c} : integrating'[d] = integrating[d]
  BY <1>1, <1>2 DEF IInv, TypeOK, Intents
<1>6. /\ log' \in [Frames -> Seq(Entries)]
      /\ \A d \in Children : log'[d] = log[d]
  <2>1. Integrates(at.base, at.cand) \in Entries
    BY <1>2, EntryTypes
  <2> QED BY <1>1, <2>1, NoteFacts, ChildrenAreFrames DEF IInv
<1>7. TypeOK'
  <2>1. log' \in [Frames -> Seq([type : {"called", "exited", "integrating", "integrated"},
                                   base : Tips, tip : Tips])]
    BY <1>6 DEF Entries
  <2> QED BY ZenonT(40), <1>1, <1>4, <1>5, <1>6, <2>1 DEF IInv, TypeOK
<1>8. Running'
  BY <1>1, <1>3 DEF IInv, Running
<1>9. Based'
  BY <1>1, <1>6 DEF IInv, Based
<1>10. Exits'
  BY <1>1, <1>2, <1>5 DEF IInv, Exits
<1>11. Intended'
  <2>1. \A d \in Children \ {c} : integrating'[d] # None =>
          /\ IsPrefix(integrating[d].base, integrating[d].cand)
          /\ outcome[d] = "ok" => \/ integrating[d].cand = head[d]
                                  \/ temp[d] = integrating[d].cand
    BY <1>5 DEF IInv, Intended
  <2>2. integrating'[c].base = at.base /\ integrating'[c].cand = at.cand
    BY <1>5
  <2> QED BY <1>1, <1>2, <1>3, <1>5, <2>1, <2>2 DEF Intended
<1>12. ReceiptsHold'
  BY <1>1 DEF IInv, ReceiptsHold
<1>13. Landing'
  BY <1>1, <1>2, <1>4, <1>5 DEF Landing
<1> QED BY <1>7, <1>8, <1>9, <1>10, <1>11, <1>12, <1>13 DEF IInv

\* Moving the caller's branch on keeps the receipts, whose candidates were behind it.
LEMMA TipMovesOn ==
  ASSUME IInv, NEW t \in Tips, IsPrefix(tip[Caller], t),
         tip' = [tip EXCEPT ![Caller] = t],
         UNCHANGED <<log, base, blocked, popped, integrated, live>>,
         \A c \in Children : popped[c] /\ outcome'[c] = "ok" => outcome[c] = "ok"
  PROVE  /\ Based' /\ ReceiptsHold' /\ tip' \in [Frames -> Tips \cup {None}]
         /\ tip'[Caller] = t
<1>1. /\ tip' \in [Frames -> Tips \cup {None}] /\ tip'[Caller] = t
      /\ \A f \in Frames \ {Caller} : tip'[f] = tip[f]
      /\ t # None
  BY ChildrenAreFrames, EmptyTip DEF IInv, TypeOK
<1>2. base[Caller] = <<>> /\ IsPrefix(<<>>, t)
  BY PrefixEmpty DEF IInv, Based
<1>3. Based'
  <2>1. \A f \in Frames : base[f] # None => tip'[f] # None /\ IsPrefix(base[f], tip'[f])
    BY <1>1, <1>2 DEF IInv, Based
  <2>2. \A f \in Frames : live[f] = "branched" => tip'[f] # None
    BY <1>1 DEF IInv, Based
  <2> QED BY <2>1, <2>2 DEF IInv, Based
<1>4. ReceiptsHold'
  <2>1. ASSUME NEW c \in Children, integrated[c] # None
        PROVE  IsPrefix(integrated[c].cand, t)
    <3>1. integrated[c].cand \in Tips /\ IsPrefix(integrated[c].cand, tip[Caller])
      BY <2>1 DEF IInv, TypeOK, Intents, ReceiptsHold
    <3> QED BY <3>1, CallerTip, PrefixTrans
  <2> QED BY <1>1, <2>1 DEF IInv, ReceiptsHold
<1> QED BY <1>1, <1>3, <1>4

LEMMA AdvanceStep ==
  ASSUME IInv, Advance
  PROVE  IInv'
<1> DEFINE c == at.child
<1>1. /\ at.step = "advance"
      /\ UNCHANGED <<log, base, outcome, head, popped, integrating, integrated, call,
                     repushed, blocked, temp, up, live, body, batch, owned, done, made>>
  BY DEF Advance, IntegrateStays, bounds
<1>2. /\ c \in Children /\ c \in call.children \ done /\ outcome[c] = "ok"
      /\ live[c] = "no" /\ at.base \in Tips /\ at.cand \in Tips
  BY <1>1, IntegrationFacts
<1>3. /\ integrating[c] = [base |-> at.base, cand |-> at.cand]
      /\ body \in {"working", "failing"}
  BY <1>1 DEF IInv, Landing, Running
<1>4. integrating[c] # None
  BY <1>2, <1>3, ConstantsAssumption DEF Tips
<1>5. IsPrefix(at.base, at.cand)
  BY <1>2, <1>3, <1>4 DEF IInv, Intended
<1>6. /\ at' = [at EXCEPT !.step = "landed"] \/ at' = [at EXCEPT !.step = "fail"]
      /\ at'.step = "fail" => at.cand # tip[Caller] /\ tip' = tip
      /\ at'.step = "landed" => IsPrefix(at.cand, tip'[Caller])
      /\ Based' /\ ReceiptsHold' /\ tip' \in [Frames -> Tips \cup {None}]
  <2>1. at \in [child : Frames, base : Tips, cand : Tips,
                step : {"no", "reapply", "intent", "advance", "landed", "receipt",
                        "pop", "fail"}]
        /\ tip \in [Frames -> Tips \cup {None}]
    BY DEF IInv, TypeOK
  <2>2. tip' = tip => Based' /\ ReceiptsHold'
    BY <1>1 DEF IInv, Based, ReceiptsHold
  <2>3. CASE HasLanded /\ Goto("landed") /\ tip' = tip
    <3>1. at'.step = "landed" /\ IsPrefix(at.cand, tip'[Caller])
      BY <1>2, <2>1, <2>3, PrefixRefl DEF HasLanded, Goto
    <3> QED BY <2>1, <2>2, <2>3, <3>1 DEF Goto
  <2>4. CASE ~HasLanded /\ tip[Caller] = at.base /\ Goto("landed")
             /\ tip' = [tip EXCEPT ![Caller] = at.cand]
    <3>1. /\ Based' /\ ReceiptsHold' /\ tip' \in [Frames -> Tips \cup {None}]
          /\ tip'[Caller] = at.cand
      BY <1>1, <1>2, <1>5, <2>4, TipMovesOn
    <3>2. at'.step = "landed" /\ IsPrefix(at.cand, tip'[Caller])
      BY <1>2, <2>1, <2>4, <3>1, PrefixRefl DEF Goto
    <3> QED BY <2>4, <3>1, <3>2 DEF Goto
  <2>5. CASE ~HasLanded /\ Goto("fail") /\ tip' = tip
    <3>1. at'.step = "fail" /\ at.cand # tip[Caller]
      BY <2>1, <2>5 DEF HasLanded, Goto
    <3> QED BY <2>1, <2>2, <2>5, <3>1 DEF Goto
  <2> QED BY <2>3, <2>4, <2>5 DEF Advance
<1>7. at' \in [child : Frames, base : Tips, cand : Tips,
               step : {"no", "reapply", "intent", "advance", "landed", "receipt",
                       "pop", "fail"}]
      /\ at'.child = c /\ at'.base = at.base /\ at'.cand = at.cand
      /\ at'.step \in {"landed", "fail"}
  BY <1>6 DEF IInv, TypeOK
<1>8. TypeOK'
  BY ZenonT(40), <1>1, <1>6, <1>7 DEF IInv, TypeOK
<1>9. Running'
  BY <1>1, <1>3 DEF IInv, Running
<1>10. Exits' /\ Intended'
  BY <1>1 DEF IInv, Exits, Intended
<1>11. Landing'
  <2>1. at'.step = "fail" => integrating[c].cand # tip'[Caller]
    BY <1>3, <1>6
  <2> QED BY <1>1, <1>2, <1>3, <1>6, <1>7, <2>1 DEF Landing
<1> QED BY <1>6, <1>8, <1>9, <1>10, <1>11 DEF IInv

LEMMA LogReceiptStep ==
  ASSUME IInv, LogReceipt
  PROVE  IInv'
<1> DEFINE c == at.child
           receipt == [base |-> at.base, cand |-> at.cand]
<1>1. /\ at.step = "landed" /\ at' = [at EXCEPT !.step = "receipt"]
      /\ integrated' = [integrated EXCEPT ![c] = receipt]
      /\ integrating' = [integrating EXCEPT ![c] = None]
      /\ Note(Caller, Integrated(at.base, at.cand))
      /\ UNCHANGED <<base, outcome, head, popped, call, repushed, blocked,
                     tip, temp, up, live, body, batch, owned, done, made>>
  BY DEF LogReceipt, Goto, IntegrateStays, git, bounds
<1>2. /\ c \in Children /\ c \in call.children \ done /\ outcome[c] = "ok"
      /\ live[c] = "no" /\ at.base \in Tips /\ at.cand \in Tips
  BY <1>1, IntegrationFacts
<1>3. IsPrefix(at.cand, tip[Caller]) /\ body \in {"working", "failing"}
  BY <1>1 DEF IInv, Landing, Running
<1>4. at' \in [child : Frames, base : Tips, cand : Tips,
               step : {"no", "reapply", "intent", "advance", "landed", "receipt",
                       "pop", "fail"}]
      /\ at'.child = c /\ at'.step = "receipt"
  BY <1>1 DEF IInv, TypeOK
<1>5. receipt \in Intents /\ receipt # None /\ receipt.cand = at.cand
  BY <1>2, ConstantsAssumption DEF Tips, Intents
<1>6. /\ integrating' \in [Children -> Intents \cup {None}]
      /\ integrated' \in [Children -> Intents \cup {None}]
      /\ integrating'[c] = None /\ integrated'[c] = receipt
      /\ \A d \in Children \ {c} :
           integrating'[d] = integrating[d] /\ integrated'[d] = integrated[d]
  BY <1>1, <1>2, <1>5 DEF IInv, TypeOK
<1> HIDE DEF receipt
<1>7. /\ log' \in [Frames -> Seq(Entries)]
      /\ \A d \in Children : log'[d] = log[d]
  <2>1. Integrated(at.base, at.cand) \in Entries
    BY <1>2, EntryTypes
  <2> QED BY <1>1, <2>1, NoteFacts, ChildrenAreFrames DEF IInv
<1>8. TypeOK'
  <2>1. log' \in [Frames -> Seq([type : {"called", "exited", "integrating", "integrated"},
                                   base : Tips, tip : Tips])]
    BY <1>7 DEF Entries
  <2> QED BY ZenonT(40), <1>1, <1>4, <1>6, <1>7, <2>1 DEF IInv, TypeOK
<1>9. Running'
  BY <1>1, <1>3 DEF IInv, Running
<1>10. Based'
  BY <1>1, <1>7 DEF IInv, Based
<1>11. Exits'
  BY <1>1, <1>6 DEF IInv, Exits
<1>12. Intended'
  BY <1>1, <1>6 DEF IInv, Intended
<1>13. ReceiptsHold'
  <2>1. \A d \in Children \ {c} :
          /\ integrated'[d] # None => IsPrefix(integrated'[d].cand, tip[Caller])
          /\ popped[d] /\ outcome[d] = "ok" => integrated'[d] # None
    BY <1>6 DEF IInv, ReceiptsHold
  <2> QED BY <1>1, <1>3, <1>5, <1>6, <2>1 DEF ReceiptsHold
<1>14. Landing'
  BY <1>1, <1>2, <1>4, <1>5, <1>6 DEF Landing
<1> QED BY <1>8, <1>9, <1>10, <1>11, <1>12, <1>13, <1>14 DEF IInv

LEMMA ClaimStep ==
  ASSUME IInv, Claim
  PROVE  IInv'
<1> DEFINE c == at.child
<1>1. /\ at.step = "receipt" /\ at' = [at EXCEPT !.step = "pop"]
      /\ temp' = [temp EXCEPT ![c] = None] /\ owned' = owned \cup SourcePaths(c)
      /\ UNCHANGED <<log, base, outcome, head, popped, integrating, integrated, call,
                     repushed, blocked, tip, up, live, body, batch, done, made>>
  BY DEF Claim, Goto, IntegrateStays, bounds
<1>2. /\ c \in Children /\ c \in call.children \ done /\ outcome[c] = "ok"
      /\ live[c] = "no"
  BY <1>1, IntegrationFacts
<1>3. /\ integrated[c] # None /\ integrating[c] = None
      /\ body \in {"working", "failing"}
  BY <1>1 DEF IInv, Landing, Running
<1>4. at' \in [child : Frames, base : Tips, cand : Tips,
               step : {"no", "reapply", "intent", "advance", "landed", "receipt",
                       "pop", "fail"}]
      /\ at'.child = c /\ at'.step = "pop"
  BY <1>1 DEF IInv, TypeOK
<1>5. /\ temp' \in [Children -> Tips \cup {None}]
      /\ \A d \in Children : integrating[d] # None => temp'[d] = temp[d]
  BY <1>1, <1>2, <1>3 DEF IInv, TypeOK
<1>6. owned' \subseteq UNION {Paths[d] : d \in Children}
  <2>1. SourcePaths(c) \subseteq UNION {Paths[d] : d \in Children}
    BY <1>2 DEF SourcePaths
  <2> QED BY <1>1, <2>1 DEF IInv, TypeOK
<1>7. TypeOK'
  BY ZenonT(40), <1>1, <1>4, <1>5, <1>6 DEF IInv, TypeOK
<1>8. Running'
  BY <1>1, <1>3 DEF IInv, Running
<1>9. Landing'
  BY <1>1, <1>2, <1>3, <1>4 DEF Landing
<1>10. Based' /\ Exits' /\ Intended' /\ ReceiptsHold'
  BY <1>1, <1>5, StoresKept DEF IInv, Based
<1> QED BY <1>7, <1>8, <1>9, <1>10 DEF IInv

LEMMA PopStep ==
  ASSUME IInv, Pop
  PROVE  IInv'
<1> DEFINE c == at.child
           verdict == IF at.step = "pop" THEN "ok" ELSE "failed"
<1>1. /\ at.step \in {"pop", "fail"} /\ at' = Idle
      /\ popped' = [popped EXCEPT ![c] = TRUE]
      /\ outcome' = [outcome EXCEPT ![c] = verdict]
      /\ done' = done \cup {c}
      /\ UNCHANGED <<log, base, head, integrating, integrated, call, repushed, blocked,
                     tip, temp, up, live, body, batch, owned, made>>
  BY DEF Pop, git, bounds
<1>2. c \in Children /\ c \in Frames /\ live[c] = "no" /\ outcome[c] = "ok"
  BY <1>1, IntegrationFacts
<1>3. at.step = "pop" => integrated[c] # None
  BY DEF IInv, Landing
<1>4. /\ popped' \in [Children -> BOOLEAN] /\ popped'[c]
      /\ outcome' \in [Frames -> {"none", "ok", "failed"}] /\ outcome'[c] = verdict
      /\ \A d \in Children \ {c} : popped'[d] = popped[d] /\ outcome'[d] = outcome[d]
  BY <1>1, <1>2, ChildrenAreFrames DEF IInv, TypeOK
<1>5. Idle \in [child : Frames, base : Tips, cand : Tips,
                step : {"no", "reapply", "intent", "advance", "landed", "receipt",
                        "pop", "fail"}]
      /\ Idle.step = "no"
  BY EmptyTip, ChildrenAreFrames DEF Idle
<1>6. TypeOK'
  BY ZenonT(40), <1>1, <1>2, <1>4, <1>5 DEF IInv, TypeOK
<1>7. Running'
  BY <1>1, <1>2, <1>5 DEF IInv, Running
<1>8. Based'
  BY <1>1 DEF IInv, Based
<1>9. Exits'
  BY <1>1, <1>2, <1>4 DEF IInv, Exits
<1>10. Intended'
  BY <1>1, <1>2, <1>4 DEF IInv, Intended
<1>11. ReceiptsHold'
  BY <1>1, <1>3, <1>4 DEF IInv, ReceiptsHold
<1>12. Landing'
  BY <1>1, <1>5 DEF Landing
<1> QED BY <1>6, <1>7, <1>8, <1>9, <1>10, <1>11, <1>12 DEF IInv

-----------------------------------------------------------------------------
(* The theorems. *)

LEMMA InitInvariant == Init => IInv
<1> SUFFICES ASSUME Init PROVE IInv
  OBVIOUS
<1>1. /\ <<>> \in Tips /\ None # <<>> /\ IsPrefix(<<>>, <<>>)
      /\ Children \subseteq Frames /\ Caller \in Frames /\ Caller \notin Children
  BY EmptyTip, PrefixEmpty, ChildrenAreFrames
<1>2. TypeOK
  <2>1. /\ log \in [Frames -> Seq([type : {"called", "exited", "integrating", "integrated"},
                                   base : Tips, tip : Tips])]
        /\ base \in [Frames -> Tips \cup {None}] /\ tip \in [Frames -> Tips \cup {None}]
        /\ made \in [Frames -> Nat]
    BY <1>1, EmptySeq DEF Init
  <2>2. at \in [child : Frames, base : Tips, cand : Tips,
                step : {"no", "reapply", "intent", "advance", "landed", "receipt",
                        "pop", "fail"}]
        /\ call \in [children : SUBSET Children, open : BOOLEAN, parallel : BOOLEAN,
                     retry : BOOLEAN]
    BY <1>1 DEF Init, Idle, NoCall
  <2>3. /\ outcome \in [Frames -> {"none", "ok", "failed"}]
        /\ head \in [Children -> Tips \cup {None}] /\ temp \in [Children -> Tips \cup {None}]
        /\ popped \in [Children -> BOOLEAN]
        /\ integrating \in [Children -> Intents \cup {None}]
        /\ integrated \in [Children -> Intents \cup {None}]
        /\ repushed \in BOOLEAN /\ blocked \in [Frames -> Tips \cup {None}]
        /\ up \in BOOLEAN /\ live \in [Frames -> {"no", "branched", "running"}]
        /\ body \in {"no", "entered", "working", "failing"}
        /\ batch \in Tips \cup {None} /\ done \subseteq Children
        /\ owned \subseteq UNION {Paths[c] : c \in Children}
    BY <1>1 DEF Init
  <2> QED BY <2>1, <2>2, <2>3 DEF TypeOK
<1>3. /\ \A f \in Frames \ {Caller} : live[f] = "no" /\ base[f] = None
      /\ \A f \in Frames : blocked[f] = None
      /\ base[Caller] = <<>> /\ tip[Caller] = <<>> /\ live[Caller] = "running"
      /\ body = "no" /\ at.step = "no"
  BY <1>1 DEF Init, Idle
<1>4. Running
  BY <1>1, <1>3 DEF Running
<1>5. Based
  <2>1. \A c \in Children : Len(log[c]) = 0
    BY <1>1, EmptySeq DEF Init
  <2>2. \A c \in Children : \A i \in 1..Len(log[c]) : log[c][i].type = "exited"
    BY <2>1
  <2> QED BY <1>1, <1>3, <2>2 DEF Based
<1>6. \A c \in Children : /\ outcome[c] = "none" /\ integrating[c] = None
                          /\ integrated[c] = None /\ ~popped[c] /\ live[c] = "no"
  BY <1>1 DEF Init
<1>7. Exits /\ Intended /\ ReceiptsHold
  BY <1>6 DEF Exits, Intended, ReceiptsHold
<1>8. Landing
  BY <1>3 DEF Landing
<1> QED BY <1>2, <1>4, <1>5, <1>7, <1>8 DEF IInv

LEMMA NextInvariant == IInv /\ [Next]_vars => IInv'
<1> SUFFICES ASSUME IInv, [Next]_vars PROVE IInv'
  OBVIOUS
<1>1. CASE UNCHANGED vars
  <2>1. UNCHANGED <<log, base, outcome, head, popped, integrating, integrated, call, repushed,
                    blocked, tip, temp, up, live, body, batch, owned, done, at, made>>
    BY <1>1 DEF vars, durable, git, memory, bounds
  <2>2. TypeOK'
    BY ZenonT(40), <2>1 DEF IInv, TypeOK
  <2>3. Running' /\ Landing'
    BY <2>1 DEF IInv, Running, Landing
  <2>4. Based' /\ Exits' /\ Intended' /\ ReceiptsHold'
    BY <2>1, StoresKept DEF IInv, Based
  <2> QED BY <2>2, <2>3, <2>4 DEF IInv
<1>2. CASE \E f \in Frames : WorkerCommits(f) \/ ParkRun(f) \/ OperatorResets(f)
  BY <1>2, CommitStep, RelaunchSteps, ResetStep
<1>3. CASE Observe
  BY <1>3, ObserveStep
<1>4. CASE ReplayCall \/ EnterBody \/ EndFailing \/ Return
  BY <1>4, BodySteps
<1>5. CASE (\E parallel \in BOOLEAN : CallDispatch(parallel))
           \/ (\E c \in Children : CallRetry(c))
  BY <1>5, CallSteps
<1>6. CASE \E c \in Children : ChildStep(c)
  <2>1. PICK c \in Children : ChildStep(c)
    BY <1>6
  <2>2. CASE Branch(c) \/ Reopen(c) \/ Push(c)
    BY <2>2, BranchStep, ReopenStep, PushStep
  <2>3. CASE \E o \in {"ok", "failed"} : ExitChild(c, o)
    BY <2>3, ExitStep
  <2>4. CASE RejectBranch(c) \/ BlockChild(c) \/ UnwindChild(c) \/ FinishFailed(c)
             \/ FinishIntegrated(c)
    BY <2>4, TurnSteps
  <2>5. CASE StartIntegration(c)
    BY <2>5, StartStep
  <2> QED BY <2>1, <2>2, <2>3, <2>4, <2>5 DEF ChildStep
<1>7. CASE Integrate
  BY <1>7, ReapplyStep, LogIntentStep, AdvanceStep, LogReceiptStep, ClaimStep, PopStep
     DEF Integrate
<1>8. CASE Crash \/ Restart
  BY <1>8, CrashStep, RestartStep
<1>9. CASE Relaunch
  BY <1>9, RelaunchSteps
<1> QED BY <1>1, <1>2, <1>3, <1>4, <1>5, <1>6, <1>7, <1>8, <1>9 DEF Next

\* The inductive invariant holds in every state of every run of the engine.
THEOREM IInvHolds == Spec => []IInv
BY InitInvariant, NextInvariant, PTL DEF Spec

\* Type correctness.
THEOREM TypesHold == Spec => []TypeOK
<1>1. IInv => TypeOK
  BY DEF IInv
<1> QED BY <1>1, IInvHolds, PTL

\* What frame_integrated says is on the caller's branch, and a child popped as ok has
\* such a receipt, wherever _integrate_frame crashed and whatever was reset.
THEOREM ReceiptsHoldHolds == Spec => []ReceiptsHold
<1>1. IInv => ReceiptsHold
  BY DEF IInv
<1> QED BY <1>1, IInvHolds, PTL

\* The candidate of an intent in the journal is reachable from a branch or from its
\* temporary ref: neither the sweep at a restart nor a retry lets Git prune it.
THEOREM IntentIsHeldHolds == Spec => []IntentIsHeld
<1>1. IInv => IntentIsHeld
  BY DEF IInv, Intended, IntentIsHeld
<1> QED BY <1>1, IInvHolds, PTL

\* Only an integration that has failed turns ok into failed, and it fails with its
\* intent, if it has one, not being the caller's tip.
LEMMA NoStepFailsFalsely ==
  ASSUME IInv, [Next]_vars, NEW c \in Children, outcome[c] = "ok", outcome'[c] = "failed"
  PROVE  integrating[c] = None \/ integrating[c].cand # tip[Caller]
<1>1. CASE Pop
  <2>1. /\ at.step \in {"pop", "fail"}
        /\ outcome' = [outcome EXCEPT ![at.child] = IF at.step = "pop" THEN "ok" ELSE "failed"]
    BY <1>1 DEF Pop
  <2>2. at.step = "fail" /\ at.child = c
    BY <2>1 DEF IInv, TypeOK
  <2> QED BY <2>2 DEF IInv, Landing
<1>2. CASE \E d \in Children : \E o \in {"ok", "failed"} : ExitChild(d, o)
  <2>1. PICK d \in Children, o \in {"ok", "failed"} : ExitChild(d, o)
    BY <1>2
  <2>2. live[d] = "running" /\ outcome' = [outcome EXCEPT ![d] = o]
    BY <2>1 DEF ExitChild
  <2>3. d = c
    BY <2>2 DEF IInv, TypeOK
  <2> QED BY <2>2, <2>3 DEF IInv, Exits
<1>3. CASE \E d \in Children : Push(d)
  <2>1. PICK d \in Children : outcome' = [outcome EXCEPT ![d] = "none"]
    BY <1>3 DEF Push
  <2>2. outcome \in [Frames -> {"none", "ok", "failed"}] /\ d \in Frames /\ c \in Frames
    BY ChildrenAreFrames DEF IInv, TypeOK
  <2> QED BY <2>1, <2>2
<1>4. CASE UNCHANGED outcome
  BY <1>4
<1>5. \/ Pop \/ (\E d \in Children : Push(d)) \/ UNCHANGED outcome
      \/ \E d \in Children : \E o \in {"ok", "failed"} : ExitChild(d, o)
  <2>1. CASE UNCHANGED vars
    BY <2>1 DEF vars, durable
  <2>2. CASE \E f \in Frames : WorkerCommits(f) \/ ParkRun(f) \/ OperatorResets(f)
    BY <2>2 DEF WorkerCommits, ParkRun, OperatorResets, durable
  <2>3. CASE Observe \/ ReplayCall \/ EnterBody \/ EndFailing \/ Return
    BY <2>3 DEF Observe, ReplayCall, EnterBody, EndFailing, Return, durable
  <2>4. CASE (\E parallel \in BOOLEAN : CallDispatch(parallel))
             \/ (\E d \in Children : CallRetry(d))
    BY <2>4 DEF CallDispatch, CallRetry
  <2>5. CASE \E d \in Children : ChildStep(d)
    BY <2>5 DEF ChildStep, Branch, RejectBranch, Reopen, BlockChild, UnwindChild,
                FinishFailed, FinishIntegrated, StartIntegration, IntegrateStays, durable
  <2>6. CASE Integrate
    BY <2>6 DEF Integrate, Reapply, LogIntent, Advance, LogReceipt, Claim, IntegrateStays
  <2>7. CASE Crash \/ Restart \/ Relaunch
    BY <2>7 DEF Crash, Restart, Relaunch, durable
  <2> QED BY <2>1, <2>2, <2>3, <2>4, <2>5, <2>6, <2>7 DEF Next
<1> QED BY <1>1, <1>2, <1>3, <1>4, <1>5

\* No child is reported as failed while its candidate is the caller's tip
\* (_integrate_frame: an advance that finds its candidate in place has succeeded).
THEOREM NoFalseFailureHolds == Spec => NoFalseFailure
<1>1. IInv /\ [Next]_vars =>
        [ \A c \in Children :
            outcome[c] = "ok" /\ outcome'[c] = "failed" =>
              integrating[c] = None \/ integrating[c].cand # tip[Caller] ]_vars
  BY NoStepFailsFalsely
<1> QED BY <1>1, IInvHolds, PTL DEF Spec, NoFalseFailure

\* A frame that starts without an outcome has passed the guard, or has no base yet.
LEMMA NoStepSkipsTheGuard ==
  ASSUME IInv, [Next]_vars, NEW f \in Frames,
         live[f] = "no", live'[f] # "no", base[f] # None, outcome[f] = "none"
  PROVE  tip[f] \in Named(f)
<1> USE ChildrenAreFrames
<1>0. live \in [Frames -> {"no", "branched", "running"}] /\ TypeOK
  BY DEF IInv, TypeOK
<1>1. CASE Relaunch
  <2>1. Explained(Caller) /\ live' = [live EXCEPT ![Caller] = "running"]
    BY <1>1 DEF Relaunch
  <2>2. f = Caller
    BY <1>0, <2>1
  <2> QED BY <1>0, <2>1, <2>2, WalkIsNamed
<1>2. CASE \E c \in Children : Reopen(c)
  <2>1. PICK c \in Children : Reopen(c)
    BY <1>2
  <2>2. /\ outcome[c] = "none" => Explained(c)
        /\ live' = [live EXCEPT ![c] = "branched"]
    BY <2>1 DEF Reopen
  <2>3. f = c
    BY <1>0, <2>2
  <2> QED BY <1>0, <2>2, <2>3, WalkIsNamed
<1>3. CASE \E c \in Children : Branch(c) \/ Push(c)
  <2>1. PICK c \in Children : Branch(c) \/ Push(c)
    BY <1>3
  <2>2. /\ base[c] = None \/ live[c] = "branched"
        /\ live' = [live EXCEPT ![c] = "branched"] \/ live' = [live EXCEPT ![c] = "running"]
    BY <2>1 DEF Branch, Push
  <2>3. f = c
    BY <1>0, <2>2
  <2> QED BY <2>2, <2>3
<1>4. CASE \A g \in Frames : live'[g] \in {"no", live[g]}
  BY <1>4
<1>5. \/ Relaunch \/ (\E c \in Children : Reopen(c) \/ Branch(c) \/ Push(c))
      \/ \A g \in Frames : live'[g] \in {"no", live[g]}
  <2>1. CASE UNCHANGED vars
    BY <2>1 DEF vars, memory
  <2>2. CASE \E g \in Frames : WorkerCommits(g) \/ ParkRun(g) \/ OperatorResets(g)
    BY <2>2 DEF WorkerCommits, ParkRun, OperatorResets, memory
  <2>3. CASE Observe \/ ReplayCall \/ EnterBody \/ EndFailing \/ Return
    BY <2>3 DEF Observe, ReplayCall, EnterBody, EndFailing, Return, memory
  <2>4. CASE (\E parallel \in BOOLEAN : CallDispatch(parallel))
             \/ (\E d \in Children : CallRetry(d))
    BY <2>4 DEF CallDispatch, CallRetry
  <2>5. CASE \E c \in Children : ChildStep(c)
    <3>1. PICK c \in Children : ChildStep(c)
      BY <2>5
    <3>2. CASE RejectBranch(c) \/ BlockChild(c) \/ FinishFailed(c)
               \/ FinishIntegrated(c) \/ StartIntegration(c)
      BY <3>2 DEF RejectBranch, BlockChild, FinishFailed, FinishIntegrated,
                  StartIntegration, IntegrateStays
    <3>3. CASE (\E o \in {"ok", "failed"} : ExitChild(c, o)) \/ UnwindChild(c)
      <4>1. live' = [live EXCEPT ![c] = "no"]
        BY <3>3 DEF ExitChild, UnwindChild
      <4> QED BY <1>0, <4>1
    <3> QED BY <3>1, <3>2, <3>3 DEF ChildStep
  <2>6. CASE Integrate
    BY <2>6 DEF Integrate, Reapply, LogIntent, Advance, LogReceipt, Claim, Pop,
                IntegrateStays
  <2>7. CASE Crash \/ Restart
    <3>1. \/ live' = [g \in Frames |-> IF live[g] = "running" THEN "running" ELSE "no"]
          \/ live' = [g \in Frames |-> "no"]
      BY <2>7 DEF Crash, Restart
    <3> QED BY <3>1
  <2> QED BY <2>1, <2>2, <2>3, <2>4, <2>5, <2>6, <2>7 DEF Next
<1> QED BY <1>1, <1>2, <1>3, <1>4, <1>5

\* A frame without an outcome is only relaunched at a tip that some event of its
\* journal names (_guard_frame_relaunch, _explained_frame_tips).
THEOREM GuardIsSoundHolds == Spec => GuardIsSound
<1>1. IInv /\ [Next]_vars =>
        [ \A f \in Frames :
            live[f] = "no" /\ live'[f] # "no" /\ base[f] # None /\ outcome[f] = "none" =>
              tip[f] \in Named(f) ]_vars
  BY NoStepSkipsTheGuard
<1> QED BY <1>1, IInvHolds, PTL DEF Spec, GuardIsSound
-----------------------------------------------------------------------------
(* Owners: whose commits are on which branch. *)

\* The children with a commit behind tip t.
By(t) == {c \in Children : \E i \in 1..Len(t) : t[i][1] = c}

\* What t has beyond b is all by c.
GrownBy(c, b, t) == \A i \in 1..Len(t) : i > Len(b) => t[i][1] = c

\* Children that are known to have landed, or to be about to.
Known == {c \in Children : integrating[c] # None \/ integrated[c] # None}

\* Those of them that add a commit.
Givers == {c \in Known : Source(c) # <<>>}

\* The children behind t are among the known, and share no path.
Fine(known, t) ==
  /\ By(t) \subseteq known
  /\ \A c, d \in By(t) : c # d => Paths[c] \cap Paths[d] = {}

\* The tips that the caller's branch has, had, or may get again.
History ==
  {t \in Tips :
     \/ t = tip[Caller] \/ t = batch
     \/ \E i \in 1..Len(log[Caller]) : t = log[Caller][i].tip \/ t = log[Caller][i].base
     \/ \E c \in Children :
          \/ t = base[c]
          \/ base[c] = None /\ t = tip[c]
          \/ integrating[c] # None /\ (t = integrating[c].base \/ t = integrating[c].cand)}

\* The dispatch in flight, or to come, is the first and its tasks run in parallel.
First ==
  /\ Children # {} /\ retries = 0
  /\ call.parallel \/ call = NoCall

\* A first dispatch has all the tasks, and is no retry.
Whole ==
  /\ retries \in Nat
  /\ body # "no" => call.open
  /\ retries = 0 => ~call.retry /\ (call # NoCall => call.children = Children)

\* A child adds only commits of its own.
Own ==
  \A c \in Children :
    /\ base[c] # None => GrownBy(c, base[c], tip[c])
    /\ outcome[c] # "none" => GrownBy(c, base[c], head[c])
    /\ \A i \in 1..Len(log[c]) :
         /\ base[c] # None
         /\ GrownBy(c, base[c], log[c][i].tip) /\ GrownBy(c, base[c], log[c][i].base)

\* Nothing is known of a child before its exit.
Unknown ==
  \A c \in Children :
    /\ outcome[c] = "none" => c \notin Known
    /\ live[c] = "branched" => outcome[c] = "none"

\* An intent adds what its child added.
Adds ==
  \A c \in Children : integrating[c] # None /\ outcome[c] = "ok" =>
    By(integrating[c].cand) \subseteq By(integrating[c].base) \cup By(Source(c))

\* While tasks are under way the paths of whoever is on the caller's branch are
\* claimed, but for the one that is just landing; and what is about to get an intent
\* shares none of them.
Claimed ==
  /\ body \in {"working", "failing"} =>
       \A c \in By(tip[Caller]) :
         \/ Paths[c] \subseteq owned
         \/ at.child = c /\ at.step \in {"landed", "receipt"} /\ Source(c) # <<>>
  /\ at.step \in {"reapply", "intent"} =>
       at.base = tip[Caller] /\ SourcePaths(at.child) \cap owned = {}
  /\ at.step = "intent" => By(at.cand) \subseteq By(at.base) \cup By(Source(at.child))

Owners ==
  /\ Whole /\ Own
  /\ First => Unknown /\ Adds /\ Claimed /\ \A t \in History : Fine(Givers, t)

\* The commits behind a tip.
LEMMA ByEmpty == By(<<>>) = {}
BY DEF By

LEMMA ByAppend ==
  ASSUME NEW t \in Tips, NEW f \in Frames, NEW n \in Nat
  PROVE  /\ By(Append(t, <<f, n>>)) \subseteq By(t) \cup {f}
         /\ \A b : GrownBy(f, b, t) => GrownBy(f, b, Append(t, <<f, n>>))
<1> DEFINE e == <<f, n>>
<1>1. e \in Frames \X Nat /\ e[1] = f
  OBVIOUS
<1> HIDE DEF e
<1>2. /\ Len(t) \in Nat /\ Len(Append(t, e)) = Len(t) + 1
      /\ \A i \in 1..Len(t) : Append(t, e)[i] = t[i]
      /\ Append(t, e)[Len(t) + 1] = e
  BY <1>1, AppendProperties, LenProperties DEF Tips
<1>3. \A i \in 1..Len(t) + 1 : i \in 1..Len(t) \/ i = Len(t) + 1
  BY <1>2
<1>4. By(Append(t, e)) \subseteq By(t) \cup {f}
  BY <1>1, <1>2, <1>3 DEF By
<1>5. \A b : GrownBy(f, b, t) => GrownBy(f, b, Append(t, e))
  BY <1>1, <1>2, <1>3 DEF GrownBy
<1> QED BY <1>4, <1>5 DEF e

LEMMA ByConcat ==
  ASSUME NEW s \in Tips, NEW t \in Tips
  PROVE  By(s \o t) \subseteq By(s) \cup By(t)
<1>1. /\ Len(s) \in Nat /\ Len(t) \in Nat /\ Len(s \o t) = Len(s) + Len(t)
      /\ \A i \in 1..Len(s) + Len(t) :
           (s \o t)[i] = IF i <= Len(s) THEN s[i] ELSE t[i - Len(s)]
  BY ConcatProperties, LenProperties DEF Tips
<1>2. ASSUME NEW i \in 1..Len(s) + Len(t)
      PROVE  \/ i \in 1..Len(s) /\ (s \o t)[i] = s[i]
             \/ i - Len(s) \in 1..Len(t) /\ (s \o t)[i] = t[i - Len(s)]
  BY <1>1
<1> QED BY <1>1, <1>2 DEF By

\* A head that grew from its base by commits of c: the rest is by c, and there is
\* nothing else.
LEMMA ByRest ==
  ASSUME NEW c \in Children, NEW b \in Tips, NEW h \in Tips, IsPrefix(b, h),
         GrownBy(c, b, h)
  PROVE  /\ By(SubSeq(h, Len(b) + 1, Len(h))) \subseteq {c}
         /\ By(h) \subseteq By(b) \cup By(SubSeq(h, Len(b) + 1, Len(h)))
<1> DEFINE r == SubSeq(h, Len(b) + 1, Len(h))
<1>1. /\ Len(b) \in Nat /\ Len(h) \in Nat /\ Len(b) <= Len(h)
      /\ \A i \in 1..Len(b) : b[i] = h[i]
  BY PrefixMeans, LenProperties DEF Tips
<1>2. \A i \in 1..Len(h) : h[i] \in Frames \X Nat
  BY ElementOfSeq DEF Tips
<1>3. \A i \in Len(b) + 1 .. Len(h) : h[i] \in Frames \X Nat
  BY <1>1, <1>2
<1>4. /\ Len(r) = IF Len(b) + 1 <= Len(h) THEN Len(h) - (Len(b) + 1) + 1 ELSE 0
      /\ \A i \in 1 .. Len(h) - (Len(b) + 1) + 1 : r[i] = h[Len(b) + 1 + i - 1]
  BY <1>1, <1>3, SubSeqProperties
<1> HIDE DEF r
<1>5. Len(r) = Len(h) - Len(b) /\ \A i \in 1..Len(r) : r[i] = h[Len(b) + i]
  BY <1>1, <1>4
<1>6. By(r) \subseteq {c}
  <2> SUFFICES ASSUME NEW i \in 1..Len(r) PROVE r[i][1] = c
    BY DEF By
  <2>1. Len(b) + i \in 1..Len(h) /\ Len(b) + i > Len(b) /\ r[i] = h[Len(b) + i]
    BY <1>1, <1>5
  <2> QED BY <2>1 DEF GrownBy
<1>7. ASSUME NEW d \in By(h) PROVE d \in By(b) \cup By(r)
  <2>1. PICK i \in 1..Len(h) : h[i][1] = d /\ d \in Children
    BY DEF By
  <2>2. CASE i <= Len(b)
    <3>1. i \in 1..Len(b) /\ b[i] = h[i]
      BY <1>1, <2>2
    <3> QED BY <2>1, <3>1 DEF By
  <2>3. CASE ~(i <= Len(b))
    <3>1. i - Len(b) \in 1..Len(r) /\ r[i - Len(b)] = h[i]
      BY <1>1, <1>5, <2>3
    <3> QED BY <2>1, <3>1 DEF By
  <2> QED BY <2>2, <2>3
<1> QED BY <1>6, <1>7 DEF r

\* More children known leave a tip as it is.
LEMMA FineStays ==
  ASSUME NEW K, NEW L, K \subseteq L, NEW t, Fine(K, t)
  PROVE  Fine(L, t)
BY DEF Fine

\* A step that adds only such tips to the history.
LEMMA HistoryStays ==
  ASSUME Owners, First, Givers \subseteq Givers',
         \A t \in History' : t \in History \/ Fine(Givers', t)
  PROVE  (\A t \in History : Fine(Givers, t))'
<1>1. \A t \in History : Fine(Givers, t)
  BY DEF Owners
<1>2. \A t \in History : Fine(Givers', t)
  BY <1>1, FineStays
<1> HIDE DEF History, Givers
<1>3. \A t \in History' : Fine(Givers', t)
  BY <1>2
<1> QED BY <1>3 DEF Fine, By

\* A dispatch that is the first was so before.
LEMMA FirstStays ==
  ASSUME IInv, Whole, [Next]_vars
  PROVE  Whole' /\ (First' => First)
<1>1. CASE UNCHANGED <<call, retries>> /\ (body' # "no" => body # "no" \/ call.open)
  BY <1>1 DEF Whole, First, NoCall
<1>2. ASSUME NEW parallel \in BOOLEAN, CallDispatch(parallel) PROVE Whole' /\ (First' => First)
  <2>1. /\ call = NoCall /\ UNCHANGED retries
        /\ call' = [children |-> Children, open |-> TRUE, parallel |-> parallel, retry |-> FALSE]
    BY <1>2 DEF CallDispatch, NoCall, bounds
  <2> QED BY <2>1 DEF Whole, First
<1>3. ASSUME NEW c \in Children, CallRetry(c) PROVE Whole' /\ (First' => First)
  <2>1. retries' = retries + 1 /\ call'.open
    BY <1>3 DEF CallRetry, NoCall
  <2> QED BY <2>1 DEF Whole, First
<1>4. CASE Return
  <2>1. /\ body # "no" /\ body' = "no" /\ UNCHANGED retries
        /\ call' = [call EXCEPT !.open = FALSE]
        /\ call \in [children : SUBSET Children, open : BOOLEAN, parallel : BOOLEAN,
                     retry : BOOLEAN]
    BY <1>4 DEF Return, bounds, IInv, TypeOK
  <2>2. /\ call'.children = call.children /\ call'.parallel = call.parallel
        /\ call'.retry = call.retry /\ call # NoCall
    BY <2>1 DEF Whole, NoCall
  <2>3. First' => First
    <3>1. retries = 0 /\ Children # {} => call' # NoCall
      BY <2>1, <2>2 DEF Whole, NoCall
    <3> QED BY <2>1, <2>2, <3>1 DEF First
  <2> QED BY <2>1, <2>2, <2>3 DEF Whole
<1>5. CASE ReplayCall \/ EnterBody \/ EndFailing
  BY <1>1, <1>5 DEF ReplayCall, EnterBody, EndFailing, MayCall, durable, bounds
<1>6. CASE Observe \/ Crash \/ Restart \/ Relaunch \/ UNCHANGED vars
  BY <1>1, <1>6 DEF Observe, Crash, Restart, Relaunch, durable, memory, bounds, vars
<1>7. ASSUME NEW f \in Frames, WorkerCommits(f) \/ ParkRun(f) \/ OperatorResets(f)
      PROVE  Whole' /\ (First' => First)
  BY <1>1, <1>7 DEF WorkerCommits, ParkRun, OperatorResets, durable, memory, bounds
<1>8. ASSUME NEW c \in Children, ChildStep(c) PROVE Whole' /\ (First' => First)
  <2>1. UNCHANGED <<call, retries>>
    BY <1>8 DEF ChildStep, Branch, RejectBranch, Reopen, BlockChild, Push, ExitChild,
       UnwindChild, FinishFailed, FinishIntegrated, StartIntegration, IntegrateStays,
       durable, bounds
  <2>2. body' = body \/ body # "no"
    <3>1. CASE UnwindChild(c)
      <4>1. up /\ live[c] # "no"
        BY <3>1 DEF UnwindChild
      <4> QED BY <4>1 DEF IInv, Running
    <3>2. CASE ~UnwindChild(c)
      BY <1>8, <3>2 DEF ChildStep, Branch, RejectBranch, Reopen, BlockChild, Push,
         ExitChild, FinishFailed, FinishIntegrated, StartIntegration, IntegrateStays,
         Turn, memory
    <3> QED BY <3>1, <3>2
  <2> QED BY <1>1, <2>1, <2>2
<1>9. CASE Integrate
  BY <1>1, <1>9 DEF Integrate, Reapply, LogIntent, Advance, LogReceipt, Claim, Pop,
     IntegrateStays, bounds
<1> QED BY <1>2, <1>3, <1>4, <1>5, <1>6, <1>7, <1>8, <1>9 DEF Next

\* What a step keeps that does not touch it.
LEMMA OwnKept ==
  ASSUME Own, UNCHANGED <<base, head>>,
         \A c \in Children :
           /\ base[c] # None => tip'[c] = tip[c]
           /\ log'[c] = log[c] /\ (outcome'[c] # "none" => outcome[c] # "none")
  PROVE  Own'
<1> SUFFICES ASSUME NEW c \in Children
             PROVE  /\ base[c] # None => GrownBy(c, base[c], tip'[c])
                    /\ outcome'[c] # "none" => GrownBy(c, base[c], head[c])
                    /\ \A i \in 1..Len(log'[c]) :
                         /\ base[c] # None
                         /\ GrownBy(c, base[c], log'[c][i].tip)
                         /\ GrownBy(c, base[c], log'[c][i].base)
  BY DEF Own, GrownBy
<1> QED BY DEF Own

LEMMA GiversKept ==
  ASSUME Known' = Known,
         \A c \in Known : base'[c] = base[c] /\ head'[c] = head[c]
  PROVE  Givers' = Givers
<1>1. \A c \in Known : Source(c)' = Source(c)
  BY DEF Source
<1> HIDE DEF Known
<1> QED BY <1>1 DEF Givers

LEMMA AddsKept ==
  ASSUME Adds,
         \A c \in Children : integrating'[c] # None /\ outcome'[c] = "ok" =>
           /\ integrating'[c] = integrating[c] /\ outcome[c] = "ok"
           /\ base'[c] = base[c] /\ head'[c] = head[c]
  PROVE  Adds'
<1> SUFFICES ASSUME NEW c \in Children, integrating'[c] # None, outcome'[c] = "ok"
             PROVE  By(integrating'[c].cand) \subseteq By(integrating'[c].base) \cup By(Source(c)')
  BY DEF Adds, By
<1>1. Source(c)' = Source(c)
  BY DEF Source
<1> QED BY <1>1 DEF Adds

LEMMA ClaimedKept ==
  ASSUME IInv, Claimed, UNCHANGED <<at, owned>>, tip'[Caller] = tip[Caller],
         body' \in {"working", "failing"} => body \in {"working", "failing"},
         at.step # "no" => base'[at.child] = base[at.child] /\ head'[at.child] = head[at.child]
  PROVE  Claimed'
<1>1. at.step # "no" => /\ Source(at.child)' = Source(at.child)
                        /\ SourcePaths(at.child)' = SourcePaths(at.child)
  BY DEF Source, SourcePaths
<1>2. By(tip[Caller])' = By(tip[Caller]) /\ By(at.base)' = By(at.base)
      /\ By(at.cand)' = By(at.cand)
  BY DEF By
<1> QED BY <1>1, <1>2 DEF Claimed

LEMMA HistoryKept ==
  ASSUME UNCHANGED <<batch, base, integrating>>, tip'[Caller] = tip[Caller],
         log'[Caller] = log[Caller],
         \A c \in Children : base[c] = None => tip'[c] = tip[c]
  PROVE  History' = History
<1>1. ASSUME NEW t \in Tips PROVE t \in History' <=> t \in History
  BY DEF History
<1>2. History \subseteq Tips /\ History' \subseteq Tips
  BY DEF History, Tips
<1> QED BY <1>1, <1>2

\* The steps that leave branches, events and integrations alone.
LEMMA QuietStep ==
  ASSUME IInv, Owners, Whole', First' => First,
         UNCHANGED <<log, base, tip, head, outcome, integrating, integrated, at, batch>>,
         owned' = owned \/ (at.step = "no" /\ owned \subseteq owned'),
         \A c \in Children : live'[c] = "branched" => live[c] = "branched" \/ outcome[c] = "none",
         body' \in {"working", "failing"} => body \in {"working", "failing"}
  PROVE  Owners'
<1>1. Own'
  BY OwnKept DEF Owners
<1> SUFFICES ASSUME First' PROVE (Unknown /\ Adds /\ Claimed /\ \A t \in History : Fine(Givers, t))'
  BY <1>1 DEF Owners
<1>2. First /\ Unknown /\ Adds /\ Claimed
  BY DEF Owners
<1>3. Known' = Known /\ Unknown'
  BY <1>2 DEF Known, Unknown
<1>g. Givers' = Givers
  BY <1>3, GiversKept
<1>4. Adds'
  BY <1>2, AddsKept
<1>5. Claimed'
  <2>1. CASE owned' = owned
    BY <1>2, <2>1, ClaimedKept
  <2>2. CASE at.step = "no" /\ owned \subseteq owned'
    <3>1. \A c \in By(tip[Caller])' : c \in By(tip[Caller])
      BY DEF By
    <3> QED BY <1>2, <2>2, <3>1 DEF Claimed
  <2> QED BY <2>1, <2>2
<1>6. History' = History
  BY HistoryKept
<1>7. (\A t \in History : Fine(Givers, t))'
  BY <1>2, <1>g, <1>6, HistoryStays
<1> QED BY <1>3, <1>4, <1>5, <1>7

LEMMA QuietSteps ==
  ASSUME IInv, Owners, [Next]_vars,
         \/ UNCHANGED vars \/ ReplayCall \/ EndFailing \/ Return \/ Restart \/ Relaunch
         \/ \E f \in Frames : ParkRun(f)
         \/ \E c \in Children : \/ RejectBranch(c) \/ BlockChild(c) \/ UnwindChild(c)
                                \/ FinishFailed(c) \/ FinishIntegrated(c) \/ Reopen(c)
  PROVE  Owners'
<1>1. Whole' /\ (First' => First)
  BY FirstStays DEF Owners
<1>2. CASE UNCHANGED vars \/ ReplayCall \/ EndFailing \/ Return
  <2>1. /\ UNCHANGED <<log, base, tip, head, outcome, integrating, integrated, at, batch>>
        /\ UNCHANGED <<owned, live>>
        /\ body' \in {"working", "failing"} => body \in {"working", "failing"}
    BY <1>2 DEF vars, ReplayCall, EndFailing, Return, durable, git, memory
  <2> QED BY <1>1, <2>1, QuietStep
<1>3. CASE Restart \/ Relaunch \/ \E f \in Frames : ParkRun(f)
  <2>1. /\ UNCHANGED <<log, base, tip, head, outcome, integrating, integrated, at, batch>>
        /\ UNCHANGED <<owned, body>>
    BY <1>3 DEF Restart, Relaunch, ParkRun, durable, git, memory
  <2>2. \A c \in Children : live'[c] = "branched" => live[c] = "branched"
    <3>1. live \in [Frames -> {"no", "branched", "running"}]
      BY DEF IInv, TypeOK
    <3>2. \/ live' = live \/ live' = [f \in Frames |-> "no"]
          \/ live' = [live EXCEPT ![Caller] = "running"]
      BY <1>3 DEF Restart, Relaunch, ParkRun, memory
    <3> QED BY <3>1, <3>2, ChildrenAreFrames
  <2> QED BY <1>1, <2>1, <2>2, QuietStep
<1>4. ASSUME NEW c \in Children,
             \/ RejectBranch(c) \/ BlockChild(c) \/ UnwindChild(c)
             \/ FinishFailed(c) \/ FinishIntegrated(c)
      PROVE  Owners'
  <2>1. UNCHANGED <<log, base, tip, head, outcome, integrating, integrated, at, batch>>
    BY <1>4 DEF RejectBranch, BlockChild, UnwindChild, FinishFailed, FinishIntegrated,
       durable, git
  <2>2. owned' = owned \/ (at.step = "no" /\ owned \subseteq owned')
    BY <1>4 DEF RejectBranch, BlockChild, UnwindChild, FinishFailed, FinishIntegrated,
       Finishes, Idle
  <2>3. \A d \in Children : live'[d] = "branched" => live[d] = "branched"
    <3>1. live \in [Frames -> {"no", "branched", "running"}]
      BY DEF IInv, TypeOK
    <3>2. live' = live \/ live' = [live EXCEPT ![c] = "no"]
      BY <1>4 DEF RejectBranch, BlockChild, UnwindChild, FinishFailed, FinishIntegrated
    <3> QED BY <3>1, <3>2, ChildrenAreFrames
  <2>4. body \in {"working", "failing"}
    <3>1. CASE UnwindChild(c)
      <4>1. up /\ live[c] # "no"
        BY <3>1 DEF UnwindChild
      <4> QED BY <4>1 DEF IInv, Running
    <3>2. CASE ~UnwindChild(c)
      BY <1>4, <3>2 DEF RejectBranch, BlockChild, FinishFailed, FinishIntegrated,
         Finishes, Turn
    <3> QED BY <3>1, <3>2
  <2> QED BY <1>1, <2>1, <2>2, <2>3, <2>4, QuietStep
<1>5. ASSUME NEW c \in Children, Reopen(c) PROVE Owners'
  <2>1. /\ UNCHANGED <<log, base, tip, head, outcome, integrating, integrated, at, batch>>
        /\ UNCHANGED <<owned, body>> /\ live' = [live EXCEPT ![c] = "branched"]
        /\ NeedsLaunch(c) /\ UNCHANGED <<call, retries>>
    BY <1>5 DEF Reopen, durable, memory, bounds
  <2>2. live \in [Frames -> {"no", "branched", "running"}] /\ c \in Frames
    BY ChildrenAreFrames DEF IInv, TypeOK
  <2>3. \A d \in Children : live'[d] = "branched" => live[d] = "branched" \/ d = c
    BY <2>1, <2>2
  <2>4. First => outcome[c] = "none"
    BY <2>1 DEF NeedsLaunch, First, Owners, Whole
  <2>5. CASE First
    BY <1>1, <2>1, <2>3, <2>4, <2>5, QuietStep
  <2>6. CASE ~First
    <3>1. Own'
      BY <2>1, OwnKept DEF Owners
    <3> QED BY <1>1, <2>6, <3>1 DEF Owners
  <2> QED BY <2>5, <2>6
<1> QED BY <1>2, <1>3, <1>4, <1>5

\* An event is the only new one.
LEMMA NotedEntries ==
  ASSUME NEW l \in Seq(Entries), NEW e \in Entries, NEW m, m = Append(l, e)
  PROVE  /\ Len(l) \in Nat /\ Len(m) = Len(l) + 1
         /\ \A i \in 1..Len(m) : \/ i \in 1..Len(l) /\ m[i] = l[i]
                                 \/ i = Len(m) /\ m[i] = e
<1>1. /\ Len(l) \in Nat /\ Len(m) = Len(l) + 1 /\ m[Len(l) + 1] = e
      /\ \A i \in 1..Len(l) : m[i] = l[i]
  BY AppendProperties, LenProperties
<1>2. \A i \in 1..Len(m) : i \in 1..Len(l) \/ i = Len(m)
  BY <1>1
<1>3. m[Len(m)] = e
  BY <1>1
<1>4. ASSUME NEW i \in 1..Len(m)
      PROVE  \/ i \in 1..Len(l) /\ m[i] = l[i]
             \/ i = Len(m) /\ m[i] = e
  <2>1. CASE i \in 1..Len(l)
    BY <1>1, <2>1
  <2>2. CASE i = Len(m)
    BY <1>3, <2>2
  <2> QED BY <1>2, <2>1, <2>2
<1> QED BY <1>1, <1>4

\* The engine forgets its dispatch, and begins one.
LEMMA CrashOwners ==
  ASSUME IInv, Owners, [Next]_vars, Crash
  PROVE  Owners'
<1>1. Whole' /\ (First' => First)
  BY FirstStays DEF Owners
<1>2. /\ UNCHANGED <<log, base, tip, head, outcome, integrating, integrated>>
      /\ batch' = None /\ body' = "no" /\ at'.step = "no"
      /\ \A c \in Children : live'[c] # "branched"
  BY ChildrenAreFrames DEF Crash, durable, git, Idle
<1>3. Own'
  BY <1>2, OwnKept DEF Owners
<1> SUFFICES ASSUME First' PROVE (Unknown /\ Adds /\ Claimed /\ \A t \in History : Fine(Givers, t))'
  BY <1>1, <1>3 DEF Owners
<1>4. First /\ Unknown /\ Adds
  BY <1>1 DEF Owners
<1>5. Known' = Known /\ Unknown'
  BY <1>2, <1>4 DEF Known, Unknown
<1>g. Givers' = Givers
  BY <1>5, <1>2, GiversKept
<1>6. Adds' /\ Claimed'
  BY <1>2, <1>4, AddsKept DEF Claimed
<1>7. ASSUME NEW t \in History' PROVE t \in History
  <2>1. t \in Tips /\ t # None
    BY EmptyTip DEF History
  <2> QED BY <1>2, <2>1 DEF History
<1>8. (\A t \in History : Fine(Givers, t))'
  BY <1>4, <1>g, <1>7, HistoryStays
<1> QED BY <1>5, <1>6, <1>8

LEMMA EnterOwners ==
  ASSUME IInv, Owners, [Next]_vars, EnterBody
  PROVE  Owners'
<1>1. Whole' /\ (First' => First)
  BY FirstStays DEF Owners
<1>2. /\ UNCHANGED <<log, base, tip, head, outcome, integrating, integrated, at, live, call>>
      /\ batch' = tip[Caller] /\ body = "entered"
      /\ owned' = IF call.parallel THEN Claims ELSE {}
  BY DEF EnterBody, durable, git
<1>3. Own'
  BY <1>2, OwnKept DEF Owners
<1> SUFFICES ASSUME First' PROVE (Unknown /\ Adds /\ Claimed /\ \A t \in History : Fine(Givers, t))'
  BY <1>1, <1>3 DEF Owners
<1>4. First /\ Unknown /\ Adds /\ \A t \in History : Fine(Givers, t)
  BY <1>1 DEF Owners
<1>5. Known' = Known /\ Unknown'
  BY <1>2, <1>4 DEF Known, Unknown
<1>g. Givers' = Givers
  BY <1>5, <1>2, GiversKept
<1>6. Adds'
  BY <1>2, <1>4, AddsKept
<1>7. tip[Caller] \in History
  BY CallerTip DEF History
<1>8. Claimed'
  <2>1. owned' = Claims
    BY <1>2, <1>4 DEF First, Owners, Whole, NoCall
  <2>2. ASSUME NEW c \in By(tip[Caller]) PROVE Paths[c] \subseteq Claims
    <3>1. c \in Givers
      BY <1>4, <1>7 DEF Fine
    <3>2. SourcePaths(c) = Paths[c]
      BY <3>1 DEF Givers, SourcePaths
    <3> QED BY <3>1, <3>2 DEF Claims, Givers, Known
  <2>3. By(tip[Caller])' = By(tip[Caller])
    BY <1>2 DEF By
  <2>4. at'.step = "no"
    BY <1>2 DEF IInv, Running
  <2> QED BY <2>1, <2>2, <2>3, <2>4 DEF Claimed
<1>9. ASSUME NEW t \in History' PROVE t \in History
  BY <1>2, <1>7 DEF History
<1>10. (\A t \in History : Fine(Givers, t))'
  BY <1>4, <1>g, <1>9, HistoryStays
<1> QED BY <1>5, <1>6, <1>8, <1>10

\* A call names the tip that the caller has.
LEMMA CallOwners ==
  ASSUME IInv, Owners, [Next]_vars,
         \/ Observe \/ (\E parallel \in BOOLEAN : CallDispatch(parallel))
         \/ (\E c \in Children : CallRetry(c))
  PROVE  Owners'
<1>1. Whole' /\ (First' => First)
  BY FirstStays DEF Owners
<1>2. /\ UNCHANGED <<base, tip, head, outcome, integrating, integrated, at, live, batch>>
      /\ Note(Caller, Called(tip[Caller])) /\ body = "no" /\ body' \in {"no", "entered"}
  BY DEF Observe, CallDispatch, CallRetry, MayCall, git, memory
<1>3. /\ log'[Caller] = Append(log[Caller], Called(tip[Caller]))
      /\ \A c \in Children : log'[c] = log[c]
  BY <1>2, CallerTip, EntryTypes, NoteFacts, ChildrenAreFrames DEF IInv
<1>4. Own'
  BY <1>2, <1>3, OwnKept DEF Owners
<1> SUFFICES ASSUME First' PROVE (Unknown /\ Adds /\ Claimed /\ \A t \in History : Fine(Givers, t))'
  BY <1>1, <1>4 DEF Owners
<1>5. First /\ Unknown /\ Adds
  BY <1>1 DEF Owners
<1>6. Known' = Known /\ Unknown'
  BY <1>2, <1>5 DEF Known, Unknown
<1>g. Givers' = Givers
  BY <1>6, <1>2, GiversKept
<1>7. Adds'
  BY <1>2, <1>5, AddsKept
<1>8. Claimed'
  <2>1. at'.step = "no"
    BY <1>2 DEF IInv, Running
  <2> QED BY <1>2, <2>1 DEF Claimed
<1>9. ASSUME NEW t \in History' PROVE t \in History \/ t = <<>>
  <2>1. log[Caller] \in Seq(Entries) /\ tip[Caller] \in History
    BY CallerTip, ChildrenAreFrames DEF History, IInv, TypeOK, Entries
  <2>2. \A i \in 1..Len(log'[Caller]) :
          \/ i \in 1..Len(log[Caller]) /\ log'[Caller][i] = log[Caller][i]
          \/ log'[Caller][i] = Called(tip[Caller])
    BY <1>3, <2>1, NotedEntries, CallerTip, EntryTypes
  <2>3. \A i \in 1..Len(log'[Caller]) :
          \/ i \in 1..Len(log[Caller]) /\ log'[Caller][i] = log[Caller][i]
          \/ log'[Caller][i].tip = tip[Caller] /\ log'[Caller][i].base = <<>>
    BY <2>2 DEF Called
  <2> QED BY <1>2, <2>1, <2>3 DEF History
<1>10. Fine(Givers', <<>>)
  BY ByEmpty DEF Fine
<1>11. (\A t \in History : Fine(Givers, t))'
  BY <1>5, <1>g, <1>9, <1>10, HistoryStays
<1> QED BY <1>6, <1>7, <1>8, <1>11

\* Commits of the caller own nothing, those of a child stay on its branch.
LEMMA CommitOwners ==
  ASSUME IInv, Owners, [Next]_vars, NEW f \in Frames, WorkerCommits(f)
  PROVE  Owners'
<1>1. Whole' /\ (First' => First)
  BY FirstStays DEF Owners
<1>2. /\ UNCHANGED <<log, base, head, outcome, integrating, integrated, at, live, batch>>
      /\ UNCHANGED <<owned, body>> /\ live[f] = "running" /\ (f = Caller => body = "no")
      /\ tip' = [tip EXCEPT ![f] = Append(tip[f], <<f, made[f]>>)]
  BY DEF WorkerCommits, durable, memory
<1>3. /\ base[f] # None /\ tip[f] \in Tips /\ made[f] \in Nat
      /\ tip'[f] = Append(tip[f], <<f, made[f]>>)
      /\ \A g \in Frames \ {f} : tip'[g] = tip[g]
  <2>1. base[f] # None /\ tip[f] # None
    BY <1>2 DEF IInv, Based
  <2>2. tip \in [Frames -> Tips \cup {None}] /\ made[f] \in Nat
    BY DEF IInv, TypeOK
  <2> QED BY <1>2, <2>1, <2>2
<1>4. /\ By(tip'[f]) \subseteq By(tip[f]) \cup {f} /\ tip'[f] \in Tips
      /\ \A b : GrownBy(f, b, tip[f]) => GrownBy(f, b, tip'[f])
  BY <1>3, ByAppend, PrefixAppend
<1>5. CASE f # Caller
  <2>1. f \in Children /\ tip'[Caller] = tip[Caller]
    BY <1>3, <1>5, ChildrenAreFrames
  <2>2. Own'
    <3> SUFFICES ASSUME NEW c \in Children
                 PROVE  /\ base[c] # None => GrownBy(c, base[c], tip'[c])
                        /\ outcome[c] # "none" => GrownBy(c, base[c], head[c])
                        /\ \A i \in 1..Len(log[c]) :
                             /\ base[c] # None
                             /\ GrownBy(c, base[c], log[c][i].tip)
                             /\ GrownBy(c, base[c], log[c][i].base)
      BY <1>2 DEF Own, GrownBy
    <3>1. Own /\ c \in Frames
      BY ChildrenAreFrames DEF Owners
    <3>2. base[c] # None => GrownBy(c, base[c], tip'[c])
      <4>1. CASE c = f
        BY <1>4, <3>1, <4>1 DEF Own
      <4>2. CASE c # f
        BY <1>3, <3>1, <4>2 DEF Own
      <4> QED BY <4>1, <4>2
    <3> QED BY <3>1, <3>2 DEF Own
  <2> SUFFICES ASSUME First' PROVE (Unknown /\ Adds /\ Claimed /\ \A t \in History : Fine(Givers, t))'
    BY <1>1, <2>2 DEF Owners
  <2>3. First /\ Unknown /\ Adds /\ Claimed
    BY <1>1 DEF Owners
  <2>4. Known' = Known /\ Unknown'
    BY <1>2, <2>3 DEF Known, Unknown
  <2>g. Givers' = Givers
    BY <2>4, <1>2, GiversKept
  <2>5. Adds' /\ Claimed'
    BY <1>2, <2>1, <2>3, AddsKept, ClaimedKept
  <2>6. History' = History
    BY <1>2, <1>3, <2>1, HistoryKept, ChildrenAreFrames
  <2>7. (\A t \in History : Fine(Givers, t))'
    BY <2>3, <2>g, <2>6, HistoryStays
  <2> QED BY <2>4, <2>5, <2>7
<1>6. CASE f = Caller
  <2>1. /\ \A c \in Children : tip'[c] = tip[c]
        /\ body' = "no" /\ at'.step = "no"
    BY <1>2, <1>3, <1>6, ChildrenAreFrames DEF IInv, Running
  <2>2. Own'
    BY <1>2, <2>1, OwnKept DEF Owners
  <2> SUFFICES ASSUME First' PROVE (Unknown /\ Adds /\ Claimed /\ \A t \in History : Fine(Givers, t))'
    BY <1>1, <2>2 DEF Owners
  <2>3. First /\ Unknown /\ Adds /\ \A t \in History : Fine(Givers, t)
    BY <1>1 DEF Owners
  <2>4. Known' = Known /\ Unknown'
    BY <1>2, <2>3 DEF Known, Unknown
  <2>g. Givers' = Givers
    BY <2>4, <1>2, GiversKept
  <2>5. Adds' /\ Claimed'
    BY <1>2, <2>1, <2>3, AddsKept DEF Claimed
  <2>6. Fine(Givers', tip'[Caller])
    <3>1. Fine(Givers, tip[Caller])
      BY <2>3, CallerTip DEF History
    <3>2. By(tip'[Caller]) \subseteq By(tip[Caller])
      BY <1>4, <1>6, ChildrenAreFrames DEF By
    <3> QED BY <2>g, <3>1, <3>2 DEF Fine
  <2>7. ASSUME NEW t \in History' PROVE t \in History \/ t = tip'[Caller]
    BY <1>2, <2>1 DEF History
  <2>8. (\A t \in History : Fine(Givers, t))'
    BY <2>3, <2>g, <2>6, <2>7, HistoryStays
  <2> QED BY <2>4, <2>5, <2>8
<1> QED BY <1>5, <1>6

\* An operator goes back to a tip that the journal names.
LEMMA ResetOwners ==
  ASSUME IInv, Owners, [Next]_vars, NEW f \in Frames, OperatorResets(f)
  PROVE  Owners'
<1>1. Whole' /\ (First' => First)
  BY FirstStays DEF Owners
<1>2. /\ UNCHANGED <<log, base, head, outcome, integrating, integrated, at, live, batch>>
      /\ UNCHANGED <<owned, body>> /\ ~up /\ blocked[f] # None
      /\ tip' = [tip EXCEPT ![f] = ExpectedTip(f)]
  BY DEF OperatorResets, durable, memory
<1>3. body' = "no" /\ at'.step = "no"
  BY <1>2 DEF IInv, Running
<1>4. base[f] # None /\ base[f] \in Tips
  BY <1>2 DEF IInv, Based, TypeOK
<1>5. /\ tip'[f] = ExpectedTip(f) /\ tip'[f] \in Tips
      /\ \A g \in Frames \ {f} : tip'[g] = tip[g]
  BY <1>2, <1>4, ExpectedTipTyped DEF IInv, TypeOK
<1>6. \/ tip'[f] = base[f]
      \/ \E i \in 1..Len(log[f]) : tip'[f] = log[f][i].tip \/ tip'[f] = log[f][i].base
  <2>1. ExpectedTip(f) \in Named(f) /\ DOMAIN log[f] = 1..Len(log[f])
    BY WalkIsNamed, LogTypes DEF IInv
  <2> QED BY <1>5, <2>1 DEF Named, ToSet
<1>7. CASE f # Caller
  <2>1. f \in Children /\ tip'[Caller] = tip[Caller]
    BY <1>5, <1>7, ChildrenAreFrames
  <2>2. GrownBy(f, base[f], tip'[f])
    <3>1. CASE tip'[f] = base[f]
      <4>1. Len(base[f]) \in Nat
        BY <1>4, LenProperties DEF Tips
      <4> QED BY <3>1, <4>1 DEF GrownBy
    <3>2. CASE tip'[f] # base[f]
      <4>1. PICK i \in 1..Len(log[f]) : tip'[f] = log[f][i].tip \/ tip'[f] = log[f][i].base
        BY <1>6, <3>2
      <4> QED BY <2>1, <4>1 DEF Owners, Own
    <3> QED BY <3>1, <3>2
  <2>3. Own'
    <3> SUFFICES ASSUME NEW c \in Children
                 PROVE  /\ base[c] # None => GrownBy(c, base[c], tip'[c])
                        /\ outcome[c] # "none" => GrownBy(c, base[c], head[c])
                        /\ \A i \in 1..Len(log[c]) :
                             /\ base[c] # None
                             /\ GrownBy(c, base[c], log[c][i].tip)
                             /\ GrownBy(c, base[c], log[c][i].base)
      BY <1>2 DEF Own, GrownBy
    <3>1. Own /\ c \in Frames
      BY ChildrenAreFrames DEF Owners
    <3>2. base[c] # None => GrownBy(c, base[c], tip'[c])
      <4>1. CASE c = f
        BY <2>2, <4>1
      <4>2. CASE c # f
        BY <1>5, <3>1, <4>2 DEF Own
      <4> QED BY <4>1, <4>2
    <3> QED BY <3>1, <3>2 DEF Own
  <2> SUFFICES ASSUME First' PROVE (Unknown /\ Adds /\ Claimed /\ \A t \in History : Fine(Givers, t))'
    BY <1>1, <2>3 DEF Owners
  <2>4. First /\ Unknown /\ Adds
    BY <1>1 DEF Owners
  <2>5. Known' = Known /\ Unknown'
    BY <1>2, <2>4 DEF Known, Unknown
  <2>g. Givers' = Givers
    BY <2>5, <1>2, GiversKept
  <2>6. Adds' /\ Claimed'
    BY <1>2, <1>3, <2>4, AddsKept DEF Claimed
  <2>7. History' = History
    BY <1>2, <1>4, <1>5, <2>1, HistoryKept, ChildrenAreFrames
  <2>8. (\A t \in History : Fine(Givers, t))'
    BY <2>4, <2>g, <2>7, HistoryStays
  <2> QED BY <2>5, <2>6, <2>8
<1>8. CASE f = Caller
  <2>1. \A c \in Children : tip'[c] = tip[c]
    BY <1>5, <1>8, ChildrenAreFrames
  <2>2. Own'
    BY <1>2, <2>1, OwnKept DEF Owners
  <2> SUFFICES ASSUME First' PROVE (Unknown /\ Adds /\ Claimed /\ \A t \in History : Fine(Givers, t))'
    BY <1>1, <2>2 DEF Owners
  <2>3. First /\ Unknown /\ Adds /\ \A t \in History : Fine(Givers, t)
    BY <1>1 DEF Owners
  <2>4. Known' = Known /\ Unknown'
    BY <1>2, <2>3 DEF Known, Unknown
  <2>g. Givers' = Givers
    BY <2>4, <1>2, GiversKept
  <2>5. Adds' /\ Claimed'
    BY <1>2, <1>3, <2>3, AddsKept DEF Claimed
  <2>6. Fine(Givers', tip'[Caller])
    <3>1. CASE tip'[f] = base[f]
      <4>1. tip'[Caller] = <<>>
        BY <1>8, <3>1 DEF IInv, Based
      <4> QED BY <4>1, ByEmpty DEF Fine
    <3>2. CASE tip'[f] # base[f]
      <4>1. tip'[Caller] \in History
        BY <1>5, <1>6, <1>8, <3>2 DEF History
      <4> QED BY <2>3, <2>g, <4>1
    <3> QED BY <3>1, <3>2
  <2>7. ASSUME NEW t \in History' PROVE t \in History \/ t = tip'[Caller]
    BY <1>2, <2>1 DEF History
  <2>8. (\A t \in History : Fine(Givers, t))'
    BY <2>3, <2>g, <2>6, <2>7, HistoryStays
  <2> QED BY <2>4, <2>5, <2>8
<1> QED BY <1>7, <1>8

\* A branch begins where the caller is, or was when its tasks began.
LEMMA BranchOwners ==
  ASSUME IInv, Owners, [Next]_vars, NEW c \in Children, Branch(c)
  PROVE  Owners'
<1>1. Whole' /\ (First' => First)
  BY FirstStays DEF Owners
<1>2. /\ UNCHANGED <<log, base, head, outcome, integrating, integrated, at, batch>>
      /\ UNCHANGED <<owned, body>>
      /\ tip' = [tip EXCEPT ![c] = IF call.parallel THEN batch ELSE tip[Caller]]
      /\ live' = [live EXCEPT ![c] = "branched"]
      /\ NeedsLaunch(c) /\ base[c] = None /\ body \in {"working", "failing"}
  BY DEF Branch, Turn, durable
<1>3. /\ tip'[c] = IF call.parallel THEN batch ELSE tip[Caller]
      /\ \A g \in Frames \ {c} : tip'[g] = tip[g] /\ live'[g] = live[g]
  BY <1>2, ChildrenAreFrames DEF IInv, TypeOK
<1>4. tip'[Caller] = tip[Caller] /\ \A d \in Children \ {c} : tip'[d] = tip[d] /\ live'[d] = live[d]
  BY <1>3, ChildrenAreFrames
<1>5. Own'
  <2>1. \A d \in Children : base[d] # None => tip'[d] = tip[d]
    BY <1>2, <1>4
  <2> QED BY <1>2, <2>1, OwnKept DEF Owners
<1> SUFFICES ASSUME First' PROVE (Unknown /\ Adds /\ Claimed /\ \A t \in History : Fine(Givers, t))'
  BY <1>1, <1>5 DEF Owners
<1>6. First /\ Unknown /\ Adds /\ Claimed
  BY <1>1 DEF Owners
<1>7. Known' = Known
  BY <1>2 DEF Known
<1>g. Givers' = Givers
  BY <1>7, <1>2, GiversKept
<1>8. Unknown'
  <2>1. outcome[c] = "none"
    BY <1>2, <1>6 DEF NeedsLaunch, First, Owners, Whole
  <2> QED BY <1>2, <1>4, <1>6, <1>7, <2>1 DEF Unknown
<1>9. Adds' /\ Claimed'
  BY <1>2, <1>4, <1>6, AddsKept, ClaimedKept
<1>10. tip'[c] \in History
  <2>1. batch \in Tips
    BY <1>2 DEF IInv, Running, TypeOK
  <2> QED BY <1>3, <2>1, CallerTip DEF History
<1>11. ASSUME NEW t \in History' PROVE t \in History
  BY <1>2, <1>4, <1>10 DEF History
<1>12. (\A t \in History : Fine(Givers, t))'
  BY <1>6, <1>g, <1>11, HistoryStays
<1> QED BY <1>8, <1>9, <1>12

\* The base of a first attempt is where its branch began.
LEMMA PushOwners ==
  ASSUME IInv, Owners, [Next]_vars, NEW c \in Children, Push(c)
  PROVE  Owners'
<1>1. Whole' /\ (First' => First)
  BY FirstStays DEF Owners
<1>2. /\ live[c] = "branched" /\ live' = [live EXCEPT ![c] = "running"]
      /\ base' = [base EXCEPT ![c] = IF base[c] = None THEN tip[c] ELSE base[c]]
      /\ outcome' = [outcome EXCEPT ![c] = "none"]
      /\ head' = [head EXCEPT ![c] = None]
      /\ integrating' = [integrating EXCEPT ![c] = None]
      /\ integrated' = [integrated EXCEPT ![c] = None]
      /\ UNCHANGED <<log, tip, body, batch, owned, at>>
  BY DEF Push, git
<1>3. c \in Frames /\ c # Caller /\ tip[c] \in Tips
  <2>1. c \in Frames /\ c # Caller
    BY ChildrenAreFrames
  <2> QED BY <1>2, <2>1 DEF IInv, Based, TypeOK
<1>4. /\ base'[c] = (IF base[c] = None THEN tip[c] ELSE base[c])
      /\ live'[c] = "running" /\ outcome'[c] = "none"
      /\ integrating'[c] = None /\ integrated'[c] = None
  BY <1>2, <1>3 DEF IInv, TypeOK
<1>5. \A d \in Children \ {c} :
        /\ base'[d] = base[d] /\ live'[d] = live[d] /\ outcome'[d] = outcome[d]
        /\ head'[d] = head[d]
        /\ integrating'[d] = integrating[d] /\ integrated'[d] = integrated[d]
  BY <1>2, <1>3, ChildrenAreFrames DEF IInv, TypeOK
<1>6. Own'
  <2> SUFFICES ASSUME NEW d \in Children
               PROVE  /\ base'[d] # None => GrownBy(d, base'[d], tip'[d])
                      /\ outcome'[d] # "none" => GrownBy(d, base'[d], head'[d])
                      /\ \A i \in 1..Len(log'[d]) :
                           /\ base'[d] # None
                           /\ GrownBy(d, base'[d], log'[d][i].tip)
                           /\ GrownBy(d, base'[d], log'[d][i].base)
    BY Zenon DEF Own, GrownBy
  <2> log' = log /\ tip' = tip
    BY <1>2
  <2>1. Own
    BY DEF Owners
  <2>2. CASE d # c
    BY <1>5, <2>1, <2>2 DEF Own
  <2>3. CASE d = c /\ base[c] # None
    BY <1>4, <2>1, <2>3 DEF Own
  <2>4. CASE d = c /\ base[c] = None
    <3>1. base'[c] = tip[c] /\ Len(tip[c]) \in Nat
      BY <1>3, <1>4, <2>4, LenProperties DEF Tips
    <3>2. GrownBy(c, base'[c], tip[c])
      BY <3>1 DEF GrownBy
    <3>3. \A i \in 1..Len(log[c]) : FALSE
      BY <2>1, <2>4 DEF Own
    <3> QED BY <1>4, <2>4, <3>2, <3>3
  <2> QED BY <2>2, <2>3, <2>4
<1> SUFFICES ASSUME First' PROVE (Unknown /\ Adds /\ Claimed /\ \A t \in History : Fine(Givers, t))'
  BY <1>1, <1>6 DEF Owners
<1>7. First /\ Unknown /\ Adds /\ Claimed
  BY <1>1 DEF Owners
<1>8. Known' = Known
  <2>1. c \notin Known /\ c \notin Known'
    BY <1>2, <1>4, <1>7 DEF Unknown, Known
  <2>2. \A d \in Children \ {c} : d \in Known' <=> d \in Known
    BY <1>5 DEF Known
  <2>3. Known \subseteq Children /\ Known' \subseteq Children
    BY DEF Known
  <2> QED BY <2>1, <2>2, <2>3
<1>g. Givers' = Givers
  <2>1. c \notin Known
    BY <1>2, <1>7 DEF Unknown
  <2>2. \A d \in Known : base'[d] = base[d] /\ head'[d] = head[d]
    BY <1>2, <1>5, <2>1 DEF Known
  <2> QED BY <1>8, <2>2, GiversKept
<1>9. Unknown'
  <2>1. c \notin Known
    BY <1>2, <1>7 DEF Unknown
  <2> QED BY <1>4, <1>5, <1>7, <1>8, <2>1 DEF Unknown
<1>10. Adds'
  BY <1>4, <1>5, <1>7, AddsKept
<1>11. Claimed'
  <2>1. at.step # "no" => at.child \in Children \ {c}
    BY <1>2, IntegrationFacts
  <2> QED BY <1>2, <1>5, <1>7, <2>1, ClaimedKept
<1>12. ASSUME NEW t \in History' PROVE t \in History
  <2>1. CASE \/ t = tip[Caller] \/ t = batch
             \/ \E i \in 1..Len(log[Caller]) : t = log[Caller][i].tip \/ t = log[Caller][i].base
    BY <2>1 DEF History
  <2>2. ASSUME NEW d \in Children,
               \/ t = base'[d]
               \/ base'[d] = None /\ t = tip[d]
               \/ integrating'[d] # None /\ (t = integrating'[d].base \/ t = integrating'[d].cand)
        PROVE  t \in History
    <3>1. t \in Tips
      BY DEF History
    <3>2. CASE d # c
      BY <1>5, <2>2, <3>1, <3>2 DEF History
    <3>3. CASE d = c
      <4>1. (t = tip[c] /\ base[c] = None) \/ t = base[c]
        BY <1>3, <1>4, <2>2, <3>3, EmptyTip
      <4> QED BY <3>1, <4>1 DEF History
    <3> QED BY <3>2, <3>3
  <2> QED BY <1>2, <2>1, <2>2 DEF History
<1>13. (\A t \in History : Fine(Givers, t))'
  BY <1>7, <1>g, <1>12, HistoryStays
<1> QED BY <1>9, <1>10, <1>11, <1>13

\* The head of an exit is the tip of the branch.
LEMMA ExitOwners ==
  ASSUME IInv, Owners, [Next]_vars, NEW c \in Children, NEW o \in {"ok", "failed"},
         ExitChild(c, o)
  PROVE  Owners'
<1>1. Whole' /\ (First' => First)
  BY FirstStays DEF Owners
<1>2. /\ live[c] = "running" /\ live' = [live EXCEPT ![c] = "no"]
      /\ outcome' = [outcome EXCEPT ![c] = o] /\ head' = [head EXCEPT ![c] = tip[c]]
      /\ Note(c, Exited(tip[c]))
      /\ UNCHANGED <<base, integrating, integrated, tip, body, batch, owned, at>>
  BY DEF ExitChild, git
<1>3. c \in Frames /\ c # Caller /\ base[c] # None /\ tip[c] \in Tips /\ integrating[c] = None
  <2>1. c \in Frames /\ c # Caller
    BY ChildrenAreFrames
  <2>2. integrating[c] = None
    BY <1>2 DEF IInv, Exits
  <2> QED BY <1>2, <2>1, <2>2 DEF IInv, Based, TypeOK
<1>4. live'[c] = "no" /\ outcome'[c] = o /\ head'[c] = tip[c]
  BY <1>2, <1>3 DEF IInv, TypeOK
<1>5. \A d \in Children \ {c} :
        live'[d] = live[d] /\ outcome'[d] = outcome[d] /\ head'[d] = head[d]
  BY <1>2, <1>3, ChildrenAreFrames DEF IInv, TypeOK
<1>6. /\ log'[c] = Append(log[c], Exited(tip[c])) /\ log'[Caller] = log[Caller]
      /\ \A d \in Children \ {c} : log'[d] = log[d]
      /\ log[c] \in Seq(Entries) /\ Exited(tip[c]) \in Entries
  <2>1. Exited(tip[c]) \in Entries
    BY <1>3, EntryTypes
  <2>2. log[c] \in Seq(Entries)
    BY <1>3 DEF IInv, TypeOK, Entries
  <2> QED BY <1>2, <1>3, <2>1, <2>2, NoteFacts, ChildrenAreFrames DEF IInv
<1>7. Own'
  <2>1. Own
    BY DEF Owners
  <2>2. ASSUME NEW i \in 1..Len(log'[c])
        PROVE  GrownBy(c, base[c], log'[c][i].tip) /\ GrownBy(c, base[c], log'[c][i].base)
    <3>1. \/ i \in 1..Len(log[c]) /\ log'[c][i] = log[c][i]
          \/ log'[c][i] = Exited(tip[c])
      BY <1>6, NotedEntries
    <3>2. CASE i \in 1..Len(log[c]) /\ log'[c][i] = log[c][i]
      BY <2>1, <3>2 DEF Own
    <3>3. CASE log'[c][i] = Exited(tip[c])
      <4>1. log'[c][i].tip = tip[c] /\ log'[c][i].base = <<>>
        BY <3>3 DEF Exited
      <4>2. GrownBy(c, base[c], tip[c])
        BY <1>3, <2>1 DEF Own
      <4>3. GrownBy(c, base[c], <<>>)
        BY DEF GrownBy
      <4> QED BY <4>1, <4>2, <4>3
    <3> QED BY <3>1, <3>2, <3>3
  <2> SUFFICES ASSUME NEW d \in Children
               PROVE  /\ base[d] # None => GrownBy(d, base[d], tip[d])
                      /\ outcome'[d] # "none" => GrownBy(d, base[d], head'[d])
                      /\ \A i \in 1..Len(log'[d]) :
                           /\ base[d] # None
                           /\ GrownBy(d, base[d], log'[d][i].tip)
                           /\ GrownBy(d, base[d], log'[d][i].base)
    <3>1. UNCHANGED <<base, tip>>
      BY <1>2
    <3> QED BY <3>1, Zenon DEF Own, GrownBy
  <2>3. CASE d # c
    BY <1>5, <1>6, <2>1, <2>3 DEF Own
  <2>4. CASE d = c
    BY <1>3, <1>4, <2>1, <2>2, <2>4 DEF Own
  <2> QED BY <2>3, <2>4
<1> SUFFICES ASSUME First' PROVE (Unknown /\ Adds /\ Claimed /\ \A t \in History : Fine(Givers, t))'
  BY <1>1, <1>7 DEF Owners
<1>8. First /\ Unknown /\ Adds /\ Claimed
  BY <1>1 DEF Owners
<1>9. Known' = Known
  BY <1>2 DEF Known
<1>g. Givers' = Givers
  <2>1. c \notin Known
    BY <1>2, <1>8 DEF IInv, Exits, Unknown
  <2>2. \A d \in Known : base'[d] = base[d] /\ head'[d] = head[d]
    BY <1>2, <1>5, <2>1 DEF Known
  <2> QED BY <1>9, <2>2, GiversKept
<1>10. Unknown'
  BY <1>4, <1>5, <1>8, <1>9 DEF Unknown
<1>11. Adds'
  BY <1>2, <1>3, <1>5, <1>8, AddsKept
<1>12. Claimed'
  <2>1. at.step # "no" => at.child \in Children \ {c}
    BY <1>2, IntegrationFacts
  <2> QED BY <1>2, <1>5, <1>8, <2>1, ClaimedKept
<1>13. History' = History
  BY <1>2, <1>6, HistoryKept
<1>14. (\A t \in History : Fine(Givers, t))'
  BY <1>8, <1>g, <1>13, HistoryStays
<1> QED BY <1>10, <1>11, <1>12, <1>14

\* The source of an exited child is its own work, and all that its head adds.
LEMMA SourceIsOwn ==
  ASSUME IInv, Own, at.step # "no"
  PROVE  /\ By(Source(at.child)) \subseteq {at.child}
         /\ By(head[at.child]) \subseteq By(base[at.child]) \cup By(Source(at.child))
<1> DEFINE c == at.child
<1>1. /\ c \in Children /\ outcome[c] = "ok" /\ head[c] \in Tips /\ base[c] \in Tips
      /\ IsPrefix(base[c], head[c])
  BY IntegrationFacts
<1>2. GrownBy(c, base[c], head[c])
  BY <1>1 DEF Own
<1> QED BY <1>1, <1>2, ByRest DEF Source

\* An integration takes an intent up, or keeps off the paths that are claimed.
LEMMA StartOwners ==
  ASSUME IInv, Owners, [Next]_vars, NEW c \in Children, StartIntegration(c)
  PROVE  Owners'
<1>1. Whole' /\ (First' => First)
  BY FirstStays DEF Owners
<1>2. /\ UNCHANGED <<log, base, tip, head, outcome, integrating, integrated, batch>>
      /\ UNCHANGED <<owned, body, live>> /\ at.step = "no" /\ body \in {"working", "failing"}
  BY DEF StartIntegration, Finishes, Turn, Idle, IntegrateStays, git
<1>3. /\ at'.child = c
      /\ \/ at'.step \in {"advance", "fail"}
         \/ /\ at'.step = "reapply" /\ at'.base = tip[Caller]
            /\ ~(call.parallel /\ SourcePaths(c) \cap owned # {})
  BY DEF StartIntegration
<1>4. Own'
  BY <1>2, OwnKept DEF Owners
<1> SUFFICES ASSUME First' PROVE (Unknown /\ Adds /\ Claimed /\ \A t \in History : Fine(Givers, t))'
  BY <1>1, <1>4 DEF Owners
<1>5. First /\ Unknown /\ Adds /\ Claimed
  BY <1>1 DEF Owners
<1>6. Known' = Known /\ Unknown'
  BY <1>2, <1>5 DEF Known, Unknown
<1>g. Givers' = Givers
  BY <1>6, <1>2, GiversKept
<1>7. Adds'
  BY <1>2, <1>5, AddsKept
<1>8. Claimed'
  <2>1. call.parallel
    BY <1>2, <1>5 DEF First, Owners, Whole, NoCall
  <2>2. SourcePaths(c)' = SourcePaths(c)
    BY <1>2 DEF SourcePaths, Source
  <2>3. By(tip[Caller])' = By(tip[Caller])
    BY <1>2 DEF By
  <2>4. \A d \in By(tip[Caller]) : Paths[d] \subseteq owned
    BY <1>2, <1>5 DEF Claimed
  <2> QED BY <1>2, <1>3, <2>1, <2>2, <2>3, <2>4 DEF Claimed
<1>9. History' = History
  BY <1>2, HistoryKept
<1>10. (\A t \in History : Fine(Givers, t))'
  BY <1>5, <1>g, <1>9, HistoryStays
<1> QED BY <1>6, <1>7, <1>8, <1>10

\* The candidate adds the source to the tip of the caller.
LEMMA ReapplyOwners ==
  ASSUME IInv, Owners, [Next]_vars, Reapply
  PROVE  Owners'
<1> DEFINE c == at.child
<1>1. Whole' /\ (First' => First)
  BY FirstStays DEF Owners
<1>2. /\ UNCHANGED <<log, base, tip, head, outcome, integrating, integrated, batch>>
      /\ UNCHANGED <<owned, body, live>> /\ at.step = "reapply"
  BY DEF Reapply, IntegrateStays
<1>3. /\ c \in Children /\ head[c] \in Tips /\ base[c] \in Tips
      /\ at.base \in Tips /\ Source(c) \in Tips
  BY <1>2, IntegrationFacts, SourceTyped
<1>4. Own'
  BY <1>2, OwnKept DEF Owners
<1>5. By(at.base \o Source(c)) \subseteq By(at.base) \cup By(Source(c))
  BY <1>3, ByConcat
<1>6. By(head[c]) \subseteq By(base[c]) \cup By(Source(c))
  BY <1>2, SourceIsOwn DEF Owners
<1>7. /\ at'.child = c /\ at'.base = at.base /\ at'.step \in {"intent", "fail"}
      /\ at'.step = "intent" => By(at'.cand) \subseteq By(at.base) \cup By(Source(c))
  <2>1. at \in [child : Frames, base : Tips, cand : Tips,
                step : {"no", "reapply", "intent", "advance", "landed", "receipt",
                        "pop", "fail"}]
    BY DEF IInv, TypeOK
  <2>2. CASE at.base = base[c] /\ at' = [at EXCEPT !.step = "intent", !.cand = head[c]]
    <3>1. at'.child = c /\ at'.base = at.base /\ at'.step = "intent" /\ at'.cand = head[c]
      BY <2>1, <2>2
    <3> QED BY <1>6, <2>2, <3>1
  <2>3. CASE at' = [at EXCEPT !.step = "intent", !.cand = at.base \o Source(c)]
    <3> DEFINE cand == at.base \o Source(c)
    <3>1. at' = [at EXCEPT !.step = "intent", !.cand = cand]
          /\ By(cand) \subseteq By(at.base) \cup By(Source(c))
      BY <1>5, <2>3
    <3> HIDE DEF cand
    <3>2. at'.child = c /\ at'.base = at.base /\ at'.step = "intent" /\ at'.cand = cand
      BY <2>1, <3>1
    <3> QED BY <3>1, <3>2
  <2>4. CASE at' = [at EXCEPT !.step = "fail"]
    BY <2>1, <2>4
  <2> QED BY <2>2, <2>3, <2>4 DEF Reapply, Goto
<1> SUFFICES ASSUME First' PROVE (Unknown /\ Adds /\ Claimed /\ \A t \in History : Fine(Givers, t))'
  BY <1>1, <1>4 DEF Owners
<1>8. First /\ Unknown /\ Adds /\ Claimed
  BY <1>1 DEF Owners
<1>9. Known' = Known /\ Unknown'
  BY <1>2, <1>8 DEF Known, Unknown
<1>g. Givers' = Givers
  BY <1>9, <1>2, GiversKept
<1>10. Adds'
  BY <1>2, <1>8, AddsKept
<1>11. Claimed'
  <2>1. Source(at.child)' = Source(c) /\ SourcePaths(at.child)' = SourcePaths(c)
    BY <1>2, <1>7 DEF SourcePaths, Source
  <2>2. at'.step = "intent" =>
          By(at.cand)' \subseteq By(at.base)' \cup By(Source(at.child))'
    <3>1. CASE at'.step = "fail"
      BY <3>1
    <3>2. CASE at'.step = "intent"
      <4>1. By(at'.cand) \subseteq By(at.base) \cup By(Source(c)) /\ at'.base = at.base
            /\ Source(at.child)' = Source(c)
        BY <1>7, <2>1, <3>2
      <4>2. By(at.cand)' = By(at'.cand) /\ By(at.base)' = By(at'.base)
            /\ By(Source(at.child))' = By(Source(at.child)')
        BY Zenon DEF By
      <4> QED BY <4>1, <4>2
    <3> QED BY <1>7, <3>1, <3>2
  <2>3. By(tip[Caller])' = By(tip[Caller])
    BY <1>2 DEF By
  <2>4. \A d \in By(tip[Caller]) : body \in {"working", "failing"} => Paths[d] \subseteq owned
    BY <1>2, <1>8 DEF Claimed
  <2>5. at'.base = tip'[Caller] /\ SourcePaths(at.child)' \cap owned' = {}
    BY <1>2, <1>7, <1>8, <2>1 DEF Claimed
  <2> QED BY <1>2, <1>7, <2>2, <2>3, <2>4, <2>5 DEF Claimed
<1>12. History' = History
  BY <1>2, HistoryKept
<1>13. (\A t \in History : Fine(Givers, t))'
  BY <1>8, <1>g, <1>12, HistoryStays
<1> QED BY <1>9, <1>10, <1>11, <1>13

\* An event of the caller that names b and t adds them to the history.
LEMMA NotedHistory ==
  ASSUME IInv, NEW e \in Entries, log'[Caller] = Append(log[Caller], e),
         UNCHANGED <<batch, base, tip>>,
         NEW t \in History',
         \A c \in Children : integrating'[c] # None /\ integrating'[c] # integrating[c] =>
           integrating'[c].base = e.base /\ integrating'[c].cand = e.tip
  PROVE  t \in History \/ t = e.base \/ t = e.tip
<1>1. log[Caller] \in Seq(Entries)
  BY ChildrenAreFrames DEF IInv, TypeOK, Entries
<1>2. \A i \in 1..Len(log'[Caller]) :
        \/ i \in 1..Len(log[Caller]) /\ log'[Caller][i] = log[Caller][i]
        \/ log'[Caller][i] = e
  BY <1>1, NotedEntries
<1>3. t \in Tips
  BY DEF History
<1>4. CASE \E i \in 1..Len(log'[Caller]) : t = log'[Caller][i].tip \/ t = log'[Caller][i].base
  BY <1>2, <1>3, <1>4 DEF History
<1>5. CASE \E c \in Children :
             integrating'[c] # None /\ (t = integrating'[c].base \/ t = integrating'[c].cand)
  BY <1>3, <1>5 DEF History
<1>6. CASE \/ t = tip[Caller] \/ t = batch
           \/ \E c \in Children : t = base[c] \/ (base[c] = None /\ t = tip[c])
  BY <1>3, <1>6 DEF History
<1> QED BY <1>4, <1>5, <1>6 DEF History

\* An intent makes its child known; its candidate adds a child whose paths nobody has.
LEMMA LogIntentOwners ==
  ASSUME IInv, Owners, [Next]_vars, LogIntent
  PROVE  Owners'
<1> DEFINE c == at.child
           intent == [base |-> at.base, cand |-> at.cand]
<1>1. Whole' /\ (First' => First)
  BY FirstStays DEF Owners
<1>2. /\ UNCHANGED <<base, tip, head, outcome, integrated, batch, owned, body, live>>
      /\ at.step = "intent" /\ at' = [at EXCEPT !.step = "advance"]
      /\ integrating' = [integrating EXCEPT ![c] = intent]
      /\ Note(Caller, Integrates(at.base, at.cand))
  BY DEF LogIntent, Goto, IntegrateStays, git
<1>3. /\ c \in Children /\ outcome[c] = "ok" /\ at.base \in Tips /\ at.cand \in Tips
      /\ head[c] \in Tips /\ base[c] \in Tips
  BY <1>2, IntegrationFacts
<1>4. at'.step = "advance" /\ at'.child = c /\ body \in {"working", "failing"}
  BY <1>2 DEF IInv, TypeOK, Running
<1>5. /\ integrating'[c] = intent /\ integrating'[c] # None
      /\ \A d \in Children \ {c} : integrating'[d] = integrating[d]
  BY <1>2, <1>3, ConstantsAssumption DEF IInv, TypeOK, Tips
<1>6. /\ log'[Caller] = Append(log[Caller], Integrates(at.base, at.cand))
      /\ Integrates(at.base, at.cand) \in Entries
      /\ \A d \in Children : log'[d] = log[d]
  <2>1. Integrates(at.base, at.cand) \in Entries
    BY <1>3, EntryTypes
  <2> QED BY <1>2, <2>1, NoteFacts, ChildrenAreFrames DEF IInv
<1>7. Own'
  BY <1>2, <1>6, OwnKept DEF Owners
<1> SUFFICES ASSUME First' PROVE (Unknown /\ Adds /\ Claimed /\ \A t \in History : Fine(Givers, t))'
  BY <1>1, <1>7 DEF Owners
<1>8. First /\ Unknown /\ Adds /\ Claimed /\ \A t \in History : Fine(Givers, t)
  BY <1>1 DEF Owners
<1>9. Known' = Known \cup {c}
  <2>1. c \in Known' /\ \A d \in Children \ {c} : d \in Known' <=> d \in Known
    BY <1>2, <1>3, <1>5 DEF Known
  <2>2. Known \subseteq Children /\ Known' \subseteq Children
    BY DEF Known
  <2> QED BY <1>3, <2>1, <2>2
<1>g. Givers \subseteq Givers' /\ (Source(c) # <<>> => c \in Givers')
  <2>1. \A d \in Children : Source(d)' = Source(d)
    BY <1>2 DEF Source
  <2>2. Known \subseteq Children
    BY DEF Known
  <2> HIDE DEF Known
  <2> QED BY <1>3, <1>9, <2>1, <2>2 DEF Givers
<1>10. Unknown'
  BY <1>2, <1>3, <1>8, <1>9 DEF Unknown
<1>11. at.base = tip[Caller] /\ SourcePaths(c) \cap owned = {}
       /\ By(at.cand) \subseteq By(at.base) \cup By(Source(c))
  BY <1>2, <1>8 DEF Claimed
<1>12. Adds'
  <2> SUFFICES ASSUME NEW d \in Children, integrating'[d] # None, outcome'[d] = "ok"
               PROVE  By(integrating'[d].cand) \subseteq By(integrating'[d].base) \cup By(Source(d)')
    BY DEF Adds, By
  <2>1. Source(d)' = Source(d)
    BY <1>2 DEF Source
  <2>2. CASE d = c
    BY <1>5, <1>11, <2>1, <2>2
  <2>3. CASE d # c
    BY <1>2, <1>5, <1>8, <2>1, <2>3 DEF Adds
  <2> QED BY <2>2, <2>3
<1>13. \A d \in By(tip[Caller]) : Paths[d] \subseteq owned
  BY <1>2, <1>4, <1>8 DEF Claimed
<1>14. Claimed'
  <2>1. By(tip[Caller])' = By(tip[Caller])
    BY <1>2 DEF By
  <2> QED BY <1>2, <1>4, <1>13, <2>1 DEF Claimed
<1>15. tip[Caller] \in History
  BY CallerTip DEF History
<1>16. Fine(Givers', at.cand)
  <2>1. Fine(Givers, at.base)
    BY <1>8, <1>11, <1>15
  <2>2. By(Source(c)) \subseteq {c}
    BY <1>2, SourceIsOwn DEF Owners
  <2>3. \A d \in By(at.cand) :
          \/ d \in By(at.base)
          \/ d = c /\ Paths[c] \cap owned = {} /\ Source(c) # <<>>
    <3>1. By(Source(c)) # {} => Paths[c] = SourcePaths(c) /\ Source(c) # <<>>
      BY ByEmpty DEF SourcePaths
    <3> QED BY <1>11, <2>2, <3>1
  <2>4. By(at.cand) \subseteq Givers'
    BY <1>g, <2>1, <2>3 DEF Fine
  <2>5. ASSUME NEW d \in By(at.cand), NEW e \in By(at.cand), d # e
        PROVE  Paths[d] \cap Paths[e] = {}
    <3>1. CASE d \in By(at.base) /\ e \in By(at.base)
      BY <2>1, <2>5, <3>1 DEF Fine
    <3>2. CASE ~(d \in By(at.base) /\ e \in By(at.base))
      <4>1. \/ d = c /\ Paths[c] \cap owned = {} /\ Paths[e] \subseteq owned
            \/ e = c /\ Paths[c] \cap owned = {} /\ Paths[d] \subseteq owned
        BY <1>11, <1>13, <2>3, <2>5, <3>2
      <4> QED BY <4>1
    <3> QED BY <3>1, <3>2
  <2> QED BY <2>4, <2>5 DEF Fine
<1>17. ASSUME NEW t \in History' PROVE t \in History \/ Fine(Givers', t)
  <2>1. Integrates(at.base, at.cand).base = at.base /\ Integrates(at.base, at.cand).tip = at.cand
    BY DEF Integrates
  <2>2. \A d \in Children : integrating'[d] # None /\ integrating'[d] # integrating[d] =>
          integrating'[d].base = at.base /\ integrating'[d].cand = at.cand
    BY <1>5
  <2>3. t \in History \/ t = at.base \/ t = at.cand
    BY <1>2, <1>6, <2>1, <2>2, NotedHistory
  <2> QED BY <1>11, <1>15, <1>16, <2>3
<1>18. (\A t \in History : Fine(Givers, t))'
  BY <1>8, <1>17, <1>g, HistoryStays
<1> QED BY <1>10, <1>12, <1>14, <1>18

\* The caller moves to the candidate; whoever is new behind it is the child that lands.
LEMMA AdvanceOwners ==
  ASSUME IInv, Owners, [Next]_vars, Advance
  PROVE  Owners'
<1> DEFINE c == at.child
<1>1. Whole' /\ (First' => First)
  BY FirstStays DEF Owners
<1>2. /\ UNCHANGED <<log, base, head, outcome, integrating, integrated, batch>>
      /\ UNCHANGED <<owned, body, live>> /\ at.step = "advance"
      /\ \/ tip' = tip \/ (tip[Caller] = at.base /\ tip' = [tip EXCEPT ![Caller] = at.cand])
      /\ at' = [at EXCEPT !.step = "landed"] \/ (at' = [at EXCEPT !.step = "fail"] /\ tip' = tip)
  BY DEF Advance, Goto, IntegrateStays
<1>3. /\ c \in Children /\ outcome[c] = "ok" /\ at.base \in Tips /\ at.cand \in Tips
  BY <1>2, IntegrationFacts
<1>4. integrating[c] = [base |-> at.base, cand |-> at.cand] /\ integrating[c] # None
  <2>1. integrating[c] = [base |-> at.base, cand |-> at.cand]
    BY <1>2 DEF IInv, Landing
  <2> QED BY <1>3, <2>1, ConstantsAssumption DEF Tips
<1>5. /\ at'.child = c
      /\ at'.step = "landed" \/ (at'.step = "fail" /\ tip' = tip)
      /\ \A d \in Children : tip'[d] = tip[d]
      /\ \/ tip'[Caller] = tip[Caller]
         \/ tip[Caller] = at.base /\ tip'[Caller] = at.cand
  <2>1. at \in [child : Frames, base : Tips, cand : Tips,
                step : {"no", "reapply", "intent", "advance", "landed", "receipt",
                        "pop", "fail"}]
        /\ tip \in [Frames -> Tips \cup {None}]
    BY DEF IInv, TypeOK
  <2>2. /\ at'.child = c
        /\ at'.step = "landed" \/ (at'.step = "fail" /\ tip' = tip)
    BY <1>2, <2>1
  <2>3. /\ \A d \in Children : tip'[d] = tip[d]
        /\ \/ tip'[Caller] = tip[Caller]
           \/ tip[Caller] = at.base /\ tip'[Caller] = at.cand
    BY <1>2, <2>1, ChildrenAreFrames
  <2> QED BY <2>2, <2>3
<1>6. Own'
  BY <1>2, <1>5, OwnKept DEF Owners
<1> SUFFICES ASSUME First' PROVE (Unknown /\ Adds /\ Claimed /\ \A t \in History : Fine(Givers, t))'
  BY <1>1, <1>6 DEF Owners
<1>7. First /\ Unknown /\ Adds /\ Claimed /\ \A t \in History : Fine(Givers, t)
  BY <1>1 DEF Owners
<1>8. Known' = Known /\ Unknown'
  BY <1>2, <1>7 DEF Known, Unknown
<1>g. Givers' = Givers
  BY <1>8, <1>2, GiversKept
<1>9. Adds'
  BY <1>2, <1>7, AddsKept
<1>10. \A d \in By(tip[Caller]) : body \in {"working", "failing"} => Paths[d] \subseteq owned
  BY <1>2, <1>7 DEF Claimed
<1>11. Claimed'
  <2>1. Source(at.child)' = Source(c)
    BY <1>2, <1>5 DEF Source
  <2>2. By(tip[Caller])' = By(tip'[Caller])
    BY Zenon DEF By
  <2>3. ASSUME NEW d \in By(tip'[Caller]), body \in {"working", "failing"}
        PROVE  Paths[d] \subseteq owned \/ (at'.child = d /\ at'.step = "landed" /\ Source(c) # <<>>)
    <3>1. CASE d \in By(tip[Caller])
      BY <1>10, <2>3, <3>1
    <3>2. CASE d \notin By(tip[Caller])
      <4>1. tip[Caller] = at.base /\ tip'[Caller] = at.cand /\ at'.step = "landed"
        BY <1>5, <2>3, <3>2
      <4>2. By(at.cand) \subseteq By(at.base) \cup By(Source(c))
        <5>1. integrating[c].base = at.base /\ integrating[c].cand = at.cand
          BY <1>4
        <5> QED BY <1>3, <1>4, <1>7, <5>1 DEF Adds
      <4>3. By(Source(c)) \subseteq {c}
        BY <1>2, SourceIsOwn DEF Owners
      <4>4. d = c /\ Source(c) # <<>>
        BY <2>3, <3>2, <4>1, <4>2, <4>3, ByEmpty
      <4> QED BY <1>5, <4>1, <4>4
    <3> QED BY <3>1, <3>2
  <2>4. body' \in {"working", "failing"} =>
          \A d \in By(tip[Caller])' :
            \/ Paths[d] \subseteq owned'
            \/ at'.child = d /\ at'.step \in {"landed", "receipt"} /\ Source(d)' # <<>>
    BY <1>2, <1>5, <2>1, <2>2, <2>3
  <2> QED BY <1>5, <2>4 DEF Claimed
<1>12. tip'[Caller] \in History
  BY <1>3, <1>4, <1>5, CallerTip DEF History
<1>13. ASSUME NEW t \in History' PROVE t \in History
  BY <1>2, <1>5, <1>12 DEF History
<1>14. (\A t \in History : Fine(Givers, t))'
  BY <1>7, <1>g, <1>13, HistoryStays
<1> QED BY <1>8, <1>9, <1>11, <1>14

\* A receipt replaces its intent.
LEMMA LogReceiptOwners ==
  ASSUME IInv, Owners, [Next]_vars, LogReceipt
  PROVE  Owners'
<1> DEFINE c == at.child
           receipt == [base |-> at.base, cand |-> at.cand]
<1>1. Whole' /\ (First' => First)
  BY FirstStays DEF Owners
<1>2. /\ UNCHANGED <<base, tip, head, outcome, batch, owned, body, live>>
      /\ at.step = "landed" /\ at' = [at EXCEPT !.step = "receipt"]
      /\ integrated' = [integrated EXCEPT ![c] = receipt]
      /\ integrating' = [integrating EXCEPT ![c] = None]
      /\ Note(Caller, Integrated(at.base, at.cand))
  BY DEF LogReceipt, Goto, IntegrateStays, git
<1>3. /\ c \in Children /\ outcome[c] = "ok" /\ at.base \in Tips /\ at.cand \in Tips
  BY <1>2, IntegrationFacts
<1>4. integrating[c] = receipt /\ receipt # None
  <2>1. integrating[c] = receipt
    BY <1>2 DEF IInv, Landing
  <2> QED BY <1>3, <2>1, ConstantsAssumption DEF Tips
<1>5. at'.step = "receipt" /\ at'.child = c
  BY <1>2 DEF IInv, TypeOK
<1>6. /\ integrating'[c] = None /\ integrated'[c] = receipt
      /\ \A d \in Children \ {c} :
           integrating'[d] = integrating[d] /\ integrated'[d] = integrated[d]
  BY <1>2, <1>3 DEF IInv, TypeOK
<1>7. /\ log'[Caller] = Append(log[Caller], Integrated(at.base, at.cand))
      /\ Integrated(at.base, at.cand) \in Entries
      /\ \A d \in Children : log'[d] = log[d]
  <2>1. Integrated(at.base, at.cand) \in Entries
    BY <1>3, EntryTypes
  <2> QED BY <1>2, <2>1, NoteFacts, ChildrenAreFrames DEF IInv
<1>8. at.base \in History /\ at.cand \in History
  <2>1. integrating[c].base = at.base /\ integrating[c].cand = at.cand
    BY <1>4
  <2> QED BY <1>3, <1>4, <2>1 DEF History
<1> HIDE DEF receipt
<1>9. Own'
  BY <1>2, <1>7, OwnKept DEF Owners
<1> SUFFICES ASSUME First' PROVE (Unknown /\ Adds /\ Claimed /\ \A t \in History : Fine(Givers, t))'
  BY <1>1, <1>9 DEF Owners
<1>10. First /\ Unknown /\ Adds /\ Claimed /\ \A t \in History : Fine(Givers, t)
  BY <1>1 DEF Owners
<1>11. Known' = Known
  <2>1. c \in Known /\ c \in Known'
    BY <1>3, <1>4, <1>6 DEF Known
  <2>2. \A d \in Children \ {c} : d \in Known' <=> d \in Known
    BY <1>6 DEF Known
  <2>3. Known \subseteq Children /\ Known' \subseteq Children
    BY DEF Known
  <2> QED BY <2>1, <2>2, <2>3
<1>g. Givers' = Givers
  BY <1>11, <1>2, GiversKept
<1>12. Unknown'
  BY <1>2, <1>10, <1>11 DEF Unknown
<1>13. Adds'
  BY <1>2, <1>6, <1>10, AddsKept
<1>14. Claimed'
  <2>1. By(tip[Caller])' = By(tip[Caller])
    BY <1>2 DEF By
  <2>2. Source(at.child)' = Source(c)
    BY <1>2, <1>5 DEF Source
  <2>3. body \in {"working", "failing"} =>
          \A d \in By(tip[Caller]) :
            Paths[d] \subseteq owned \/ (c = d /\ Source(d) # <<>>)
    BY <1>10 DEF Claimed
  <2>4. body' \in {"working", "failing"} =>
          \A d \in By(tip[Caller])' :
            \/ Paths[d] \subseteq owned'
            \/ at'.child = d /\ at'.step \in {"landed", "receipt"} /\ Source(d)' # <<>>
    BY <1>2, <1>5, <2>1, <2>2, <2>3
  <2> QED BY <1>5, <2>4 DEF Claimed
<1>15. ASSUME NEW t \in History' PROVE t \in History
  <2>1. Integrated(at.base, at.cand).base = at.base /\ Integrated(at.base, at.cand).tip = at.cand
    BY DEF Integrated
  <2>2. \A d \in Children : integrating'[d] = None \/ integrating'[d] = integrating[d]
    BY <1>6
  <2>3. t \in History \/ t = at.base \/ t = at.cand
    BY <1>2, <1>7, <2>1, <2>2, NotedHistory
  <2> QED BY <1>8, <2>3
<1>16. (\A t \in History : Fine(Givers, t))'
  BY <1>10, <1>g, <1>15, HistoryStays
<1> QED BY <1>12, <1>13, <1>14, <1>16

\* The paths of the child that landed are claimed.
LEMMA ClaimOwners ==
  ASSUME IInv, Owners, [Next]_vars, Claim
  PROVE  Owners'
<1> DEFINE c == at.child
<1>1. Whole' /\ (First' => First)
  BY FirstStays DEF Owners
<1>2. /\ UNCHANGED <<log, base, tip, head, outcome, integrating, integrated, batch>>
      /\ UNCHANGED <<body, live>>
      /\ at.step = "receipt" /\ at' = [at EXCEPT !.step = "pop"]
      /\ owned' = owned \cup SourcePaths(c)
  BY DEF Claim, Goto, IntegrateStays
<1>3. at'.step = "pop"
  BY <1>2 DEF IInv, TypeOK
<1>4. Own'
  BY <1>2, OwnKept DEF Owners
<1> SUFFICES ASSUME First' PROVE (Unknown /\ Adds /\ Claimed /\ \A t \in History : Fine(Givers, t))'
  BY <1>1, <1>4 DEF Owners
<1>5. First /\ Unknown /\ Adds /\ Claimed
  BY <1>1 DEF Owners
<1>6. Known' = Known /\ Unknown'
  BY <1>2, <1>5 DEF Known, Unknown
<1>g. Givers' = Givers
  BY <1>6, <1>2, GiversKept
<1>7. Adds'
  BY <1>2, <1>5, AddsKept
<1>8. Claimed'
  <2>1. By(tip[Caller])' = By(tip[Caller])
    BY <1>2 DEF By
  <2>2. body \in {"working", "failing"} => \A d \in By(tip[Caller]) : Paths[d] \subseteq owned'
    BY <1>2, <1>5 DEF Claimed, SourcePaths
  <2> QED BY <1>2, <1>3, <2>1, <2>2 DEF Claimed
<1>9. History' = History
  BY <1>2, HistoryKept
<1>10. (\A t \in History : Fine(Givers, t))'
  BY <1>5, <1>g, <1>9, HistoryStays
<1> QED BY <1>6, <1>7, <1>8, <1>10

LEMMA PopOwners ==
  ASSUME IInv, Owners, [Next]_vars, Pop
  PROVE  Owners'
<1> DEFINE c == at.child
           verdict == IF at.step = "pop" THEN "ok" ELSE "failed"
<1>1. Whole' /\ (First' => First)
  BY FirstStays DEF Owners
<1>2. /\ UNCHANGED <<log, base, tip, head, integrating, integrated, batch>>
      /\ UNCHANGED <<owned, body, live>>
      /\ at.step \in {"pop", "fail"} /\ at'.step = "no"
      /\ outcome' = [outcome EXCEPT ![c] = verdict]
  BY DEF Pop, git, Idle
<1>3. c \in Frames /\ c \in Children /\ outcome[c] = "ok"
  BY <1>2, IntegrationFacts
<1>4. /\ outcome'[c] \in {"ok", "failed"}
      /\ \A d \in Children \ {c} : outcome'[d] = outcome[d]
  BY <1>2, <1>3, ChildrenAreFrames DEF IInv, TypeOK
<1>5. \A d \in Children : /\ outcome'[d] = "none" <=> outcome[d] = "none"
                          /\ outcome'[d] = "ok" => outcome[d] = "ok"
  BY <1>3, <1>4
<1>6. Own'
  BY <1>2, <1>5, OwnKept DEF Owners
<1> SUFFICES ASSUME First' PROVE (Unknown /\ Adds /\ Claimed /\ \A t \in History : Fine(Givers, t))'
  BY <1>1, <1>6 DEF Owners
<1>7. First /\ Unknown /\ Adds /\ Claimed
  BY <1>1 DEF Owners
<1>8. Known' = Known
  BY <1>2 DEF Known
<1>g. Givers' = Givers
  BY <1>8, <1>2, GiversKept
<1>9. Unknown'
  BY <1>2, <1>5, <1>7, <1>8 DEF Unknown
<1>10. Adds'
  BY <1>2, <1>5, <1>7, AddsKept
<1>11. Claimed'
  <2>1. By(tip[Caller])' = By(tip[Caller])
    BY <1>2 DEF By
  <2>2. body \in {"working", "failing"} => \A d \in By(tip[Caller]) : Paths[d] \subseteq owned
    BY <1>2, <1>7 DEF Claimed
  <2> QED BY <1>2, <2>1, <2>2 DEF Claimed
<1>12. History' = History
  BY <1>2, HistoryKept
<1>13. (\A t \in History : Fine(Givers, t))'
  BY <1>7, <1>g, <1>12, HistoryStays
<1> QED BY <1>9, <1>10, <1>11, <1>13

LEMMA InitOwners == Init => Owners
<1> SUFFICES ASSUME Init PROVE Owners
  OBVIOUS
<1>1. /\ tip[Caller] = <<>> /\ log[Caller] = <<>> /\ batch = None
      /\ \A c \in Children :
           /\ base[c] = None /\ tip[c] = None /\ log[c] = <<>> /\ outcome[c] = "none"
           /\ integrating[c] = None /\ integrated[c] = None /\ live[c] = "no"
      /\ call = NoCall /\ retries = 0 /\ body = "no" /\ at.step = "no"
  BY ChildrenAreFrames DEF Init, Idle
<1>2. Whole /\ Own
  BY <1>1 DEF Whole, Own, NoCall
<1>3. Known = {} /\ Givers = {} /\ Unknown /\ Adds /\ Claimed
  BY <1>1 DEF Known, Givers, Unknown, Adds, Claimed
<1>4. \A t \in History : t = <<>>
  BY <1>1, EmptyTip DEF History
<1>5. \A t \in History : Fine(Givers, t)
  BY <1>4, ByEmpty DEF Fine
<1> QED BY <1>2, <1>3, <1>5 DEF Owners

LEMMA NextOwners == IInv /\ Owners /\ [Next]_vars => Owners'
<1> SUFFICES ASSUME IInv, Owners, [Next]_vars PROVE Owners'
  OBVIOUS
<1>1. CASE UNCHANGED vars
  BY <1>1, QuietSteps
<1>2. ASSUME NEW f \in Frames, WorkerCommits(f) \/ ParkRun(f) \/ OperatorResets(f)
      PROVE  Owners'
  BY <1>2, CommitOwners, QuietSteps, ResetOwners
<1>3. CASE Observe \/ ReplayCall \/ EnterBody \/ EndFailing \/ Return
  BY <1>3, CallOwners, QuietSteps, EnterOwners
<1>4. ASSUME NEW parallel \in BOOLEAN, CallDispatch(parallel) PROVE Owners'
  BY <1>4, CallOwners
<1>5. ASSUME NEW c \in Children, CallRetry(c) PROVE Owners'
  BY <1>5, CallOwners
<1>6. ASSUME NEW c \in Children, ChildStep(c) PROVE Owners'
  <2>1. ASSUME NEW o \in {"ok", "failed"}, ExitChild(c, o) PROVE Owners'
    BY <2>1, ExitOwners
  <2>2. CASE Branch(c) \/ Push(c) \/ StartIntegration(c)
    BY <2>2, BranchOwners, PushOwners, StartOwners
  <2>3. CASE \/ RejectBranch(c) \/ BlockChild(c) \/ UnwindChild(c)
             \/ FinishFailed(c) \/ FinishIntegrated(c) \/ Reopen(c)
    BY <2>3, QuietSteps
  <2> QED BY <1>6, <2>1, <2>2, <2>3 DEF ChildStep
<1>7. CASE Integrate
  BY <1>7, ReapplyOwners, LogIntentOwners, AdvanceOwners, LogReceiptOwners, ClaimOwners,
     PopOwners DEF Integrate
<1>8. CASE Crash \/ Restart \/ Relaunch
  BY <1>8, CrashOwners, QuietSteps
<1> QED BY <1>1, <1>2, <1>3, <1>4, <1>5, <1>6, <1>7, <1>8 DEF Next

\* Parallel siblings that share a path never both land, not even when one of them landed
\* unnoticed before a crash: whoever is on the caller's branch has an intent or a receipt
\* in the journal, and what has either claims its paths.
THEOREM OwnersAreDisjointHolds == Spec => []OwnersAreDisjoint
<1>1. IInv /\ Owners => OwnersAreDisjoint
  <2> SUFFICES ASSUME IInv, Owners, retries = 0, call.parallel,
                      NEW c \in Children, NEW d \in Children, c # d, Landed(c), Landed(d)
               PROVE  Paths[c] \cap Paths[d] = {}
    BY DEF OwnersAreDisjoint
  <2>1. First
    BY DEF First
  <2>2. Fine(Givers, tip[Caller])
    <3>1. tip[Caller] \in History
      BY CallerTip DEF History
    <3> QED BY <2>1, <3>1 DEF Owners
  <2>3. DOMAIN tip[Caller] = 1..Len(tip[Caller])
    BY CallerTip, LenProperties DEF Tips
  <2>4. c \in By(tip[Caller]) /\ d \in By(tip[Caller])
    BY <2>3 DEF Landed, By
  <2> QED BY <2>2, <2>4 DEF Fine
<1>2. Spec => []Owners
  <2>1. Spec => Init /\ [][Next]_vars
    BY DEF Spec
  <2> QED BY <2>1, IInvHolds, InitOwners, NextOwners, PTL
<1> QED BY <1>1, <1>2, IInvHolds, PTL

-----------------------------------------------------------------------------
(* A caller that is parked at an observed tip.                             *)
(*                                                                         *)
(* What the guard finds is the end of a walk over the whole log, which no  *)
(* variable holds.  The invariant therefore says that there is such a walk *)
(* and what is true of its end.  The walk is written without the branch:   *)
(* the tips it went by never leave the branch, which makes both the same.  *)

\* The states of the walk: a completed tip, and an intent that starts from it.
Places ==
  {s \in [tip : Tips, pending : {None} \cup Entries] :
     s.pending # None => s.pending.type = "integrating" /\ s.pending.base = s.tip}

\* One event of the walk of the caller, who has no exits.
Step(s, e) ==
  CASE e.type = "called" ->
         IF s.pending = None /\ IsPrefix(s.tip, e.tip) THEN [s EXCEPT !.tip = e.tip] ELSE s
    [] e.type = "integrating" ->
         IF s.pending = None /\ IsPrefix(s.tip, e.base)
         THEN [tip |-> e.base, pending |-> e] ELSE s
    [] e.type = "integrated" ->
         IF \/ s.tip = e.base
            \/ s.pending = None /\ IsPrefix(s.tip, e.base)
            \/ s.pending = Integrates(e.base, e.tip)
         THEN [tip |-> e.tip, pending |-> None] ELSE s
    [] OTHER -> s

\* A walk over the events l ends in s, and never had a tip beyond it.
Trails(l, s) ==
  \E w \in [0..Len(l) -> Places] :
    /\ w[0] = [tip |-> <<>>, pending |-> None] /\ w[Len(l)] = s
    /\ \A n \in 1..Len(l) : w[n] = Step(w[n - 1], l[n])
    /\ \A n \in 0..Len(l) : IsPrefix(w[n].tip, s.tip)

\* What t has beyond b is not the caller's.
NotCallers(b, t) == \A i \in 1..Len(t) : i > Len(b) => t[i][1] # Caller

\* An event that the caller's log may hold.
Formed(e) ==
  /\ e \in Entries /\ e.type # "exited"
  /\ e.type \in {"integrating", "integrated"} =>
       IsPrefix(e.base, e.tip) /\ NotCallers(e.base, e.tip)

-----------------------------------------------------------------------------
\* Of two beginnings of a tip, one begins the other.
LEMMA PrefixOfBoth ==
  ASSUME NEW s \in Tips, NEW t \in Tips, NEW u \in Tips, IsPrefix(s, u), IsPrefix(t, u)
  PROVE  IsPrefix(s, t) \/ IsPrefix(t, s)
<1>1. Len(s) \in Nat /\ Len(t) \in Nat /\ Len(u) \in Nat
  BY LenProperties DEF Tips
<1>2. /\ Len(s) <= Len(u) /\ \A i \in 1..Len(s) : s[i] = u[i]
      /\ Len(t) <= Len(u) /\ \A i \in 1..Len(t) : t[i] = u[i]
  BY PrefixMeans
<1>3. CASE Len(s) <= Len(t)
  <2>1. \A i \in 1..Len(s) : i \in 1..Len(t) /\ s[i] = t[i]
    BY <1>1, <1>2, <1>3
  <2> QED BY <1>3, <2>1, PrefixMeans
<1>4. CASE Len(t) <= Len(s)
  <2>1. \A i \in 1..Len(t) : i \in 1..Len(s) /\ s[i] = t[i]
    BY <1>1, <1>2, <1>4
  <2> QED BY <1>4, <2>1, PrefixMeans
<1> QED BY <1>1, <1>3, <1>4

\* Tips that begin one another are the same.
LEMMA PrefixEach ==
  ASSUME NEW s \in Tips, NEW t \in Tips, IsPrefix(s, t), IsPrefix(t, s)
  PROVE  s = t
<1>1. Len(s) \in Nat /\ Len(t) \in Nat
  BY LenProperties DEF Tips
<1>2. Len(s) = Len(t) /\ \A i \in 1..Len(s) : s[i] = t[i]
  BY <1>1, PrefixMeans
<1> QED BY <1>2, SeqEqual DEF Tips

\* A step of the walk is on the way forward.
LEMMA StepMovesOn ==
  ASSUME NEW s \in Places, NEW e, Formed(e)
  PROVE  Step(s, e) \in Places /\ IsPrefix(s.tip, Step(s, e).tip)
<1>1. /\ s \in [tip : Tips, pending : {None} \cup Entries] /\ s.tip \in Tips
      /\ s.pending # None => s.pending.type = "integrating" /\ s.pending.base = s.tip
      /\ e.type \in {"called", "integrating", "integrated"} /\ e.base \in Tips /\ e.tip \in Tips
      /\ e \in Entries
  BY DEF Places, Formed, Entries
<1>2. IsPrefix(s.tip, s.tip) /\ IsPrefix(e.base, e.base)
  BY <1>1, PrefixRefl
<1>3. CASE Step(s, e) = s
  BY <1>2, <1>3
<1>4. CASE /\ e.type = "called" /\ s.pending = None /\ IsPrefix(s.tip, e.tip)
           /\ Step(s, e) = [s EXCEPT !.tip = e.tip]
  <2>1. [s EXCEPT !.tip = e.tip] = [tip |-> e.tip, pending |-> None]
    BY <1>1, <1>4
  <2>2. [tip |-> e.tip, pending |-> None] \in Places
    BY <1>1 DEF Places
  <2> QED BY <1>4, <2>1, <2>2
<1>5. CASE /\ e.type = "integrating" /\ IsPrefix(s.tip, e.base)
           /\ Step(s, e) = [tip |-> e.base, pending |-> e]
  <2>1. [tip |-> e.base, pending |-> e] \in Places
    BY <1>1, <1>5 DEF Places
  <2> QED BY <1>5, <2>1
<1>6. CASE /\ e.type = "integrated" /\ Step(s, e) = [tip |-> e.tip, pending |-> None]
           /\ \/ s.tip = e.base
              \/ s.pending = None /\ IsPrefix(s.tip, e.base)
              \/ s.pending = Integrates(e.base, e.tip) /\ s.pending # None
  <2>1. [tip |-> e.tip, pending |-> None] \in Places
    BY <1>1 DEF Places
  <2>2. s.pending = Integrates(e.base, e.tip) => s.pending.base = e.base
    BY DEF Integrates
  <2>3. IsPrefix(s.tip, e.base)
    BY <1>1, <1>2, <1>6, <2>2
  <2>4. IsPrefix(s.tip, e.tip)
    BY <1>1, <1>6, <2>3, PrefixTrans DEF Formed
  <2> QED BY <1>6, <2>1, <2>4
<1>7. Integrates(e.base, e.tip) # None
  BY <1>1, ConstantsAssumption DEF Integrates, Tips
<1> HIDE DEF Places
<1> QED BY <1>1, <1>3, <1>4, <1>5, <1>6, <1>7 DEF Step

\* The walk over no events.
LEMMA TrailBegins ==
  Trails(<<>>, [tip |-> <<>>, pending |-> None])
<1> DEFINE s == [tip |-> <<>>, pending |-> None]
           w == [n \in 0..0 |-> s]
<1>1. Len(<<>>) = 0 /\ s \in Places /\ IsPrefix(s.tip, s.tip)
  BY EmptyTip, PrefixRefl DEF Places
<1> HIDE DEF s
<1>2. w \in [0..0 -> Places] /\ w[0] = s /\ \A n \in 0..0 : w[n] = s
  BY <1>1
<1> HIDE DEF w
<1> QED BY <1>1, <1>2 DEF Trails, s

\* An event more takes the walk a step further.
LEMMA TrailGoesOn ==
  ASSUME NEW l \in Seq(Entries), NEW s \in Places, NEW e, Formed(e), Trails(l, s)
  PROVE  Trails(Append(l, e), Step(s, e))
<1> DEFINE L == Len(l)
           m == Append(l, e)
           u == Step(s, e)
<1>1. PICK w \in [0..L -> Places] :
        /\ w[0] = [tip |-> <<>>, pending |-> None] /\ w[L] = s
        /\ \A n \in 1..L : w[n] = Step(w[n - 1], l[n])
        /\ \A n \in 0..L : IsPrefix(w[n].tip, s.tip)
  BY DEF Trails
<1>2. /\ L \in Nat /\ Len(m) = L + 1 /\ m[L + 1] = e
      /\ \A i \in 1..L : m[i] = l[i]
  BY AppendProperties, LenProperties DEF Formed
<1>3. u \in Places /\ IsPrefix(s.tip, u.tip)
  BY StepMovesOn
<1>4. \A p \in Places : p.tip \in Tips
  BY DEF Places
<1> HIDE DEF m, u, L
<1> DEFINE v == [n \in 0..L + 1 |-> IF n = L + 1 THEN u ELSE w[n]]
<1>5. /\ v[L + 1] = u
      /\ \A n \in 0..L : n \in 0..L + 1 /\ v[n] = w[n]
  BY <1>2
<1>6. v \in [0..L + 1 -> Places]
  <2>1. ASSUME NEW n \in 0..L + 1 PROVE (IF n = L + 1 THEN u ELSE w[n]) \in Places
    BY <1>2, <1>3
  <2> QED BY <2>1
<1> HIDE DEF v
<1>7. v[0] = [tip |-> <<>>, pending |-> None]
  BY <1>1, <1>2, <1>5
<1>8. ASSUME NEW n \in 1..L + 1 PROVE v[n] = Step(v[n - 1], m[n])
  <2>1. n - 1 \in 0..L /\ v[n - 1] = w[n - 1]
    BY <1>2, <1>5
  <2>2. CASE n = L + 1
    <3>1. v[n - 1] = s /\ m[n] = e /\ v[n] = u
      BY <1>1, <1>2, <1>5, <2>1, <2>2
    <3> QED BY <3>1 DEF u
  <2>3. CASE n # L + 1
    <3>1. n \in 1..L /\ n \in 0..L
      BY <1>2, <2>3
    <3> QED BY <1>1, <1>2, <1>5, <2>1, <3>1
  <2> QED BY <2>2, <2>3
<1>9. ASSUME NEW n \in 0..L + 1 PROVE IsPrefix(v[n].tip, u.tip)
  <2>1. CASE n = L + 1
    BY <1>3, <1>4, <1>5, <2>1, PrefixRefl
  <2>2. CASE n # L + 1
    <3>1. n \in 0..L /\ v[n] = w[n] /\ w[n] \in Places
      BY <1>2, <1>5, <2>2
    <3>2. IsPrefix(w[n].tip, s.tip) /\ w[n].tip \in Tips /\ s.tip \in Tips /\ u.tip \in Tips
      BY <1>1, <1>3, <1>4, <3>1
    <3> QED BY <1>3, <3>1, <3>2, PrefixTrans
  <2> QED BY <2>1, <2>2
<1>10. Trails(m, u)
  <2> SUFFICES /\ v \in [0..L + 1 -> Places] /\ v[0] = [tip |-> <<>>, pending |-> None]
               /\ v[L + 1] = u
               /\ \A n \in 1..L + 1 : v[n] = Step(v[n - 1], m[n])
               /\ \A n \in 0..L + 1 : IsPrefix(v[n].tip, u.tip)
    BY <1>2 DEF Trails
  <2> QED BY <1>5, <1>6, <1>7, <1>8, <1>9
<1> QED BY <1>10 DEF m, u

\* Whoever follows the walk ends where it ends.
LEMMA WalkFollows ==
  ASSUME NEW f, NEW w, Len(log[f]) \in Nat,
         w = [n \in 0..Len(log[f]) |-> w[n]], w[0] = Start(f),
         \A n \in 1..Len(log[f]) : w[n] = Walk(f, w[n - 1], log[f][n])
  PROVE  Walked(f) = w[Len(log[f])]
<1> DEFINE L == Len(log[f])
           Rec(h) == h = [n \in 0..L |-> IF n = 0 THEN [tip |-> base[f], pending |-> None]
                                         ELSE Walk(f, h[n - 1], log[f][n])]
           v == CHOOSE h : Rec(h)
<1>1. Rec(w)
  <2>1. \A n \in 0..L : w[n] = IF n = 0 THEN Start(f) ELSE Walk(f, w[n - 1], log[f][n])
    OBVIOUS
  <2> QED BY <2>1 DEF Start
<1>2. Rec(v)
  BY <1>1, Zenon
<1>3. v[0] = Start(f) /\ \A n \in 1..L : v[n] = Walk(f, v[n - 1], log[f][n])
  <2> HIDE DEF v
  <2>1. v = [n \in 0..L |-> IF n = 0 THEN [tip |-> base[f], pending |-> None]
                             ELSE Walk(f, v[n - 1], log[f][n])]
    BY <1>2
  <2>2. \A n \in 0..L : v[n] = IF n = 0 THEN [tip |-> base[f], pending |-> None]
                               ELSE Walk(f, v[n - 1], log[f][n])
    BY <2>1
  <2>3. 0 \in 0..L /\ \A n \in 1..L : n \in 0..L /\ n # 0
    OBVIOUS
  <2> QED BY <2>2, <2>3 DEF Start
<1> HIDE DEF v
<1>4. {n \in Nat : n <= L /\ v[n] # w[n]} = {}
  <2> DEFINE B == {n \in Nat : n <= L /\ v[n] # w[n]}
  <2> SUFFICES ASSUME B # {} PROVE FALSE
    OBVIOUS
  <2>1. PICK n \in B : \A m \in B : n <= m
    <3>1. B \in SUBSET Nat
      OBVIOUS
    <3> HIDE DEF B
    <3> QED BY <3>1, LeastElement
  <2>2. n \in Nat /\ n <= L /\ n # 0 /\ v[n] # w[n]
    BY <1>3
  <2>3. n - 1 \in Nat /\ n - 1 <= L /\ n - 1 \notin B
    <3>1. n - 1 \in Nat /\ n - 1 <= L /\ ~(n <= n - 1)
      BY <2>2
    <3> HIDE DEF B
    <3> QED BY <2>1, <3>1
  <2>4. v[n - 1] = w[n - 1]
    BY <2>3
  <2>5. n \in 1..L
    BY <2>2
  <2> QED BY <1>3, <2>2, <2>4, <2>5
<1>5. v[L] = w[L]
  <2>1. L \in Nat /\ L <= L
    OBVIOUS
  <2>2. L \notin {n \in Nat : n <= L /\ v[n] # w[n]}
    BY <1>4
  <2> HIDE DEF L
  <2> QED BY <2>1, <2>2
<1>6. Walked(f) = v[L]
  BY DEF Walked, v
<1> QED BY <1>5, <1>6

\* A branch that holds the end of the walk holds all of it: the guard walks the same way.
LEMMA TrailIsWalked ==
  ASSUME TypeOK, base[Caller] = <<>>, NEW s \in Places, Trails(log[Caller], s),
         tip[Caller] \in Tips, IsPrefix(s.tip, tip[Caller]),
         \A i \in 1..Len(log[Caller]) : Formed(log[Caller][i])
  PROVE  Walked(Caller) = s
<1> DEFINE L == Len(log[Caller])
<1>1. PICK w \in [0..L -> Places] :
        /\ w[0] = [tip |-> <<>>, pending |-> None] /\ w[L] = s
        /\ \A n \in 1..L : w[n] = Step(w[n - 1], log[Caller][n])
        /\ \A n \in 0..L : IsPrefix(w[n].tip, s.tip)
  BY DEF Trails
<1>2. L \in Nat
  BY ChildrenAreFrames, LogTypes
<1>3. \A n \in 0..L : w[n].tip \in Tips /\ IsPrefix(w[n].tip, tip[Caller])
  <2>1. \A p \in Places : p.tip \in Tips
    BY DEF Places
  <2> QED BY <1>1, <2>1, PrefixTrans
<1>4. ASSUME NEW n \in 1..L PROVE w[n] = Walk(Caller, w[n - 1], log[Caller][n])
  <2> DEFINE e == log[Caller][n]
             r == w[n - 1]
  <2>1. /\ Formed(e) /\ e.base \in Tips /\ e.tip \in Tips
        /\ e.type \in {"called", "integrating", "integrated"}
    BY DEF Formed, Entries
  <2>2. w[n] = Step(r, e) /\ IsPrefix(w[n].tip, tip[Caller])
    BY <1>1, <1>2, <1>3
  <2> HIDE DEF e, r
  <2> SUFFICES w[n] = Walk(Caller, r, e)
    BY DEF e, r
  <2>3. CASE e.type = "called"
    BY <2>2, <2>3 DEF Step, Walk, Reaches
  <2>4. CASE e.type = "integrating"
    <3>1. r.pending = None /\ IsPrefix(r.tip, e.base) => IsPrefix(e.base, tip[Caller])
      <4> SUFFICES ASSUME r.pending = None, IsPrefix(r.tip, e.base)
                   PROVE  IsPrefix(e.base, tip[Caller])
        OBVIOUS
      <4>1. w[n] = [tip |-> e.base, pending |-> e]
        BY <2>2, <2>4 DEF Step
      <4> QED BY <2>2, <4>1
    <3> QED BY <2>2, <2>4, <3>1 DEF Step, Walk, Reaches, Observes
  <2>5. CASE e.type = "integrated"
    <3>1. r.pending = None /\ IsPrefix(r.tip, e.base) => IsPrefix(e.base, tip[Caller])
      <4> SUFFICES ASSUME r.pending = None, IsPrefix(r.tip, e.base)
                   PROVE  IsPrefix(e.base, tip[Caller])
        OBVIOUS
      <4>1. w[n] = [tip |-> e.tip, pending |-> None]
        BY <2>2, <2>5 DEF Step
      <4>2. IsPrefix(e.tip, tip[Caller]) /\ IsPrefix(e.base, e.tip)
        BY <2>1, <2>2, <2>5, <4>1 DEF Formed
      <4> QED BY <2>1, <4>2, PrefixTrans
    <3> QED BY <2>2, <2>5, <3>1 DEF Step, Walk, Reaches, Observes
  <2> QED BY <2>1, <2>3, <2>4, <2>5
<1>5. w[0] = Start(Caller) /\ w = [n \in 0..L |-> w[n]]
  BY <1>1 DEF Start
<1> QED BY <1>1, <1>2, <1>4, <1>5, WalkFollows

-----------------------------------------------------------------------------
(* What is true of the end s of the walk.  The events are l, the branch of *)
(* the caller is at t, m commits are its own, D are the intents still to   *)
(* be carried out, R the tips at which children landed, n calls retried.   *)

Dues == [child : Children, base : Tips, cand : Tips]

\* The intent e has no receipt among the events.
Open(e, l) ==
  \E i \in 1..Len(l) :
    l[i] = e /\ \A j \in i + 1 .. Len(l) : l[j] # Integrated(e.base, e.tip)

\* Beyond b, o has a commit of the caller.
Marked(b, o, m) == \E i \in 1..Len(o) : i > Len(b) /\ o[i][1] = Caller /\ o[i][2] < m

\* The branch has lost a commit of the caller that o has: nothing brings it back.
Lost(o, t, m) ==
  \E i \in 1..Len(o) :
    o[i][1] = Caller /\ o[i][2] < m /\ (i > Len(t) \/ t[i] # o[i])

\* An operator who resets the branch to the end of the intent e keeps o, loses it for
\* good, or is refused.
Settled(e, o, m, R) ==
  IsPrefix(o, e.tip) \/ Marked(e.base, o, m) \/ \E r \in R : IsPrefix(o, r)

\* The walk explains o, or the branch is never again at o, or o is settled.
Kept(s, o, t, m, R) ==
  \/ IsPrefix(o, s.tip) \/ Lost(o, t, m)
  \/ s.pending # None /\ IsPrefix(o, t) /\ Settled(s.pending, o, m, R)

Between(b, h, t) == IsPrefix(b, h) /\ IsPrefix(h, t) /\ b # h /\ h # t

\* Neither the branch nor the walk is halfway through an intent; after a retry, which
\* has the only task, the walk has an intent as well.
Apart(s, t, D, n) ==
  \A d \in D :
    /\ n = 0 => ~Between(d.base, t, d.cand) /\ ~Between(d.base, s.tip, d.cand)
    /\ n # 0 => s.pending # None

Sound(s, l, t, m, D, R, n) ==
  /\ IsPrefix(s.tip, t)
  /\ s.pending # None => Open(s.pending, l)
  /\ s.pending # None => Settled(s.pending, t, m, R) \/ \E d \in D : d.cand = t
  /\ \A i \in 1..Len(l) :
       l[i].type \in {"called", "integrated"} => Kept(s, l[i].tip, t, m, R)
  /\ Apart(s, t, D, n)

\* What is known of the rest.
Given(l, t, m, D, R) ==
  /\ l \in Seq(Entries) /\ \A i \in 1..Len(l) : Formed(l[i])
  /\ t \in Tips /\ m \in Nat /\ D \subseteq Dues /\ R \subseteq Tips
  /\ \A d \in D : IsPrefix(d.base, d.cand) /\ GrownBy(d.child, d.base, d.cand)
  /\ \A d, e \in D : d.child = e.child => d = e

\* What a state of the walk is made of.
LEMMA PlaceTypes ==
  ASSUME NEW s \in Places
  PROVE  /\ s.tip \in Tips /\ s = [tip |-> s.tip, pending |-> s.pending]
         /\ s.pending # None =>
              /\ s.pending \in Entries /\ s.pending.base = s.tip /\ s.pending.tip \in Tips
              /\ s.pending = Integrates(s.pending.base, s.pending.tip)
<1>1. /\ s \in [tip : Tips, pending : {None} \cup Entries]
      /\ s.pending # None => s.pending.type = "integrating" /\ s.pending.base = s.tip
  BY DEF Places
<1>2. \A e \in Entries : e = [type |-> e.type, base |-> e.base, tip |-> e.tip]
                         /\ e.tip \in Tips
  BY DEF Entries
<1> QED BY <1>1, <1>2 DEF Integrates

\* An intent that the walk waits for is one of the events.
LEMMA OpenIsFormed ==
  ASSUME NEW l, NEW t, NEW m, NEW D, NEW R, Given(l, t, m, D, R), NEW e, Open(e, l)
  PROVE  Formed(e)
BY DEF Given, Open

\* An intent stays open until its receipt.
LEMMA OpenStays ==
  ASSUME NEW l \in Seq(Entries), NEW x \in Entries, NEW e, Open(e, l),
         x # Integrated(e.base, e.tip)
  PROVE  Open(e, Append(l, x))
<1> DEFINE k == Append(l, x)
<1>1. PICK i \in 1..Len(l) :
        l[i] = e /\ \A j \in i + 1 .. Len(l) : l[j] # Integrated(e.base, e.tip)
  BY DEF Open
<1>2. /\ Len(l) \in Nat /\ Len(k) = Len(l) + 1 /\ k[Len(l) + 1] = x
      /\ \A j \in 1..Len(l) : k[j] = l[j]
  BY AppendProperties, LenProperties
<1> HIDE DEF k
<1>3. ASSUME NEW j \in i + 1 .. Len(k) PROVE k[j] # Integrated(e.base, e.tip)
  <2>1. CASE j = Len(l) + 1
    BY <1>2, <2>1
  <2>2. CASE j # Len(l) + 1
    <3>1. j \in i + 1 .. Len(l) /\ j \in 1..Len(l)
      BY <1>2, <2>2
    <3> QED BY <1>1, <1>2, <3>1
  <2> QED BY <2>1, <2>2
<1>4. i \in 1..Len(k) /\ k[i] = e
  BY <1>1, <1>2
<1> QED BY <1>3, <1>4 DEF Open, k

\* A lost commit does not come back with commits of children, or with later ones.
LEMMA LostStays ==
  ASSUME NEW o \in Tips, NEW t \in Tips, NEW u \in Tips, NEW m \in Nat, NEW k \in Nat, m <= k,
         Lost(o, t, m),
         \A i \in 1..Len(u) : \/ i <= Len(t) /\ u[i] = t[i]
                              \/ u[i][1] # Caller \/ ~(u[i][2] < m)
  PROVE  Lost(o, u, k)
<1>1. PICK i \in 1..Len(o) : /\ o[i][1] = Caller /\ o[i][2] < m
                             /\ i > Len(t) \/ t[i] # o[i]
  BY DEF Lost
<1>2. Len(o) \in Nat /\ Len(t) \in Nat /\ Len(u) \in Nat /\ o[i] \in Frames \X Nat
  BY LenProperties, ElementOfSeq DEF Tips
<1>3. o[i][2] \in Nat
  BY <1>2
<1>4. o[i][2] < k
  BY <1>1, <1>3
<1>5. i > Len(u) \/ u[i] # o[i]
  <2> SUFFICES ASSUME ~(i > Len(u)), u[i] = o[i] PROVE FALSE
    OBVIOUS
  <2>1. i \in 1..Len(u)
    BY <1>2
  <2>2. i <= Len(t) /\ u[i] = t[i]
    BY <1>1, <2>1
  <2> QED BY <1>1, <1>2, <2>2
<1> QED BY <1>1, <1>4, <1>5 DEF Lost

\* A commit of the caller stays one.
LEMMA MarkedStays ==
  ASSUME NEW b, NEW o \in Tips, NEW m \in Nat, NEW k \in Nat, m <= k, Marked(b, o, m)
  PROVE  Marked(b, o, k)
<1>1. PICK i \in 1..Len(o) : i > Len(b) /\ o[i][1] = Caller /\ o[i][2] < m
  BY DEF Marked
<1>2. o[i] \in Frames \X Nat
  BY ElementOfSeq DEF Tips
<1>3. o[i][2] \in Nat
  BY <1>2
<1>4. o[i][2] < k
  BY <1>1, <1>3
<1> QED BY <1>1, <1>4 DEF Marked

\* What is settled stays so as the caller commits and children land.
LEMMA SettledStays ==
  ASSUME NEW e, NEW o \in Tips, NEW m \in Nat, NEW k \in Nat, m <= k, NEW R, NEW Q,
         R \subseteq Q, Settled(e, o, m, R)
  PROVE  Settled(e, o, k, Q)
BY MarkedStays DEF Settled

\* The events name tips.
LEMMA KeptTypes ==
  ASSUME NEW l, NEW t, NEW m, NEW D, NEW R, Given(l, t, m, D, R), NEW i \in 1..Len(l)
  PROVE  l[i].tip \in Tips /\ l[i].base \in Tips
<1>1. l[i] \in Entries
  BY DEF Given, Formed
<1> QED BY <1>1 DEF Entries

-----------------------------------------------------------------------------
(* How an event is noted. *)

\* The walk is at the tip of the branch.
LEMMA SoundTaken ==
  ASSUME NEW s \in Places, NEW l, NEW t, NEW m, NEW D, NEW R, NEW n, NEW Q, NEW E, NEW k,
         Given(l, t, m, D, R), Sound(s, l, t, m, D, R, n),
         NEW u \in Places, u.pending = None, u.tip = t,
         NEW x, Formed(x), x.type \in {"called", "integrated"} => x.tip = t,
         Apart(u, t, E, k)
  PROVE  Sound(u, Append(l, x), t, m, E, Q, k)
<1> DEFINE a == Append(l, x)
<1>1. l \in Seq(Entries) /\ t \in Tips /\ x \in Entries /\ s.tip \in Tips
      /\ IsPrefix(t, t) /\ IsPrefix(s.tip, t)
  BY PrefixRefl, PlaceTypes DEF Given, Formed, Sound
<1>2. \A i \in 1..Len(a) : (i \in 1..Len(l) /\ a[i] = l[i]) \/ a[i] = x
  BY <1>1, NotedEntries
<1> HIDE DEF a
<1>3. ASSUME NEW i \in 1..Len(a), a[i].type \in {"called", "integrated"}
      PROVE  Kept(u, a[i].tip, t, m, Q)
  <2>1. CASE a[i] = x
    BY <1>1, <1>3, <2>1 DEF Kept
  <2>2. CASE i \in 1..Len(l) /\ a[i] = l[i]
    <3>1. Kept(s, l[i].tip, t, m, R) /\ l[i].tip \in Tips
      BY <1>3, <2>2, KeptTypes DEF Sound
    <3>2. IsPrefix(l[i].tip, s.tip) => IsPrefix(l[i].tip, t)
      BY <1>1, <3>1, PrefixTrans
    <3> QED BY <2>2, <3>1, <3>2 DEF Kept
  <2> QED BY <1>2, <2>1, <2>2
<1> QED BY <1>1, <1>3 DEF Sound, a

\* The walk stays where it is.
LEMMA SoundStays ==
  ASSUME NEW s \in Places, NEW l, NEW t, NEW m, NEW D, NEW R, NEW n, NEW Q, NEW E, NEW k,
         Given(l, t, m, D, R), Sound(s, l, t, m, D, R, n), R \subseteq Q,
         NEW x, Formed(x),
         s.pending # None => x # Integrated(s.pending.base, s.pending.tip),
         s.pending # None => Settled(s.pending, t, m, Q) \/ \E d \in E : d.cand = t,
         x.type \in {"called", "integrated"} =>
           x.tip = t /\ (s.tip = t \/ (s.pending # None /\ Settled(s.pending, t, m, Q))),
         Apart(s, t, E, k)
  PROVE  Sound(s, Append(l, x), t, m, E, Q, k)
<1> DEFINE a == Append(l, x)
<1>1. l \in Seq(Entries) /\ t \in Tips /\ x \in Entries /\ IsPrefix(t, t) /\ m \in Nat /\ m <= m
  BY PrefixRefl DEF Given, Formed
<1>2. \A i \in 1..Len(a) : (i \in 1..Len(l) /\ a[i] = l[i]) \/ a[i] = x
  BY <1>1, NotedEntries
<1>3. s.pending # None => Open(s.pending, a)
  BY <1>1, OpenStays DEF Sound
<1> HIDE DEF a
<1>4. ASSUME NEW i \in 1..Len(a), a[i].type \in {"called", "integrated"}
      PROVE  Kept(s, a[i].tip, t, m, Q)
  <2>1. CASE a[i] = x
    BY <1>1, <1>4, <2>1 DEF Kept
  <2>2. CASE i \in 1..Len(l) /\ a[i] = l[i]
    <3>1. Kept(s, l[i].tip, t, m, R) /\ l[i].tip \in Tips
      BY <1>4, <2>2, KeptTypes DEF Sound
    <3>2. Settled(s.pending, l[i].tip, m, R) => Settled(s.pending, l[i].tip, m, Q)
      BY <1>1, <3>1, SettledStays
    <3> QED BY <2>2, <3>1, <3>2 DEF Kept
  <2> QED BY <1>2, <2>1, <2>2
<1> QED BY <1>3, <1>4 DEF Sound, a

\* A call names the tip of the branch.
LEMMA SoundCall ==
  ASSUME NEW s \in Places, NEW l, NEW t, NEW m, NEW R, NEW n, NEW k,
         Given(l, t, m, {}, R), Sound(s, l, t, m, {}, R, n)
  PROVE  /\ Formed(Called(t))
         /\ Sound(Step(s, Called(t)), Append(l, Called(t)), t, m, {}, R, k)
<1> DEFINE x == Called(t)
           u == Step(s, x)
<1>1. t \in Tips /\ x \in Entries /\ x.type = "called" /\ x.tip = t
  BY EntryTypes DEF Given, Called
<1>2. Formed(x)
  BY <1>1 DEF Formed
<1>3. u \in Places /\ Apart(u, t, {}, k) /\ Apart(s, t, {}, k)
  BY <1>2, StepMovesOn DEF Apart
<1> HIDE DEF x
<1>4. CASE s.pending = None
  <2>1. u = [s EXCEPT !.tip = t] /\ IsPrefix(s.tip, t)
    BY <1>1, <1>4 DEF Step, Sound
  <2>2. u.pending = None /\ u.tip = t
    BY <1>4, <2>1, PlaceTypes
  <2> HIDE DEF u
  <2>3. Sound(u, Append(l, x), t, m, {}, R, k)
    BY <1>1, <1>2, <1>3, <2>2, SoundTaken
  <2> QED BY <1>2, <2>3, Zenon DEF u, x
<1>5. CASE s.pending # None
  <2>1. u = s
    BY <1>1, <1>5 DEF Step
  <2>2. Settled(s.pending, t, m, R)
    BY <1>5 DEF Sound
  <2>3. x # Integrated(s.pending.base, s.pending.tip)
    BY <1>1 DEF Integrated
  <2>4. Sound(s, Append(l, x), t, m, {}, R, k)
    <3>1. /\ R \subseteq R /\ Apart(s, t, {}, k)
          /\ s.pending # None => x # Integrated(s.pending.base, s.pending.tip)
          /\ s.pending # None => Settled(s.pending, t, m, R) \/ \E d \in {} : d.cand = t
          /\ x.type \in {"called", "integrated"} =>
               x.tip = t /\ (s.tip = t \/ (s.pending # None /\ Settled(s.pending, t, m, R)))
      BY <1>1, <1>3, <1>5, <2>2, <2>3
    <3> QED BY <1>2, <3>1, SoundStays, Zenon
  <2> QED BY <1>2, <2>1, <2>4, Zenon DEF u, x
<1> QED BY <1>4, <1>5

\* An intent starts from the tip of the branch: the walk takes it up unless it waits
\* for an earlier one.
LEMMA SoundIntent ==
  ASSUME NEW s \in Places, NEW l, NEW t, NEW m, NEW D, NEW R, NEW n,
         Given(l, t, m, D, R), Sound(s, l, t, m, D, R, n),
         NEW d, d.base = t, NEW v \in Tips, d.cand = v, Formed(Integrates(t, v))
  PROVE  Sound(Step(s, Integrates(t, v)), Append(l, Integrates(t, v)), t, m,
               D \cup {d}, R, n)
<1> DEFINE x == Integrates(t, v)
           u == Step(s, x)
           E == D \cup {d}
           a == Append(l, x)
<1>1. /\ t \in Tips /\ x \in Entries /\ x.type = "integrating" /\ x.base = t /\ x.tip = v
      /\ IsPrefix(t, v) /\ s.tip \in Tips /\ IsPrefix(s.tip, t) /\ IsPrefix(t, t)
      /\ l \in Seq(Entries)
  BY PlaceTypes, PrefixRefl DEF Given, Formed, Integrates, Sound
<1>2. x # None
  BY <1>1, ConstantsAssumption DEF Integrates, Tips
<1>3. Formed(x) /\ u \in Places
  BY StepMovesOn
<1> HIDE DEF x
<1>4. CASE s.pending = None
  <2>1. u = [tip |-> t, pending |-> x]
    BY <1>1, <1>4 DEF Step
  <2> HIDE DEF u
  <2>2. u.tip = t /\ u.pending = x
    BY <2>1
  <2>3. Open(x, a)
    <3>1. Len(l) \in Nat /\ Len(a) = Len(l) + 1 /\ a[Len(l) + 1] = x
      BY <1>1, AppendProperties, LenProperties
    <3> HIDE DEF a
    <3>2. Len(l) + 1 \in 1..Len(a) /\ \A j \in Len(l) + 1 + 1 .. Len(a) : FALSE
      BY <3>1
    <3> QED BY <3>1, <3>2 DEF Open
  <2>4. Settled(x, t, m, R)
    BY <1>1 DEF Settled
  <2>5. \A i \in 1..Len(a) : (i \in 1..Len(l) /\ a[i] = l[i]) \/ a[i] = x
    BY <1>1, NotedEntries
  <2> HIDE DEF a
  <2>6. ASSUME NEW i \in 1..Len(a), a[i].type \in {"called", "integrated"}
        PROVE  Kept(u, a[i].tip, t, m, R)
    <3>1. i \in 1..Len(l) /\ a[i] = l[i]
      BY <1>1, <2>5, <2>6
    <3>2. Kept(s, l[i].tip, t, m, R) /\ l[i].tip \in Tips
      BY <2>6, <3>1, KeptTypes DEF Sound
    <3>3. IsPrefix(l[i].tip, s.tip) => IsPrefix(l[i].tip, t)
      BY <1>1, <3>2, PrefixTrans
    <3> QED BY <1>4, <2>2, <3>1, <3>2, <3>3 DEF Kept
  <2>7. Apart(u, t, E, n)
    <3>1. Apart(s, t, D, n)
      BY DEF Sound
    <3> QED BY <1>2, <2>2, <3>1 DEF Apart, Between
  <2>8. Sound(u, a, t, m, E, R, n)
    BY <1>1, <2>2, <2>3, <2>4, <2>6, <2>7 DEF Sound
  <2> QED BY <2>8, Zenon DEF u, a, E, x
<1>5. CASE s.pending # None
  <2>1. u = s
    BY <1>1, <1>5 DEF Step
  <2>2. Apart(s, t, E, n)
    <3>1. Apart(s, t, D, n)
      BY DEF Sound
    <3>2. ~Between(t, s.tip, v)
      BY <1>1, PrefixEach DEF Between
    <3> QED BY <1>5, <3>1, <3>2 DEF Apart, Between
  <2>3. /\ R \subseteq R
        /\ s.pending # None => x # Integrated(s.pending.base, s.pending.tip)
        /\ s.pending # None => Settled(s.pending, t, m, R) \/ \E e \in E : e.cand = t
        /\ x.type \in {"called", "integrated"} =>
             x.tip = t /\ (s.tip = t \/ (s.pending # None /\ Settled(s.pending, t, m, R)))
    BY <1>1 DEF Sound, Integrated
  <2> HIDE DEF E
  <2>4. Sound(s, a, t, m, E, R, n)
    BY <1>3, <2>2, <2>3, SoundStays, Zenon
  <2> QED BY <2>1, <2>4, Zenon DEF u, a, E, x
<1> QED BY <1>4, <1>5

\* A receipt clears the intent that the walk waits for, or what it names is settled.
LEMMA SoundReceipt ==
  ASSUME NEW s \in Places, NEW l, NEW t, NEW m, NEW D, NEW R, NEW n,
         Given(l, t, m, D, R), Sound(s, l, t, m, D, R, n),
         NEW d \in D, d.cand = t, Formed(Integrated(d.base, t)), n # 0 => D \subseteq {d}
  PROVE  Sound(Step(s, Integrated(d.base, t)), Append(l, Integrated(d.base, t)), t, m,
               D \ {d}, R \cup {t}, n)
<1> DEFINE x == Integrated(d.base, t)
           u == Step(s, x)
           E == D \ {d}
           Q == R \cup {t}
           Clears == \/ s.tip = x.base
                     \/ s.pending = None /\ IsPrefix(s.tip, x.base)
                     \/ s.pending = Integrates(x.base, x.tip)
<1>1. /\ t \in Tips /\ x \in Entries /\ x.type = "integrated" /\ x.base = d.base /\ x.tip = t
      /\ d.base \in Tips /\ IsPrefix(d.base, t)
      /\ s.tip \in Tips /\ IsPrefix(s.tip, t) /\ IsPrefix(t, t)
  BY PlaceTypes, PrefixRefl DEF Given, Formed, Integrated, Sound, Dues
<1>2. Formed(x) /\ u \in Places /\ Apart(s, t, D, n) /\ Apart(s, t, E, n)
  BY StepMovesOn DEF Sound, Apart
<1> HIDE DEF x
<1>3. CASE Clears
  <2>1. u = [tip |-> t, pending |-> None]
    BY <1>1, <1>3 DEF Step
  <2> HIDE DEF u
  <2>2. u.tip = t /\ u.pending = None
    BY <2>1
  <2>3. Apart(u, t, E, n)
    BY <1>2, <2>2 DEF Apart
  <2> HIDE DEF E, Q
  <2>4. Sound(u, Append(l, x), t, m, E, Q, n)
    BY <1>1, <1>2, <2>2, <2>3, SoundTaken
  <2> QED BY <2>4, Zenon DEF u, E, Q, x
<1>4. CASE ~Clears
  <2>1. u = s
    BY <1>1, <1>4 DEF Step
  <2>2. s.pending = None => s.tip = t
    <3> SUFFICES ASSUME s.pending = None PROVE s.tip = t
      OBVIOUS
    <3>1. ~IsPrefix(s.tip, d.base) /\ s.tip # d.base
      BY <1>1, <1>4
    <3>2. IsPrefix(d.base, s.tip)
      BY <1>1, <3>1, PrefixOfBoth
    <3>3. n = 0 /\ ~Between(d.base, s.tip, d.cand)
      BY <1>2 DEF Apart
    <3> QED BY <1>1, <3>1, <3>2, <3>3 DEF Between
  <2>3. s.pending # None => x # Integrated(s.pending.base, s.pending.tip)
    <3> SUFFICES ASSUME s.pending # None, x = Integrated(s.pending.base, s.pending.tip)
                 PROVE  FALSE
      OBVIOUS
    <3>1. x.base = s.pending.base /\ x.tip = s.pending.tip
      BY DEF Integrated
    <3>2. s.pending = Integrates(x.base, x.tip)
      BY <3>1, PlaceTypes
    <3> QED BY <1>4, <3>2
  <2>4. Settled(s.pending, t, m, Q)
    BY <1>1 DEF Settled
  <2>5. /\ R \subseteq Q
        /\ s.pending # None => Settled(s.pending, t, m, Q) \/ \E e \in E : e.cand = t
        /\ x.type \in {"called", "integrated"} =>
             x.tip = t /\ (s.tip = t \/ (s.pending # None /\ Settled(s.pending, t, m, Q)))
    BY <1>1, <2>2, <2>4
  <2> HIDE DEF E, Q
  <2>6. Sound(s, Append(l, x), t, m, E, Q, n)
    BY <1>2, <2>3, <2>5, SoundStays, Zenon
  <2> QED BY <2>1, <2>6, Zenon DEF u, E, Q, x
<1> QED BY <1>3, <1>4

\* An intent is given up whose candidate is not the tip of the branch.
LEMMA SoundFewer ==
  ASSUME NEW s, NEW l, NEW t, NEW m, NEW D, NEW R, NEW n, NEW E,
         Sound(s, l, t, m, D, R, n), E \subseteq D, \A d \in D : d \in E \/ d.cand # t
  PROVE  Sound(s, l, t, m, E, R, n)
BY DEF Sound, Apart

-----------------------------------------------------------------------------
(* How the branch moves. *)

\* A tip halfway through an intent ends in a commit of its child.
LEMMA HalfwayEnd ==
  ASSUME NEW c, NEW b \in Tips, NEW h \in Tips, NEW t \in Tips,
         Between(b, h, t), GrownBy(c, b, t)
  PROVE  Len(h) \in 1..Len(h) /\ Len(h) > Len(b) /\ h[Len(h)][1] = c
<1>1. Len(b) \in Nat /\ Len(h) \in Nat /\ Len(t) \in Nat
  BY LenProperties DEF Tips
<1>2. /\ Len(b) <= Len(h) /\ \A i \in 1..Len(b) : b[i] = h[i]
      /\ Len(h) <= Len(t) /\ \A i \in 1..Len(h) : h[i] = t[i]
  BY PrefixMeans DEF Between
<1>3. Len(b) # Len(h)
  <2> SUFFICES ASSUME Len(b) = Len(h) PROVE FALSE
    OBVIOUS
  <2>1. b = h
    BY <1>2, SeqEqual DEF Tips
  <2> QED BY <2>1 DEF Between
<1>4. Len(h) > Len(b) /\ Len(h) \in 1..Len(h) /\ Len(h) \in 1..Len(t)
  BY <1>1, <1>2, <1>3
<1> QED BY <1>2, <1>4 DEF GrownBy

\* The caller commits.
LEMMA SoundCommit ==
  ASSUME NEW s \in Places, NEW l, NEW t, NEW m, NEW D, NEW R, NEW n,
         Given(l, t, m, D, R), Sound(s, l, t, m, D, R, n)
  PROVE  Sound(s, l, Append(t, <<Caller, m>>), m + 1, D, R, n)
<1> DEFINE x == <<Caller, m>>
           u == Append(t, x)
<1>1. t \in Tips /\ m \in Nat /\ m + 1 \in Nat /\ m <= m + 1 /\ D \subseteq Dues
  BY DEF Given
<1>2. x \in Frames \X Nat /\ x[1] = Caller /\ x[2] = m
  BY <1>1, ChildrenAreFrames
<1> HIDE DEF x
<1>3. u \in Tips /\ IsPrefix(t, u)
  BY <1>1, <1>2, PrefixAppend
<1>4. /\ Len(t) \in Nat /\ Len(u) = Len(t) + 1 /\ u[Len(t) + 1] = x
      /\ \A i \in 1..Len(t) : u[i] = t[i]
  BY <1>1, <1>2, AppendProperties, LenProperties DEF Tips
<1> HIDE DEF u
<1>5. s.tip \in Tips /\ IsPrefix(s.tip, t)
  BY PlaceTypes DEF Sound
<1>6. s.pending # None => Settled(s.pending, u, m + 1, R)
  <2> SUFFICES ASSUME s.pending # None PROVE Marked(s.pending.base, u, m + 1)
    BY DEF Settled
  <2>1. Len(s.pending.base) <= Len(t) /\ Len(s.pending.base) \in Nat
    BY <1>1, <1>5, PlaceTypes, PrefixMeans, LenProperties DEF Tips
  <2>2. Len(t) + 1 \in 1..Len(u) /\ Len(t) + 1 > Len(s.pending.base) /\ m < m + 1
    BY <1>1, <1>4, <2>1
  <2> QED BY <1>2, <1>4, <2>2 DEF Marked
<1>7. ASSUME NEW i \in 1..Len(l), l[i].type \in {"called", "integrated"}
      PROVE  Kept(s, l[i].tip, u, m + 1, R)
  <2> DEFINE o == l[i].tip
  <2>1. Kept(s, o, t, m, R) /\ o \in Tips
    BY <1>7, KeptTypes DEF Sound
  <2> HIDE DEF o
  <2>2. Lost(o, t, m) => Lost(o, u, m + 1)
    <3>1. ASSUME NEW j \in 1..Len(u)
          PROVE  (j <= Len(t) /\ u[j] = t[j]) \/ u[j][1] # Caller \/ ~(u[j][2] < m)
      <4>1. j \in 1..Len(t) \/ j = Len(t) + 1
        BY <1>4
      <4>2. ~(m < m)
        BY <1>1
      <4> QED BY <1>2, <1>4, <4>1, <4>2
    <3> QED BY <1>1, <1>3, <2>1, <3>1, LostStays
  <2>3. IsPrefix(o, t) => IsPrefix(o, u)
    BY <1>1, <1>3, <2>1, PrefixTrans
  <2>4. Settled(s.pending, o, m, R) => Settled(s.pending, o, m + 1, R)
    BY <1>1, <2>1, SettledStays
  <2>5. Kept(s, o, u, m + 1, R)
    BY <2>1, <2>2, <2>3, <2>4 DEF Kept
  <2> QED BY <2>5 DEF o
<1>8. Apart(s, u, D, n)
  <2>1. ASSUME NEW d \in D PROVE ~Between(d.base, u, d.cand)
    <3> SUFFICES ASSUME Between(d.base, u, d.cand) PROVE FALSE
      OBVIOUS
    <3>1. d.base \in Tips /\ d.cand \in Tips /\ d.child \in Children
          /\ GrownBy(d.child, d.base, d.cand)
      BY <1>1 DEF Given, Dues
    <3>2. u[Len(u)][1] = d.child
      BY <1>3, <3>1, HalfwayEnd
    <3> QED BY <1>2, <1>4, <3>1, <3>2, ChildrenAreFrames
  <2> QED BY <2>1 DEF Sound, Apart
<1>9. IsPrefix(s.tip, u)
  BY <1>1, <1>3, <1>5, PrefixTrans
<1>10. Sound(s, l, u, m + 1, D, R, n)
  BY <1>6, <1>7, <1>8, <1>9 DEF Sound
<1> QED BY <1>10 DEF u, x

\* The branch is forwarded to the candidate of an intent.
LEMMA SoundAdvance ==
  ASSUME NEW s \in Places, NEW l, NEW t, NEW m, NEW D, NEW R, NEW n,
         Given(l, t, m, D, R), Sound(s, l, t, m, D, R, n),
         NEW d \in D, d.base = t, d.cand # t
  PROVE  Sound(s, l, d.cand, m, D, R, n)
<1> DEFINE u == d.cand
<1>1. /\ t \in Tips /\ u \in Tips /\ IsPrefix(t, u) /\ GrownBy(d.child, t, u)
      /\ d.child \in Children /\ d.child # Caller /\ m \in Nat /\ m <= m
  BY ChildrenAreFrames DEF Given, Dues
<1>2. Len(t) \in Nat /\ Len(u) \in Nat /\ \A i \in 1..Len(t) : u[i] = t[i]
  BY <1>1, PrefixMeans, LenProperties DEF Tips
<1>3. s.tip \in Tips /\ IsPrefix(s.tip, t) /\ IsPrefix(s.tip, u)
  BY <1>1, PlaceTypes, PrefixTrans DEF Sound
<1>4. ASSUME NEW i \in 1..Len(l), l[i].type \in {"called", "integrated"}
      PROVE  Kept(s, l[i].tip, u, m, R)
  <2> DEFINE o == l[i].tip
  <2>1. Kept(s, o, t, m, R) /\ o \in Tips
    BY <1>4, KeptTypes DEF Sound
  <2> HIDE DEF o, u
  <2>2. Lost(o, t, m) => Lost(o, u, m)
    <3>1. ASSUME NEW j \in 1..Len(u)
          PROVE  (j <= Len(t) /\ u[j] = t[j]) \/ u[j][1] # Caller \/ ~(u[j][2] < m)
      <4>1. j \in 1..Len(t) \/ j > Len(t)
        BY <1>2
      <4> QED BY <1>1, <1>2, <4>1 DEF GrownBy
    <3> QED BY <1>1, <2>1, <3>1, LostStays
  <2>3. IsPrefix(o, t) => IsPrefix(o, u)
    BY <1>1, <2>1, PrefixTrans
  <2>4. Kept(s, o, u, m, R)
    BY <2>1, <2>2, <2>3 DEF Kept
  <2> QED BY <2>4 DEF o
<1>5. Apart(s, u, D, n)
  <2>1. ASSUME NEW e \in D PROVE ~Between(e.base, u, e.cand)
    <3> SUFFICES ASSUME Between(e.base, u, e.cand) PROVE FALSE
      OBVIOUS
    <3>1. e.base \in Tips /\ e.cand \in Tips /\ GrownBy(e.child, e.base, e.cand)
      BY DEF Given, Dues
    <3>2. u[Len(u)][1] = e.child /\ Len(u) \in 1..Len(u)
      BY <1>1, <3>1, HalfwayEnd
    <3>3. Len(t) <= Len(u)
      BY <1>1, PrefixMeans
    <3>4. Len(t) # Len(u)
      <4> HIDE DEF u
      <4>1. ASSUME Len(t) = Len(u) PROVE t = u
        BY <1>1, <1>2, <4>1, SeqEqual DEF Tips
      <4> QED BY <4>1 DEF u
    <3>5. Len(u) > Len(t)
      BY <1>2, <3>3, <3>4
    <3>6. u[Len(u)][1] = d.child
      BY <1>1, <3>2, <3>5 DEF GrownBy
    <3>7. e = d
      BY <3>2, <3>6 DEF Given
    <3> QED BY <3>7 DEF Between
  <2> QED BY <2>1 DEF Sound, Apart
<1> QED BY <1>3, <1>4, <1>5 DEF Sound

\* An operator resets the branch to what the walk expects.
LEMMA SoundReset ==
  ASSUME NEW s \in Places, NEW l, NEW t, NEW m, NEW D, NEW R, NEW n,
         Given(l, t, m, D, R), Sound(s, l, t, m, D, R, n),
         NEW u, u = IF s.pending = None THEN s.tip ELSE s.pending.tip,
         \A r \in R : IsPrefix(r, u),
         n = 0 /\ s.pending # None =>
           \E c \in Children :
             /\ GrownBy(c, s.pending.base, s.pending.tip)
             /\ \A d \in D : d.child = c => d.cand = s.pending.tip
  PROVE  Sound(s, l, u, m, D, R, n)
<1> DEFINE e == s.pending
<1>1. t \in Tips /\ m \in Nat /\ m <= m /\ D \subseteq Dues
  BY DEF Given
<1>2. s.tip \in Tips /\ IsPrefix(s.tip, t) /\ IsPrefix(s.tip, s.tip)
  BY PlaceTypes, PrefixRefl DEF Sound
<1>3. ASSUME e # None
      PROVE  /\ u = e.tip /\ e.base = s.tip /\ e.tip \in Tips
             /\ IsPrefix(e.base, e.tip) /\ NotCallers(e.base, e.tip)
  <2>1. Formed(e)
    BY <1>3, OpenIsFormed DEF Sound
  <2>2. e.type = "integrating" /\ e.base = s.tip
    BY <1>3 DEF Places
  <2>3. u = e.tip
    BY <1>3
  <2>4. e.tip \in Tips
    BY <1>3, PlaceTypes
  <2> HIDE DEF e
  <2> QED BY <2>1, <2>2, <2>3, <2>4 DEF Formed
<1>4. u \in Tips /\ IsPrefix(s.tip, u) /\ IsPrefix(u, u)
  BY <1>2, <1>3, PrefixRefl
<1>5. /\ Len(s.tip) \in Nat /\ Len(t) \in Nat /\ Len(u) \in Nat
      /\ Len(s.tip) <= Len(t) /\ \A i \in 1..Len(s.tip) : s.tip[i] = t[i]
      /\ Len(s.tip) <= Len(u) /\ \A i \in 1..Len(s.tip) : s.tip[i] = u[i]
  BY <1>1, <1>2, <1>4, PrefixMeans, LenProperties DEF Tips
<1>6. ASSUME NEW j \in 1..Len(u), j > Len(s.tip) PROVE u[j][1] # Caller
  <2>1. s.pending # None
    BY <1>5, <1>6
  <2> QED BY <1>3, <1>6, <2>1 DEF NotCallers
<1>7. s.pending # None => Settled(s.pending, u, m, R)
  BY <1>3, <1>4 DEF Settled
<1>8. ASSUME NEW i \in 1..Len(l), l[i].type \in {"called", "integrated"}
      PROVE  Kept(s, l[i].tip, u, m, R)
  <2> DEFINE o == l[i].tip
  <2>1. Kept(s, o, t, m, R) /\ o \in Tips
    BY <1>8, KeptTypes DEF Sound
  <2> HIDE DEF o
  <2>2. Lost(o, t, m) => Lost(o, u, m)
    <3>1. ASSUME NEW j \in 1..Len(u)
          PROVE  (j <= Len(t) /\ u[j] = t[j]) \/ u[j][1] # Caller \/ ~(u[j][2] < m)
      <4>1. j \in 1..Len(s.tip) \/ j > Len(s.tip)
        BY <1>5
      <4> QED BY <1>5, <1>6, <4>1
    <3> QED BY <1>1, <1>4, <2>1, <3>1, LostStays
  <2>3. ASSUME s.pending # None, Marked(s.pending.base, o, m) PROVE Lost(o, u, m)
    <3>1. PICK j \in 1..Len(o) : j > Len(s.tip) /\ o[j][1] = Caller /\ o[j][2] < m
      BY <1>3, <2>3 DEF Marked
    <3>2. Len(o) \in Nat
      BY <2>1, LenProperties DEF Tips
    <3>3. j > Len(u) \/ u[j] # o[j]
      BY <1>5, <1>6, <3>1, <3>2
    <3> QED BY <3>1, <3>3 DEF Lost
  <2>4. ASSUME s.pending # None, Settled(s.pending, o, m, R)
        PROVE  Lost(o, u, m) \/ (IsPrefix(o, u) /\ Settled(s.pending, o, m, R))
    <3>1. ASSUME NEW r \in R, IsPrefix(o, r) PROVE IsPrefix(o, u)
      <4>1. r \in Tips /\ IsPrefix(r, u)
        BY DEF Given
      <4> QED BY <1>4, <2>1, <3>1, <4>1, PrefixTrans
    <3> QED BY <1>3, <2>3, <2>4, <3>1 DEF Settled
  <2>5. Kept(s, o, u, m, R)
    BY <2>1, <2>2, <2>4 DEF Kept
  <2> QED BY <2>5 DEF o
<1>9. Apart(s, u, D, n)
  <2>1. ASSUME NEW d \in D, n = 0 PROVE ~Between(d.base, u, d.cand)
    <3>1. Apart(s, t, D, n) /\ ~Between(d.base, s.tip, d.cand)
      BY <2>1 DEF Sound, Apart
    <3>2. CASE u = s.tip
      BY <3>1, <3>2
    <3>3. CASE u # s.tip
      <4> SUFFICES ASSUME Between(d.base, u, d.cand) PROVE FALSE
        OBVIOUS
      <4>1. s.pending # None
        BY <3>3
      <4>2. PICK c \in Children :
              /\ GrownBy(c, s.pending.base, s.pending.tip)
              /\ d.child = c => d.cand = s.pending.tip
        BY <2>1, <4>1
      <4>3. d.base \in Tips /\ d.cand \in Tips /\ GrownBy(d.child, d.base, d.cand)
        BY <1>1 DEF Given, Dues
      <4>4. Len(u) \in 1..Len(u) /\ u[Len(u)][1] = d.child
        BY <1>4, <4>3, HalfwayEnd
      <4>5. Len(u) # Len(s.tip)
        <5>1. Len(u) = Len(s.tip) => u = s.tip
          BY <1>2, <1>4, <1>5, SeqEqual DEF Tips
        <5> QED BY <3>3, <5>1
      <4>6. Len(u) > Len(s.tip)
        BY <1>5, <4>5
      <4>7. u[Len(u)][1] = c
        BY <1>3, <4>1, <4>2, <4>4, <4>6 DEF GrownBy
      <4>8. d.cand = u
        BY <1>3, <4>1, <4>2, <4>4, <4>7
      <4> QED BY <4>8 DEF Between
    <3> QED BY <3>2, <3>3
  <2> QED BY <2>1 DEF Sound, Apart
<1> QED BY <1>4, <1>7, <1>8, <1>9 DEF Sound

-----------------------------------------------------------------------------
\* The walk begins.
LEMMA SoundBegins ==
  ASSUME NEW m, NEW R, NEW n
  PROVE  Sound([tip |-> <<>>, pending |-> None], <<>>, <<>>, m, {}, R, n)
<1> DEFINE s == [tip |-> <<>>, pending |-> None]
<1>1. s.tip = <<>> /\ s.pending = None /\ Len(<<>>) = 0 /\ IsPrefix(<<>>, <<>>)
  BY EmptyTip, PrefixRefl
<1> HIDE DEF s
<1>2. Sound(s, <<>>, <<>>, m, {}, R, n)
  BY <1>1 DEF Sound, Apart
<1> QED BY <1>2 DEF s

\* A branch at an observed tip is where the walk ends, if every intent has its receipt.
LEMMA SoundNames ==
  ASSUME NEW s \in Places, NEW l, NEW t, NEW m, NEW D, NEW R, NEW n,
         Given(l, t, m, D, R), Sound(s, l, t, m, D, R, n),
         NEW i \in 1..Len(l), l[i].type \in {"called", "integrated"}, l[i].tip = t,
         \A j \in 1..Len(l) : l[j].type = "integrating" => ~Open(l[j], l)
  PROVE  s = [tip |-> t, pending |-> None]
<1>1. s.pending = None
  <2> SUFFICES ASSUME s.pending # None PROVE FALSE
    OBVIOUS
  <2>1. Open(s.pending, l) /\ s.pending.type = "integrating"
    BY DEF Sound, Places
  <2>2. PICK j \in 1..Len(l) : l[j] = s.pending
    BY <2>1 DEF Open
  <2> QED BY <2>1, <2>2
<1>2. ~Lost(t, t, m)
  <2>1. Len(t) \in Nat
    BY LenProperties DEF Given, Tips
  <2> QED BY <2>1 DEF Lost
<1>3. IsPrefix(t, s.tip) /\ IsPrefix(s.tip, t)
  BY <1>1, <1>2 DEF Sound, Kept
<1>4. s.tip \in Tips /\ t \in Tips /\ s = [tip |-> s.tip, pending |-> s.pending]
  BY PlaceTypes DEF Given
<1>5. s.tip = t
  BY <1>3, <1>4, PrefixEach
<1> QED BY <1>1, <1>4, <1>5

-----------------------------------------------------------------------------
(* The intents and receipts of the children.                               *)

\* Children whose intent is still to be carried out.
Due == {c \in Children : integrating[c] # None /\ outcome[c] = "ok"}

\* They are tasks of the open call that have not ended; a retry has one task.
Tasked ==
  /\ \A c \in Due : /\ call.open /\ c \in call.children
                    /\ body \in {"working", "failing"} => c \notin done
  /\ retries # 0 => \E c \in Children : call.children = {c}

\* A receipt ends an intent; both add what the child did.
Receipted ==
  \A c \in Children :
    /\ outcome[c] = "none" => integrating[c] = None /\ integrated[c] = None
    /\ integrated[c] # None => outcome[c] = "ok" /\ integrating[c] = None
    /\ integrating[c] # None => GrownBy(c, integrating[c].base, integrating[c].cand)
    /\ integrated[c] # None => GrownBy(c, integrated[c].base, integrated[c].cand)
    /\ live[c] = "branched" /\ retries = 0 => outcome[c] = "none"

\* While a child is integrated, nothing else moves the branch of the caller.
Alone ==
  /\ at.step \in {"reapply", "intent", "advance", "landed", "fail"} =>
       integrated[at.child] = None
  /\ at.step \in {"reapply", "intent"} => at.base = tip[Caller]
  /\ at.step = "intent" => GrownBy(at.child, at.base, at.cand)
  /\ at.step = "landed" => at.cand = tip[Caller]

IntentOf(e) == [base |-> e.base, cand |-> e.tip]

\* Before the first retry, the journal has no intent that was superseded.
Logged ==
  /\ \A i \in 1..Len(log[Caller]) : Formed(log[Caller][i])
  /\ retries = 0 =>
       \A i \in 1..Len(log[Caller]) : log[Caller][i].type = "integrating" =>
         \E c \in Children : IntentOf(log[Caller][i]) \in {integrating[c], integrated[c]}

Books == Tasked /\ Receipted /\ Alone /\ Logged

-----------------------------------------------------------------------------
\* What there is to show of the parts of Books after a step, one lemma for each.
LEMMA TaskedIs ==
  ASSUME \A c \in Due' : /\ call'.open /\ c \in call'.children
                         /\ body' \in {"working", "failing"} => c \notin done',
         retries' # 0 => \E c \in Children : call'.children = {c}
  PROVE  Tasked'
<1> HIDE DEF Due
<1> QED BY Zenon DEF Tasked, Children

LEMMA ReceiptedIs ==
  ASSUME \A c \in Children :
           /\ outcome'[c] = "none" => integrating'[c] = None /\ integrated'[c] = None
           /\ integrated'[c] # None => outcome'[c] = "ok" /\ integrating'[c] = None
           /\ integrating'[c] # None =>
                GrownBy(c, integrating'[c].base, integrating'[c].cand)
           /\ integrated'[c] # None => GrownBy(c, integrated'[c].base, integrated'[c].cand)
           /\ live'[c] = "branched" /\ retries' = 0 => outcome'[c] = "none"
  PROVE  Receipted'
BY Zenon DEF Receipted, Children, GrownBy

LEMMA AloneIs ==
  ASSUME at'.step \in {"reapply", "intent", "advance", "landed", "fail"} =>
           integrated'[at'.child] = None,
         at'.step \in {"reapply", "intent"} => at'.base = tip'[Caller],
         at'.step = "intent" => GrownBy(at'.child, at'.base, at'.cand),
         at'.step = "landed" => at'.cand = tip'[Caller]
  PROVE  Alone'
BY Zenon DEF Alone, GrownBy, Caller

LEMMA LoggedIs ==
  ASSUME \A i \in 1..Len(log'[Caller]) : Formed(log'[Caller][i]),
         retries' = 0 =>
           \A i \in 1..Len(log'[Caller]) : log'[Caller][i].type = "integrating" =>
             \E c \in Children :
               IntentOf(log'[Caller][i]) \in {integrating'[c], integrated'[c]}
  PROVE  Logged'
BY Zenon DEF Logged, Formed, Entries, Tips, Frames, Caller, Children, NotCallers, IntentOf

\* The tasks of the call go on, or end.
LEMMA TaskedStays ==
  ASSUME Tasked, Due' \subseteq Due, call'.children = call.children, call'.open = call.open,
         UNCHANGED retries,
         \A c \in Due' : body' \in {"working", "failing"} /\ c \in done' =>
           body \in {"working", "failing"} /\ c \in done
  PROVE  Tasked'
<1> HIDE DEF Due
<1> QED BY TaskedIs DEF Tasked

\* An event that holds an intent holds one of a child.
LEMMA IntentOfIsOne ==
  ASSUME NEW e, Formed(e)
  PROVE  IntentOf(e) \in Intents /\ IntentOf(e) # None
<1>1. e.base \in Tips /\ e.tip \in Tips
  BY DEF Formed, Entries
<1>2. IntentOf(e) \in Intents
  BY <1>1 DEF IntentOf, Intents
<1> QED BY <1>2, ConstantsAssumption DEF Intents, Tips

\* The log stays, and no child forgets its intent before the first retry.
LEMMA LoggedStays ==
  ASSUME Logged, log'[Caller] = log[Caller], retries' = 0 => retries = 0,
         retries = 0 =>
           \A c \in Children :
             /\ integrating[c] # None => integrating[c] \in {integrating'[c], integrated'[c]}
             /\ integrated[c] # None => integrated'[c] = integrated[c]
  PROVE  Logged'
<1>1. \A i \in 1..Len(log[Caller]) : Formed(log[Caller][i])
  BY DEF Logged
<1>2. ASSUME retries = 0, NEW i \in 1..Len(log[Caller]), log[Caller][i].type = "integrating"
      PROVE  \E c \in Children : IntentOf(log[Caller][i]) \in {integrating'[c], integrated'[c]}
  <2>1. PICK c \in Children : IntentOf(log[Caller][i]) \in {integrating[c], integrated[c]}
    BY <1>2 DEF Logged
  <2>2. IntentOf(log[Caller][i]) # None
    BY <1>1, IntentOfIsOne
  <2> QED BY <1>2, <2>1, <2>2
<1> QED BY <1>1, <1>2, LoggedIs

\* The intents and receipts stay.
LEMMA ReceiptedStays ==
  ASSUME Receipted, UNCHANGED <<integrating, integrated, outcome>>,
         \A c \in Children : live'[c] = "branched" /\ retries' = 0 => outcome[c] = "none"
  PROVE  Receipted'
BY ReceiptedIs DEF Receipted

\* The attempt or the integration of one child changes what is known of it.
LEMMA ReceiptedChanges ==
  ASSUME Receipted, NEW c \in Children, UNCHANGED retries,
         \A d \in Children \ {c} : /\ outcome'[d] = outcome[d] /\ live'[d] = live[d]
                                  /\ integrating'[d] = integrating[d]
                                  /\ integrated'[d] = integrated[d],
         outcome'[c] = "none" => integrating'[c] = None /\ integrated'[c] = None,
         integrated'[c] # None => outcome'[c] = "ok" /\ integrating'[c] = None,
         integrating'[c] # None => GrownBy(c, integrating'[c].base, integrating'[c].cand),
         integrated'[c] # None => GrownBy(c, integrated'[c].base, integrated'[c].cand),
         live'[c] = "branched" /\ retries' = 0 => outcome'[c] = "none"
  PROVE  Receipted'
<1> SUFFICES ASSUME NEW d \in Children
             PROVE  /\ outcome'[d] = "none" => integrating'[d] = None /\ integrated'[d] = None
                    /\ integrated'[d] # None => outcome'[d] = "ok" /\ integrating'[d] = None
                    /\ integrating'[d] # None =>
                         GrownBy(d, integrating'[d].base, integrating'[d].cand)
                    /\ integrated'[d] # None =>
                         GrownBy(d, integrated'[d].base, integrated'[d].cand)
                    /\ live'[d] = "branched" /\ retries' = 0 => outcome'[d] = "none"
  BY ReceiptedIs
<1>1. CASE d = c
  BY <1>1
<1>2. CASE d # c
  BY <1>2 DEF Receipted
<1> QED BY <1>1, <1>2

\* The integration stays where it is, or is over.
LEMMA AloneStays ==
  ASSUME Alone, UNCHANGED integrated,
         at'.step = "no" \/ (at' = at /\ tip'[Caller] = tip[Caller])
  PROVE  Alone'
BY AloneIs DEF Alone

\* The steps that leave the caller's log and the integrations alone.
LEMMA QuietBooks ==
  ASSUME Books, UNCHANGED <<integrating, integrated, outcome, call, retries>>,
         log'[Caller] = log[Caller],
         at'.step = "no" \/ (at' = at /\ tip'[Caller] = tip[Caller]),
         \A c \in Children : live'[c] = "branched" => live[c] = "branched" \/ outcome[c] = "none"
                                                      \/ retries # 0,
         \A c \in Due : body' \in {"working", "failing"} /\ c \in done' =>
           body \in {"working", "failing"} /\ c \in done
  PROVE  Books'
<1>1. Due' = Due
  BY DEF Due
<1>2. Tasked'
  BY <1>1, TaskedStays DEF Books
<1>3. Receipted'
  BY ReceiptedStays DEF Books, Receipted
<1>4. Alone'
  BY AloneStays DEF Books
<1>5. Logged'
  BY LoggedStays DEF Books
<1> QED BY <1>2, <1>3, <1>4, <1>5 DEF Books

\* A child that runs, failed, landed or never ran has nothing to carry out.
LEMMA NotDue ==
  ASSUME IInv, Books
  PROVE  /\ \A c \in Children : \/ live[c] # "no" \/ outcome[c] # "ok"
                                 \/ integrated[c] # None \/ base[c] = None => c \notin Due
         /\ ~call.open => Due = {}
<1>1. ASSUME NEW c \in Children,
             live[c] # "no" \/ outcome[c] # "ok" \/ integrated[c] # None \/ base[c] = None
      PROVE  c \notin Due
  <2>1. live[c] \in {"no", "branched", "running"}
    BY <1>1, ChildrenAreFrames DEF IInv, TypeOK
  <2> QED BY <1>1, <2>1 DEF IInv, Exits, Books, Receipted, Due
<1>2. ~call.open => Due = {}
  BY DEF Books, Tasked
<1> QED BY <1>1, <1>2

\* Those steps: crashes, launches, the children that end without an integration.
LEMMA QuietBooksSteps ==
  ASSUME IInv, Owners, Books,
         \/ UNCHANGED vars \/ ReplayCall \/ EnterBody \/ EndFailing \/ Crash \/ Restart
         \/ Relaunch
         \/ \E f \in Frames : WorkerCommits(f) \/ ParkRun(f) \/ OperatorResets(f)
         \/ \E c \in Children :
              \/ Branch(c) \/ RejectBranch(c) \/ Reopen(c) \/ BlockChild(c) \/ UnwindChild(c)
              \/ FinishFailed(c) \/ FinishIntegrated(c)
  PROVE  Books'
<1>1. CASE UNCHANGED vars
  BY <1>1, QuietBooks DEF vars, durable, git, memory, bounds
<1>2. CASE ReplayCall \/ EnterBody \/ EndFailing
  <2>1. /\ UNCHANGED <<integrating, integrated, outcome, call, retries, log, at, tip, live>>
        /\ body' \in {"no", "entered"} \/ done' = {}
    BY <1>2 DEF ReplayCall, EnterBody, EndFailing, durable, git, bounds
  <2> QED BY <2>1, QuietBooks
<1>3. CASE Crash \/ Restart
  <2>1. UNCHANGED <<integrating, integrated, outcome, call, retries, log, tip>>
    BY <1>3 DEF Crash, Restart, durable, git, bounds
  <2>2. at'.step = "no" \/ at' = at
    BY <1>3 DEF Crash, Restart, Idle, memory
  <2>3. body' = "no" \/ UNCHANGED <<body, done>>
    BY <1>3 DEF Crash, Restart, memory
  <2>4. \A c \in Children : live'[c] # "branched"
    BY <1>3, ChildrenAreFrames DEF Crash, Restart
  <2> QED BY <2>1, <2>2, <2>3, <2>4, QuietBooks
<1>4. CASE Relaunch
  <2>1. UNCHANGED <<integrating, integrated, outcome, call, retries, log, tip, at, body, done>>
    BY <1>4 DEF Relaunch, git, bounds
  <2>2. \A c \in Children : live'[c] = live[c]
    BY <1>4, ChildrenAreFrames DEF Relaunch, IInv, TypeOK
  <2> QED BY <2>1, <2>2, QuietBooks
<1>5. ASSUME NEW f \in Frames, WorkerCommits(f) PROVE Books'
  <2>1. UNCHANGED <<integrating, integrated, outcome, call, retries, log, at, body, done, live>>
    BY <1>5 DEF WorkerCommits, durable, memory
  <2>2. at.step = "no" \/ f # Caller
    BY <1>5 DEF WorkerCommits, IInv, Running
  <2>3. f # Caller => tip'[Caller] = tip[Caller]
    BY <1>5, ChildrenAreFrames DEF WorkerCommits, IInv, TypeOK
  <2> QED BY <2>1, <2>2, <2>3, QuietBooks
<1>6. ASSUME NEW f \in Frames, ParkRun(f) PROVE Books'
  <2>1. UNCHANGED <<integrating, integrated, outcome, call, retries, log, at, body, done,
                    live, tip>>
    BY <1>6 DEF ParkRun, git, memory, bounds
  <2> QED BY <2>1, QuietBooks
<1>7. ASSUME NEW f \in Frames, OperatorResets(f) PROVE Books'
  <2>1. /\ UNCHANGED <<integrating, integrated, outcome, call, retries, log, at, body, done, live>>
        /\ ~up
    BY <1>7 DEF OperatorResets, durable, memory, bounds
  <2>2. at.step = "no"
    BY <2>1 DEF IInv, Running
  <2> QED BY <2>1, <2>2, QuietBooks
<1>8. ASSUME NEW c \in Children, Branch(c) PROVE Books'
  <2>1. /\ UNCHANGED <<integrating, integrated, outcome, call, retries, log, at, body, done>>
        /\ outcome[c] = "none" \/ call.retry
    BY <1>8 DEF Branch, NeedsLaunch, durable, bounds
  <2>2. tip'[Caller] = tip[Caller] /\ \A d \in Children : d = c \/ live'[d] = live[d]
    BY <1>8, ChildrenAreFrames DEF Branch, IInv, TypeOK
  <2>3. call.retry => retries # 0
    BY DEF Owners, Whole
  <2> QED BY <2>1, <2>2, <2>3, QuietBooks
<1>9. ASSUME NEW c \in Children, Reopen(c) PROVE Books'
  <2>1. /\ UNCHANGED <<integrating, integrated, outcome, call, retries, log, at, body, done, tip>>
        /\ outcome[c] = "none" \/ call.retry
    BY <1>9 DEF Reopen, NeedsLaunch, durable, bounds
  <2>2. \A d \in Children : d = c \/ live'[d] = live[d]
    BY <1>9, ChildrenAreFrames DEF Reopen, IInv, TypeOK
  <2>3. call.retry => retries # 0
    BY DEF Owners, Whole
  <2> QED BY <2>1, <2>2, <2>3, QuietBooks
<1>10. ASSUME NEW c \in Children, RejectBranch(c) \/ BlockChild(c) \/ UnwindChild(c)
                                 \/ FinishFailed(c) \/ FinishIntegrated(c)
       PROVE  Books'
  <2>1. /\ UNCHANGED <<integrating, integrated, outcome, call, retries, log, at, tip>>
        /\ done' = done \cup {c} /\ up
    BY <1>10 DEF RejectBranch, BlockChild, UnwindChild, FinishFailed, FinishIntegrated,
       durable, git, bounds, Finishes, Turn
  <2>2. \A d \in Children : live'[d] = "branched" => live[d] = "branched"
    BY <1>10, ChildrenAreFrames DEF RejectBranch, BlockChild, UnwindChild, FinishFailed,
       FinishIntegrated, IInv, TypeOK
  <2>3. body \in {"working", "failing"}
    <3>1. CASE UnwindChild(c)
      BY <3>1 DEF UnwindChild, IInv, Running
    <3>2. CASE ~UnwindChild(c)
      BY <1>10, <3>2 DEF RejectBranch, BlockChild, FinishFailed, FinishIntegrated,
         Finishes, Turn
    <3> QED BY <3>1, <3>2
  <2>4. live[c] # "no" \/ outcome[c] # "ok" \/ integrated[c] # None \/ base[c] = None
    BY <1>10 DEF RejectBranch, BlockChild, UnwindChild, FinishFailed, FinishIntegrated
  <2>5. c \notin Due
    BY <2>4, NotDue
  <2> QED BY <2>1, <2>2, <2>3, <2>5, QuietBooks
<1> QED BY <1>1, <1>2, <1>3, <1>4, <1>5, <1>6, <1>7, <1>8, <1>9, <1>10

\* The caller's log takes an event that is no intent.
LEMMA LoggedNotes ==
  ASSUME Logged, log[Caller] \in Seq(Entries), NEW e, Formed(e), e.type # "integrating",
         log'[Caller] = Append(log[Caller], e), retries' = 0 => retries = 0,
         \A c \in Children :
           /\ integrating[c] # None => integrating[c] \in {integrating'[c], integrated'[c]}
           /\ integrated[c] # None => integrated'[c] = integrated[c]
  PROVE  Logged'
<1> DEFINE l == log[Caller]
           k == log'[Caller]
<1>1. \A i \in 1..Len(k) : (i \in 1..Len(l) /\ k[i] = l[i]) \/ k[i] = e
  <2>1. e \in Entries
    BY DEF Formed
  <2> HIDE DEF l, k
  <2> QED BY <2>1, NotedEntries DEF l, k
<1>2. \A i \in 1..Len(l) : Formed(l[i])
  BY DEF Logged
<1>3. \A i \in 1..Len(k) : Formed(k[i])
  BY <1>1, <1>2
<1>4. ASSUME retries = 0, NEW i \in 1..Len(k), k[i].type = "integrating"
      PROVE  \E c \in Children : IntentOf(k[i]) \in {integrating'[c], integrated'[c]}
  <2>1. i \in 1..Len(l) /\ k[i] = l[i]
    BY <1>1, <1>4
  <2>2. PICK c \in Children : IntentOf(l[i]) \in {integrating[c], integrated[c]}
    BY <1>4, <2>1 DEF Logged
  <2>3. IntentOf(l[i]) # None
    BY <1>2, <2>1, IntentOfIsOne
  <2> QED BY <2>1, <2>2, <2>3
<1> QED BY <1>3, <1>4, LoggedIs

\* A call is an event of the caller.
LEMMA CalledIsFormed ==
  ASSUME NEW t \in Tips
  PROVE  Formed(Called(t)) /\ Called(t).type = "called" /\ Called(t).tip = t
BY EntryTypes DEF Formed, Called

\* The caller has a log of events.
LEMMA CallerLog ==
  ASSUME IInv
  PROVE  log[Caller] \in Seq(Entries) /\ Caller \in Frames
BY ChildrenAreFrames DEF IInv, TypeOK, Entries

\* A call is noted, and opens at most one of its own.
LEMMA CallBooks ==
  ASSUME IInv, Books, body = "no",
         ~call.open, Note(Caller, Called(tip[Caller])),
         UNCHANGED <<integrating, integrated, outcome, live, at, tip>>,
         \/ UNCHANGED <<call, retries>>
         \/ UNCHANGED retries /\ call = NoCall
         \/ retries' # 0 /\ \E c \in Children : call'.children = {c}
  PROVE  Books'
<1>1. Due = {} /\ Due' = {}
  <2>1. Due = {}
    BY NotDue
  <2> QED BY <2>1 DEF Due
<1>2. Tasked'
  <2>1. retries' # 0 => \E c \in Children : call'.children = {c}
    <3>1. retries # 0 => call # NoCall
      BY DEF Books, Tasked, NoCall
    <3> QED BY <3>1 DEF Books, Tasked
  <2> HIDE DEF Due
  <2> QED BY <1>1, <2>1, TaskedIs
<1>3. retries' = 0 => retries = 0
  OBVIOUS
<1>4. Receipted'
  BY <1>3, ReceiptedStays DEF Books, Receipted
<1>5. Alone'
  BY AloneStays DEF Books
<1>6. Logged'
  <2>1. Formed(Called(tip[Caller])) /\ Called(tip[Caller]).type = "called"
    BY CallerTip, CalledIsFormed
  <2>2. log'[Caller] = Append(log[Caller], Called(tip[Caller]))
    BY <2>1, CallerLog, NoteFacts DEF IInv, Formed
  <2> QED BY <1>3, <2>1, <2>2, CallerLog, LoggedNotes DEF Books
<1> QED BY <1>2, <1>4, <1>5, <1>6 DEF Books

\* The calls: one that only observes, a dispatch, a retry.
LEMMA CallBooksSteps ==
  ASSUME IInv, Owners, Books,
         \/ Observe \/ (\E parallel \in BOOLEAN : CallDispatch(parallel))
         \/ (\E c \in Children : CallRetry(c))
  PROVE  Books'
<1>1. CASE Observe
  <2>1. /\ body = "no" /\ ~call.open /\ Note(Caller, Called(tip[Caller]))
        /\ UNCHANGED <<integrating, integrated, outcome, live, at, tip, call, retries>>
    BY <1>1 DEF Observe, MayCall, git, memory, bounds
  <2> QED BY <2>1, CallBooks
<1>2. ASSUME NEW parallel \in BOOLEAN, CallDispatch(parallel) PROVE Books'
  <2>1. /\ body = "no" /\ call = NoCall /\ Note(Caller, Called(tip[Caller]))
        /\ UNCHANGED <<integrating, integrated, outcome, live, at, tip, retries>>
    BY <1>2 DEF CallDispatch, MayCall, git, bounds
  <2> QED BY <2>1, CallBooks DEF NoCall
<1>3. ASSUME NEW c \in Children, CallRetry(c) PROVE Books'
  <2>1. /\ body = "no" /\ ~call.open /\ Note(Caller, Called(tip[Caller]))
        /\ UNCHANGED <<integrating, integrated, outcome, live, at, tip>>
        /\ retries' = retries + 1 /\ call'.children = {c}
    BY <1>3 DEF CallRetry, MayCall, git, NoCall
  <2>2. retries' # 0
    BY <2>1 DEF Owners, Whole
  <2> QED BY <2>1, <2>2, CallBooks
<1> QED BY <1>1, <1>2, <1>3

\* The call returns.
LEMMA ReturnBooks ==
  ASSUME IInv, Books, Return
  PROVE  Books'
<1>1. /\ UNCHANGED <<integrating, integrated, outcome, live, at, tip, log, retries>>
      /\ body = "working" /\ body' = "no" /\ done = call.children
  BY DEF Return, git, bounds
<1>2. call'.children = call.children
  BY DEF Return, IInv, TypeOK
<1>3. Due = {} /\ Due' = Due
  BY <1>1 DEF Books, Tasked, Due
<1>4. Tasked'
  <2> HIDE DEF Due
  <2> QED BY <1>1, <1>2, <1>3, TaskedIs DEF Books, Tasked
<1>5. Receipted' /\ Alone' /\ Logged'
  BY <1>1, ReceiptedStays, AloneStays, LoggedStays DEF Books, Receipted
<1> QED BY <1>4, <1>5 DEF Books

\* A child without outcome, before or after its attempt, has no intent and no receipt.
LEMMA AttemptBooks ==
  ASSUME IInv, Books, NEW c \in Children, Push(c) \/ (\E o \in {"ok", "failed"} : ExitChild(c, o))
  PROVE  /\ Books' /\ Due' = Due /\ log'[Caller] = log[Caller]
         /\ \A d \in Due : integrating'[d] = integrating[d]
         /\ UNCHANGED integrated
         /\ retries = 0 => UNCHANGED integrating
<1>1. /\ UNCHANGED <<call, retries, at, tip, body, done>> /\ live[c] # "no"
      /\ \A d \in Children \ {c} : /\ outcome'[d] = outcome[d] /\ live'[d] = live[d]
                                   /\ integrating'[d] = integrating[d]
                                   /\ integrated'[d] = integrated[d]
  BY ChildrenAreFrames DEF Push, ExitChild, git, bounds, IInv, TypeOK
<1>2. c \notin Due /\ integrated[c] = None /\ (retries = 0 => integrating[c] = None)
  <2>1. c \notin Due
    BY <1>1, NotDue
  <2>2. CASE Push(c)
    <3>1. live[c] = "branched"
      BY <2>2 DEF Push
    <3> QED BY <2>1, <3>1 DEF IInv, Exits, Books, Receipted
  <2>3. CASE \E o \in {"ok", "failed"} : ExitChild(c, o)
    <3>1. live[c] = "running"
      BY <2>3 DEF ExitChild
    <3> QED BY <2>1, <3>1 DEF IInv, Exits, Books, Receipted
  <2> QED BY <2>2, <2>3
<1>3. /\ integrating'[c] = None /\ integrated'[c] = None /\ live'[c] # "branched"
      /\ integrating' \in [Children -> Intents \cup {None}]
      /\ integrated' \in [Children -> Intents \cup {None}]
  <2>1. CASE Push(c)
    BY <2>1, ChildrenAreFrames DEF Push, IInv, TypeOK
  <2>2. CASE \E o \in {"ok", "failed"} : ExitChild(c, o)
    <3>1. live[c] = "running"
      BY <2>2 DEF ExitChild
    <3>2. integrating[c] = None
      BY <3>1 DEF IInv, Exits
    <3> QED BY <1>2, <2>2, <3>2, ChildrenAreFrames DEF ExitChild, IInv, TypeOK
  <2> QED BY <2>1, <2>2
<1>4. log'[Caller] = log[Caller]
  <2>1. CASE Push(c)
    BY <2>1 DEF Push
  <2>2. CASE \E o \in {"ok", "failed"} : ExitChild(c, o)
    <3>1. Note(c, Exited(tip[c]))
      BY <2>2 DEF ExitChild
    <3> QED BY <3>1, ChildrenAreFrames DEF Note, IInv, TypeOK
  <2> QED BY <2>1, <2>2
<1>5. integrated' = integrated /\ (retries = 0 => integrating' = integrating)
  BY <1>1, <1>2, <1>3 DEF IInv, TypeOK
<1>6. Due' = Due
  BY <1>1, <1>2, <1>3 DEF Due
<1>7. Tasked'
  BY <1>1, <1>6, TaskedStays DEF Books
<1>8. Receipted'
  BY <1>1, <1>3, ReceiptedChanges DEF Books
<1>9. Alone'
  BY <1>1, <1>5, AloneStays DEF Books
<1>10. Logged'
  BY <1>1, <1>4, <1>5, LoggedStays DEF Books
<1>11. \A d \in Due : integrating'[d] = integrating[d]
  BY <1>1, <1>2 DEF Due
<1> QED BY <1>4, <1>5, <1>6, <1>7, <1>8, <1>9, <1>10, <1>11 DEF Books

-----------------------------------------------------------------------------
(* The integration of a child. *)

\* The steps that only say where it is.
LEMMA AtBooks ==
  ASSUME Books, UNCHANGED <<integrating, integrated, outcome, call, retries, log, live, body, done>>,
         at'.step \in {"reapply", "intent", "advance", "landed", "fail"} =>
           integrated[at'.child] = None,
         at'.step \in {"reapply", "intent"} => at'.base = tip'[Caller],
         at'.step = "intent" => GrownBy(at'.child, at'.base, at'.cand),
         at'.step = "landed" => at'.cand = tip'[Caller]
  PROVE  Books'
<1>1. Due' = Due
  BY DEF Due
<1>2. Tasked'
  BY <1>1, TaskedStays DEF Books
<1>3. Receipted'
  BY ReceiptedStays DEF Books, Receipted
<1>4. Alone'
  BY AloneIs
<1>5. Logged'
  BY LoggedStays DEF Books
<1> QED BY <1>2, <1>3, <1>4, <1>5 DEF Books

\* Where the integration is.
LEMMA AtTyped ==
  ASSUME IInv
  PROVE  at \in [child : Frames, base : Tips, cand : Tips,
                 step : {"no", "reapply", "intent", "advance", "landed", "receipt",
                         "pop", "fail"}]
BY DEF IInv, TypeOK

\* An integration begins, or finds the intent of an earlier life.
LEMMA StartBooks ==
  ASSUME IInv, Books, NEW c \in Children, StartIntegration(c)
  PROVE  Books'
<1>1. /\ UNCHANGED <<integrating, integrated, outcome, call, retries, log, live, body, done>>
      /\ integrated[c] = None /\ UNCHANGED tip
  BY DEF StartIntegration, IntegrateStays, git, bounds
<1>2. /\ at'.child = c
      /\ \/ at'.step \in {"advance", "fail"}
         \/ at'.step = "reapply" /\ at'.base = tip[Caller]
  BY DEF StartIntegration
<1> QED BY <1>1, <1>2, AtBooks

\* A source reapplied to another tip adds the same commits.
LEMMA GrownByRest ==
  ASSUME NEW c \in Children, NEW b \in Tips, NEW h \in Tips, NEW t \in Tips,
         IsPrefix(b, h), GrownBy(c, b, h), SubSeq(h, Len(b) + 1, Len(h)) \in Tips
  PROVE  GrownBy(c, t, t \o SubSeq(h, Len(b) + 1, Len(h)))
<1> DEFINE r == SubSeq(h, Len(b) + 1, Len(h))
<1>1. /\ Len(b) \in Nat /\ Len(h) \in Nat /\ Len(b) <= Len(h) /\ Len(t) \in Nat
  BY PrefixMeans, LenProperties DEF Tips
<1>2. \A i \in Len(b) + 1 .. Len(h) : h[i] \in Frames \X Nat
  <2>1. \A i \in 1..Len(h) : h[i] \in Frames \X Nat
    BY ElementOfSeq DEF Tips
  <2> QED BY <1>1, <2>1
<1>3. /\ Len(r) = IF Len(b) + 1 <= Len(h) THEN Len(h) - (Len(b) + 1) + 1 ELSE 0
      /\ \A i \in 1 .. Len(h) - (Len(b) + 1) + 1 : r[i] = h[Len(b) + 1 + i - 1]
  BY <1>1, <1>2, SubSeqProperties
<1> HIDE DEF r
<1>4. Len(r) = Len(h) - Len(b) /\ \A i \in 1..Len(r) : r[i] = h[Len(b) + i]
  BY <1>1, <1>3
<1>5. \A i \in 1..Len(r) : r[i][1] = c
  <2> TAKE i \in 1..Len(r)
  <2>1. Len(b) + i \in 1..Len(h) /\ Len(b) + i > Len(b) /\ r[i] = h[Len(b) + i]
    BY <1>1, <1>4
  <2> QED BY <2>1 DEF GrownBy
<1>6. /\ Len(t \o r) = Len(t) + Len(r)
      /\ \A i \in 1..Len(t) + Len(r) :
           (t \o r)[i] = IF i <= Len(t) THEN t[i] ELSE r[i - Len(t)]
  BY ConcatProperties DEF Tips, r
<1>7. ASSUME NEW i \in 1..Len(t \o r), i > Len(t) PROVE (t \o r)[i][1] = c
  <2>1. i - Len(t) \in 1..Len(r) /\ (t \o r)[i] = r[i - Len(t)]
    BY <1>1, <1>4, <1>6, <1>7
  <2> QED BY <1>5, <2>1
<1>8. GrownBy(c, t, t \o r)
  BY <1>7 DEF GrownBy
<1> QED BY <1>8 DEF r

\* The candidate is made from the commits of the child.
LEMMA ReapplyBooks ==
  ASSUME IInv, Own, Books, Reapply
  PROVE  Books'
<1> DEFINE c == at.child
<1>1. /\ UNCHANGED <<integrating, integrated, outcome, call, retries, log, live, body, done>>
      /\ at.step = "reapply" /\ UNCHANGED tip
  BY DEF Reapply, IntegrateStays, bounds
<1>2. integrated[c] = None /\ at.base = tip[Caller]
  BY <1>1 DEF Books, Alone
<1>3. /\ c \in Children /\ outcome[c] = "ok" /\ head[c] \in Tips /\ base[c] \in Tips
      /\ IsPrefix(base[c], head[c]) /\ at.base \in Tips /\ Source(c) \in Tips
  BY <1>1, IntegrationFacts, SourceTyped
<1>4. GrownBy(c, base[c], head[c])
  BY <1>3 DEF Own
<1>5. GrownBy(c, at.base, at.base \o Source(c))
  BY <1>3, <1>4, GrownByRest DEF Source
<1>6. CASE at.base = base[c] /\ at' = [at EXCEPT !.step = "intent", !.cand = head[c]]
  <2>1. at'.child = c /\ at'.base = at.base /\ at'.cand = head[c] /\ at'.step = "intent"
    BY <1>6, AtTyped
  <2> QED BY <1>1, <1>2, <1>4, <1>6, <2>1, AtBooks
<1>7. CASE at' = [at EXCEPT !.step = "intent", !.cand = at.base \o Source(c)]
  <2> DEFINE v == at.base \o Source(c)
  <2>1. at' = [at EXCEPT !.step = "intent", !.cand = v] /\ GrownBy(c, at.base, v)
    BY <1>5, <1>7
  <2> HIDE DEF v
  <2>2. at'.child = c /\ at'.base = at.base /\ at'.cand = v /\ at'.step = "intent"
    BY <2>1, AtTyped
  <2> QED BY <1>1, <1>2, <2>1, <2>2, AtBooks
<1>8. CASE at' = [at EXCEPT !.step = "fail"]
  <2>1. at'.child = c /\ at'.step = "fail"
    BY <1>8, AtTyped
  <2> QED BY <1>1, <1>2, <2>1, AtBooks
<1> QED BY <1>6, <1>7, <1>8 DEF Reapply, Goto

\* The branch is forwarded, or found where it should be.
LEMMA AdvanceBooks ==
  ASSUME IInv, Books, Advance
  PROVE  Books'
<1>1. /\ UNCHANGED <<integrating, integrated, outcome, call, retries, log, live, body, done>>
      /\ at.step = "advance"
  BY DEF Advance, IntegrateStays, bounds
<1>2. integrated[at.child] = None
  BY <1>1 DEF Books, Alone
<1>3. /\ at'.child = at.child /\ at'.step \in {"landed", "fail"} /\ at'.cand = at.cand
      /\ at'.step = "landed" => at.cand = tip'[Caller]
  BY CallerLog, AtTyped DEF Advance, Goto, HasLanded, IInv, TypeOK
<1> QED BY <1>1, <1>2, <1>3, AtBooks

\* The temporary ref is dropped, the paths are claimed.
LEMMA ClaimBooks ==
  ASSUME IInv, Books, Claim
  PROVE  Books'
<1>1. /\ UNCHANGED <<integrating, integrated, outcome, call, retries, log, live, body, done>>
      /\ at'.step = "pop"
  BY AtTyped DEF Claim, Goto, IntegrateStays, bounds
<1> QED BY <1>1, AtBooks

\* What an intent says.
LEMMA IntentFacts ==
  ASSUME IInv, Books, at.step = "intent"
  PROVE  /\ at.child \in Children /\ integrating[at.child] = None /\ integrated[at.child] = None
         /\ at.base = tip[Caller] /\ at.base \in Tips /\ at.cand \in Tips
         /\ IsPrefix(at.base, at.cand) /\ GrownBy(at.child, at.base, at.cand)
         /\ Formed(Integrates(at.base, at.cand)) /\ None # [base |-> at.base, cand |-> at.cand]
<1>1. /\ at.child \in Children /\ at.child # Caller /\ at.base \in Tips /\ at.cand \in Tips
  BY IntegrationFacts, ChildrenAreFrames
<1>2. /\ integrating[at.child] = None /\ integrated[at.child] = None
      /\ at.base = tip[Caller] /\ IsPrefix(at.base, at.cand)
      /\ GrownBy(at.child, at.base, at.cand)
  BY DEF IInv, Landing, Books, Alone
<1>3. Formed(Integrates(at.base, at.cand))
  <2>1. NotCallers(at.base, at.cand)
    BY <1>1, <1>2 DEF NotCallers, GrownBy
  <2> QED BY <1>1, <1>2, <2>1, EntryTypes DEF Formed, Integrates
<1>4. None # [base |-> at.base, cand |-> at.cand]
  BY <1>1, ConstantsAssumption DEF Tips
<1> QED BY <1>1, <1>2, <1>3, <1>4

\* What the note of an intent changes.
LEMMA LogIntentSets ==
  ASSUME IInv, Books, LogIntent
  PROVE  /\ at.step = "intent" /\ at'.step = "advance" /\ at'.child = at.child
         /\ UNCHANGED <<integrated, outcome, call, retries, live, body, done, tip, made>>
         /\ \A d \in Children \ {at.child} : integrating'[d] = integrating[d]
         /\ integrating'[at.child] = [base |-> at.base, cand |-> at.cand]
         /\ Due' = Due \cup {at.child}
         /\ log'[Caller] = Append(log[Caller], Integrates(at.base, at.cand))
<1>1. /\ at.step = "intent" /\ at'.step = "advance" /\ at'.child = at.child
      /\ UNCHANGED <<integrated, outcome, call, retries, live, body, done, tip, made>>
      /\ Note(Caller, Integrates(at.base, at.cand))
  BY AtTyped DEF LogIntent, Goto, IntegrateStays, git, bounds
<1>2. outcome[at.child] = "ok"
  BY <1>1, IntegrationFacts
<1>3. /\ \A d \in Children \ {at.child} : integrating'[d] = integrating[d]
      /\ integrating'[at.child] = [base |-> at.base, cand |-> at.cand]
  BY <1>1, IntentFacts DEF LogIntent, IInv, TypeOK
<1>4. Due' = Due \cup {at.child}
  <2>1. integrating'[at.child] # None
    BY <1>1, <1>3, IntentFacts
  <2> QED BY <1>1, <1>2, <1>3, <2>1, IntentFacts DEF Due
<1>5. log'[Caller] = Append(log[Caller], Integrates(at.base, at.cand))
  BY <1>1, IntentFacts, CallerLog, NoteFacts DEF IInv, Formed
<1> QED BY <1>1, <1>3, <1>4, <1>5

\* The note of an intent is what makes it due.
LEMMA LogIntentBooks ==
  ASSUME IInv, Owners, Books, LogIntent
  PROVE  Books'
<1> DEFINE c == at.child
           x == Integrates(at.base, at.cand)
           k == [base |-> at.base, cand |-> at.cand]
<1>1. /\ at.step = "intent" /\ at'.step = "advance" /\ at'.child = c
      /\ UNCHANGED <<integrated, outcome, call, retries, live, body, done>>
      /\ \A d \in Children \ {c} : integrating'[d] = integrating[d]
      /\ integrating'[c] = k /\ Due' = Due \cup {c} /\ c \in Children
      /\ integrating[c] = None /\ integrated[c] = None
      /\ log'[Caller] = Append(log[Caller], x) /\ Formed(x) /\ k # None
      /\ GrownBy(c, at.base, at.cand)
  BY LogIntentSets, IntentFacts
<1>2. c \in call.children \ done /\ outcome[c] = "ok" /\ live[c] = "no"
  BY <1>1, IntegrationFacts
<1>3. call.open
  BY <1>1 DEF IInv, Running, Owners, Whole
<1>4. Tasked'
  <2> HIDE DEF Due
  <2> QED BY <1>1, <1>2, <1>3, TaskedIs DEF Books, Tasked
<1>5. Receipted'
  BY <1>1, <1>2, ReceiptedChanges DEF Books
<1>6. Alone'
  BY <1>1, AloneIs
<1>7. Logged'
  <2> DEFINE l == log[Caller]
             m == log'[Caller]
  <2>1. l \in Seq(Entries) /\ x \in Entries /\ m = Append(l, x)
    BY <1>1, CallerLog DEF Formed
  <2>2. \A i \in 1..Len(m) : (i \in 1..Len(l) /\ m[i] = l[i]) \/ m[i] = x
    <3> HIDE DEF l, m, x
    <3> QED BY <2>1, NotedEntries
  <2>3. \A i \in 1..Len(l) : Formed(l[i])
    BY DEF Books, Logged
  <2>4. \A i \in 1..Len(m) : Formed(m[i])
    BY <1>1, <2>2, <2>3
  <2>5. IntentOf(x) = k
    BY DEF IntentOf, Integrates
  <2> HIDE DEF x, k
  <2>6. ASSUME retries = 0, NEW i \in 1..Len(m), m[i].type = "integrating"
        PROVE  \E d \in Children : IntentOf(m[i]) \in {integrating'[d], integrated'[d]}
    <3>1. CASE m[i] = x
      BY <1>1, <2>5, <3>1
    <3>2. CASE i \in 1..Len(l) /\ m[i] = l[i]
      <4>1. PICK d \in Children : IntentOf(l[i]) \in {integrating[d], integrated[d]}
        BY <2>6, <3>2 DEF Books, Logged
      <4>2. IntentOf(l[i]) # None
        BY <2>3, <3>2, IntentOfIsOne
      <4>3. IntentOf(l[i]) \in {integrating'[d], integrated'[d]}
        BY <1>1, <4>1, <4>2
      <4> QED BY <3>2, <4>3
    <3> QED BY <2>2, <3>1, <3>2
  <2> QED BY <1>1, <2>4, <2>6, LoggedIs
<1> QED BY <1>4, <1>5, <1>6, <1>7 DEF Books

\* What a receipt says.
LEMMA LogReceiptSets ==
  ASSUME IInv, Books, LogReceipt
  PROVE  /\ at.step = "landed" /\ at'.step = "receipt"
         /\ UNCHANGED <<outcome, call, retries, live, body, done, tip, made>>
         /\ at.child \in Children /\ at.child \in Due /\ integrated[at.child] = None
         /\ integrating[at.child] = [base |-> at.base, cand |-> at.cand]
         /\ \A d \in Children \ {at.child} :
              integrating'[d] = integrating[d] /\ integrated'[d] = integrated[d]
         /\ integrating'[at.child] = None /\ integrated'[at.child] = integrating[at.child]
         /\ Due' = Due \ {at.child}
         /\ log'[Caller] = Append(log[Caller], Integrated(at.base, at.cand))
         /\ Formed(Integrated(at.base, at.cand)) /\ at.cand = tip[Caller]
<1>1. /\ at.step = "landed" /\ at'.step = "receipt"
      /\ UNCHANGED <<outcome, call, retries, live, body, done, tip, made>>
      /\ Note(Caller, Integrated(at.base, at.cand))
  BY AtTyped DEF LogReceipt, Goto, IntegrateStays, git, bounds
<1>2. /\ at.child \in Children /\ at.child # Caller /\ outcome[at.child] = "ok"
      /\ at.base \in Tips /\ at.cand \in Tips
  BY <1>1, IntegrationFacts, ChildrenAreFrames
<1>3. /\ integrating[at.child] = [base |-> at.base, cand |-> at.cand]
      /\ integrated[at.child] = None /\ at.cand = tip[Caller]
  BY <1>1 DEF IInv, Landing, Books, Alone
<1>4. [base |-> at.base, cand |-> at.cand] # None
  BY <1>2, ConstantsAssumption DEF Tips
<1>5. /\ \A d \in Children \ {at.child} :
           integrating'[d] = integrating[d] /\ integrated'[d] = integrated[d]
      /\ integrating'[at.child] = None /\ integrated'[at.child] = integrating[at.child]
  BY <1>2, <1>3 DEF LogReceipt, IInv, TypeOK
<1>6. at.child \in Due /\ Due' = Due \ {at.child}
  BY <1>1, <1>2, <1>3, <1>4, <1>5 DEF Due
<1>7. Formed(Integrated(at.base, at.cand))
  <2>1. IsPrefix(at.base, at.cand) /\ GrownBy(at.child, at.base, at.cand)
    <3>1. integrating[at.child].base = at.base /\ integrating[at.child].cand = at.cand
      BY <1>3
    <3> QED BY <1>2, <1>3, <1>4, <3>1 DEF IInv, Intended, Books, Receipted
  <2>2. NotCallers(at.base, at.cand)
    BY <1>2, <2>1 DEF NotCallers, GrownBy
  <2> QED BY <1>2, <2>1, <2>2, EntryTypes DEF Formed, Integrated
<1>8. log'[Caller] = Append(log[Caller], Integrated(at.base, at.cand))
  BY <1>1, <1>7, CallerLog, NoteFacts DEF IInv, Formed
<1> QED BY <1>1, <1>2, <1>3, <1>5, <1>6, <1>7, <1>8

\* The note of a receipt is what ends an intent.
LEMMA LogReceiptBooks ==
  ASSUME IInv, Books, LogReceipt
  PROVE  Books'
<1> DEFINE c == at.child
<1>1. /\ at'.step = "receipt" /\ UNCHANGED <<outcome, call, retries, live, body, done>>
      /\ c \in Children /\ c \in Due
      /\ \A d \in Children \ {c} :
           integrating'[d] = integrating[d] /\ integrated'[d] = integrated[d]
      /\ integrating'[c] = None /\ integrated'[c] = integrating[c] /\ integrated[c] = None
      /\ Due' = Due \ {c}
  BY LogReceiptSets
<1>2. outcome[c] = "ok" /\ integrating[c] # None
  BY <1>1 DEF Due
<1>3. Tasked'
  BY <1>1, TaskedStays DEF Books
<1>4. Receipted'
  BY <1>1, <1>2, ReceiptedChanges DEF Books, Receipted
<1>5. Alone'
  BY <1>1, AloneIs
<1>6. Logged'
  <2>1. Formed(Integrated(at.base, at.cand)) /\ Integrated(at.base, at.cand).type # "integrating"
        /\ log'[Caller] = Append(log[Caller], Integrated(at.base, at.cand))
    BY LogReceiptSets DEF Integrated
  <2>2. \A d \in Children :
          /\ integrating[d] # None => integrating[d] \in {integrating'[d], integrated'[d]}
          /\ integrated[d] # None => integrated'[d] = integrated[d]
    BY <1>1
  <2> QED BY <1>1, <2>1, <2>2, CallerLog, LoggedNotes DEF Books
<1> QED BY <1>3, <1>4, <1>5, <1>6 DEF Books

\* What is popped is no longer due, and was not at the tip if it is popped as failed.
LEMMA PopSets ==
  ASSUME IInv, Books, Pop
  PROVE  /\ UNCHANGED <<log, integrating, integrated, call, retries, live, body, tip, made>>
         /\ at.child \in Children /\ at'.step = "no" /\ done' = done \cup {at.child}
         /\ \A d \in Children \ {at.child} : outcome'[d] = outcome[d]
         /\ \/ outcome'[at.child] = "ok" /\ outcome[at.child] = "ok"
            \/ outcome'[at.child] = "failed" /\ integrated[at.child] = None
         /\ Due' = Due \ {at.child}
         /\ at.child \in Due => integrating[at.child].cand # tip[Caller]
<1>1. /\ UNCHANGED <<log, integrating, integrated, call, retries, live, body, tip, made>>
      /\ at'.step = "no" /\ done' = done \cup {at.child} /\ at.step \in {"pop", "fail"}
  BY DEF Pop, Idle, git, bounds
<1>2. at.child \in Children /\ outcome[at.child] = "ok"
  BY <1>1, IntegrationFacts
<1>3. /\ \A d \in Children \ {at.child} : outcome'[d] = outcome[d]
      /\ outcome'[at.child] = IF at.step = "pop" THEN "ok" ELSE "failed"
  BY <1>2, ChildrenAreFrames DEF Pop, IInv, TypeOK
<1>4. /\ at.step = "pop" => integrating[at.child] = None
      /\ at.step = "fail" => /\ integrated[at.child] = None
                             /\ \/ integrating[at.child] = None
                                \/ integrating[at.child].cand # tip[Caller]
  BY DEF IInv, Landing, Books, Alone
<1>5. Due' = Due \ {at.child}
  BY <1>1, <1>2, <1>3, <1>4 DEF Due
<1>6. at.child \in Due => integrating[at.child].cand # tip[Caller]
  BY <1>1, <1>4 DEF Due
<1> QED BY <1>1, <1>2, <1>3, <1>4, <1>5, <1>6

\* A child is popped as landed, or as failed without having landed.
LEMMA PopBooks ==
  ASSUME IInv, Books, Pop
  PROVE  Books'
<1> DEFINE c == at.child
<1>1. /\ UNCHANGED <<log, integrating, integrated, call, retries, live, body, tip>>
      /\ c \in Children /\ at'.step = "no" /\ done' = done \cup {c}
      /\ \A d \in Children \ {c} : outcome'[d] = outcome[d]
      /\ \/ outcome'[c] = "ok" /\ outcome[c] = "ok"
         \/ outcome'[c] = "failed" /\ integrated[c] = None
      /\ Due' = Due \ {c} /\ live[c] = "no"
  <2>1. at.step # "no"
    BY DEF Pop
  <2> QED BY <2>1, PopSets, IntegrationFacts
<1>2. Tasked'
  BY <1>1, TaskedStays DEF Books
<1>3. Receipted'
  BY <1>1, ReceiptedChanges DEF Books, Receipted
<1>4. Alone' /\ Logged'
  BY <1>1, AloneStays, LoggedStays DEF Books
<1> QED BY <1>2, <1>3, <1>4 DEF Books

-----------------------------------------------------------------------------
(* The walk, and what is true of its end.                                  *)

\* The intents still to be carried out, and the tips at which children landed.
Pending ==
  {[child |-> c, base |-> integrating[c].base, cand |-> integrating[c].cand] : c \in Due}
Ends == {integrated[c].cand : c \in {d \in Children : integrated[d] # None}}

Watched ==
  \E s \in Places :
    /\ Trails(log[Caller], s)
    /\ Sound(s, log[Caller], tip[Caller], made[Caller], Pending, Ends, retries)

\* What there is to show of Watched after a step: another end of the walk.
LEMMA WatchedIs ==
  ASSUME NEW s \in Places, Trails(log'[Caller], s),
         Sound(s, log'[Caller], tip'[Caller], made'[Caller], Pending', Ends', retries')
  PROVE  Watched'
<1> HIDE DEF Pending, Ends
<1> SUFFICES \E r \in Places :
               /\ Trails(log'[Caller], r)
               /\ Sound(r, log'[Caller], tip'[Caller], made'[Caller], Pending', Ends', retries')
  BY Zenon DEF Watched, Caller
<1> QED OBVIOUS

\* The lemmas on Sound apply.
LEMMA GivenHolds ==
  ASSUME IInv, Books
  PROVE  Given(log[Caller], tip[Caller], made[Caller], Pending, Ends)
<1>1. \A i \in 1..Len(log[Caller]) : Formed(log[Caller][i])
  BY DEF Books, Logged
<1>2. made[Caller] \in Nat
  BY CallerLog DEF IInv, TypeOK
<1>3. ASSUME NEW c \in Due
      PROVE  /\ c \in Children /\ integrating[c].base \in Tips /\ integrating[c].cand \in Tips
             /\ IsPrefix(integrating[c].base, integrating[c].cand)
             /\ GrownBy(c, integrating[c].base, integrating[c].cand)
  <2>1. c \in Children /\ integrating[c] # None
    BY DEF Due
  <2>2. integrating[c] \in Intents
    BY <2>1 DEF IInv, TypeOK
  <2> QED BY <2>1, <2>2 DEF Intents, IInv, Intended, Books, Receipted
<1>4. Pending \subseteq Dues
  BY <1>3 DEF Pending, Dues
<1>5. \A d \in Pending : IsPrefix(d.base, d.cand) /\ GrownBy(d.child, d.base, d.cand)
  BY <1>3 DEF Pending
<1>6. \A d, e \in Pending : d.child = e.child => d = e
  BY DEF Pending
<1>7. Ends \subseteq Tips
  <2>1. ASSUME NEW c \in Children, integrated[c] # None PROVE integrated[c].cand \in Tips
    <3>1. integrated[c] \in Intents
      BY <2>1 DEF IInv, TypeOK
    <3> QED BY <3>1 DEF Intents
  <2> QED BY <2>1 DEF Ends
<1> HIDE DEF Pending, Ends
<1> QED BY <1>1, <1>2, <1>4, <1>5, <1>6, <1>7, CallerLog, CallerTip DEF Given

\* A step that changes nothing the walk depends on.
LEMMA WatchedStays ==
  ASSUME Watched, log'[Caller] = log[Caller], tip'[Caller] = tip[Caller],
         made'[Caller] = made[Caller], Due' = Due,
         \A c \in Due : integrating'[c] = integrating[c],
         UNCHANGED <<integrated, retries>>
  PROVE  Watched'
<1>1. Pending' = Pending
  <2> HIDE DEF Due
  <2> QED BY DEF Pending
<1>2. Ends' = Ends
  BY DEF Ends
<1>3. PICK s \in Places :
        /\ Trails(log[Caller], s)
        /\ Sound(s, log[Caller], tip[Caller], made[Caller], Pending, Ends, retries)
  BY DEF Watched
<1> HIDE DEF Pending, Ends, Due
<1> QED BY <1>1, <1>2, <1>3, WatchedIs

\* A call names the tip: the walk goes there, or waits for a receipt.
LEMMA WatchedCalls ==
  ASSUME IInv, Books, Watched,
         \/ Observe \/ (\E parallel \in BOOLEAN : CallDispatch(parallel))
         \/ (\E c \in Children : CallRetry(c))
  PROVE  Watched'
<1> DEFINE t == tip[Caller]
           x == Called(t)
<1>1. /\ UNCHANGED <<integrating, integrated, outcome, tip, made>> /\ ~call.open
      /\ Note(Caller, x)
  <2> HIDE DEF x
  <2>1. CASE Observe
    BY <2>1 DEF Observe, git, bounds, x
  <2>2. ASSUME NEW parallel \in BOOLEAN, CallDispatch(parallel)
        PROVE  /\ UNCHANGED <<integrating, integrated, outcome, tip, made>> /\ ~call.open
               /\ Note(Caller, x)
    <3>1. call = NoCall /\ UNCHANGED <<integrating, integrated, outcome, tip, made>>
          /\ Note(Caller, x)
      BY <2>2 DEF CallDispatch, git, bounds, x
    <3> QED BY <3>1 DEF NoCall
  <2>3. CASE \E c \in Children : CallRetry(c)
    BY <2>3 DEF CallRetry, git, x
  <2> QED BY <2>1, <2>2, <2>3
<1>2. Due = {} /\ Due' = {}
  BY <1>1, NotDue DEF Due
<1>3. Pending = {} /\ Pending' = {}
  <2> HIDE DEF Due
  <2> QED BY <1>2 DEF Pending
<1>4. Ends' = Ends
  BY <1>1 DEF Ends
<1>5. PICK s \in Places :
        /\ Trails(log[Caller], s)
        /\ Sound(s, log[Caller], t, made[Caller], Pending, Ends, retries)
  BY DEF Watched
<1>6. Given(log[Caller], t, made[Caller], Pending, Ends)
  BY GivenHolds
<1> HIDE DEF Pending, Ends, Due
<1>7. /\ Formed(x)
      /\ Sound(Step(s, x), Append(log[Caller], x), t, made[Caller], {}, Ends, retries')
  BY <1>3, <1>5, <1>6, SoundCall, Zenon
<1> HIDE DEF x
<1>8. log'[Caller] = Append(log[Caller], x)
  BY <1>1, <1>7, CallerLog, NoteFacts DEF IInv, Formed
<1>9. Step(s, x) \in Places /\ Trails(Append(log[Caller], x), Step(s, x))
  BY <1>5, <1>7, CallerLog, StepMovesOn, TrailGoesOn
<1> QED BY <1>1, <1>3, <1>4, <1>7, <1>8, <1>9, WatchedIs

\* The caller commits; a child that does so changes nothing here.
LEMMA WatchedCommit ==
  ASSUME IInv, Books, Watched, NEW f \in Frames, WorkerCommits(f)
  PROVE  Watched'
<1>1. /\ UNCHANGED <<log, integrating, integrated, outcome, retries>>
      /\ tip' = [tip EXCEPT ![f] = Append(@, <<f, made[f]>>)]
      /\ made' = [made EXCEPT ![f] = @ + 1]
  BY DEF WorkerCommits, durable
<1>2. Due' = Due
  BY <1>1 DEF Due
<1>3. CASE f # Caller
  <2>1. tip'[Caller] = tip[Caller] /\ made'[Caller] = made[Caller]
    BY <1>1, <1>3, CallerLog DEF IInv, TypeOK
  <2> QED BY <1>1, <1>2, <2>1, WatchedStays
<1>4. CASE f = Caller
  <2>1. /\ tip'[Caller] = Append(tip[Caller], <<Caller, made[Caller]>>)
        /\ made'[Caller] = made[Caller] + 1
    BY <1>1, <1>4, CallerLog DEF IInv, TypeOK
  <2>2. Pending' = Pending /\ Ends' = Ends
    <3>1. Ends' = Ends
      BY <1>1 DEF Ends
    <3> HIDE DEF Due
    <3> QED BY <1>1, <1>2, <3>1 DEF Pending
  <2>3. PICK s \in Places :
          /\ Trails(log[Caller], s)
          /\ Sound(s, log[Caller], tip[Caller], made[Caller], Pending, Ends, retries)
    BY DEF Watched
  <2>4. Given(log[Caller], tip[Caller], made[Caller], Pending, Ends)
    BY GivenHolds
  <2> HIDE DEF Pending, Ends, Due
  <2>5. Sound(s, log[Caller], Append(tip[Caller], <<Caller, made[Caller]>>),
              made[Caller] + 1, Pending, Ends, retries)
    BY <2>3, <2>4, SoundCommit, Zenon
  <2> QED BY <1>1, <2>1, <2>2, <2>3, <2>5, WatchedIs
<1> QED BY <1>3, <1>4

\* What the walk is, is what the guard finds.
LEMMA WalkEnds ==
  ASSUME IInv, Books, NEW s \in Places, Trails(log[Caller], s),
         Sound(s, log[Caller], tip[Caller], made[Caller], Pending, Ends, retries)
  PROVE  /\ Walked(Caller) = s
         /\ ExpectedTip(Caller) = IF s.pending = None THEN s.tip ELSE s.pending.tip
<1>1. \A i \in 1..Len(log[Caller]) : Formed(log[Caller][i])
  BY DEF Books, Logged
<1>2. base[Caller] = <<>> /\ TypeOK
  BY DEF IInv, Based
<1>3. IsPrefix(s.tip, tip[Caller])
  BY DEF Sound
<1>4. Walked(Caller) = s
  BY <1>1, <1>2, <1>3, CallerTip, TrailIsWalked
<1> QED BY <1>4 DEF ExpectedTip

\* An operator puts the branch of the caller where the walk expects it.
LEMMA WatchedReset ==
  ASSUME IInv, Books, Watched, NEW f \in Frames, OperatorResets(f)
  PROVE  Watched'
<1>1. /\ UNCHANGED <<log, integrating, integrated, outcome, retries, made>>
      /\ tip' = [tip EXCEPT ![f] = ExpectedTip(f)]
      /\ \A c \in Children :
           f = Caller /\ integrated[c] # None => IsPrefix(integrated[c].cand, ExpectedTip(f))
  BY DEF OperatorResets, durable, bounds
<1>2. Due' = Due
  BY <1>1 DEF Due
<1>3. CASE f # Caller
  <2>1. tip'[Caller] = tip[Caller]
    BY <1>1, <1>3, CallerLog DEF IInv, TypeOK
  <2> QED BY <1>1, <1>2, <2>1, WatchedStays
<1>4. CASE f = Caller
  <2>1. tip'[Caller] = ExpectedTip(Caller)
    BY <1>1, <1>4, CallerLog DEF IInv, TypeOK
  <2>2. Pending' = Pending /\ Ends' = Ends
    <3>1. Ends' = Ends
      BY <1>1 DEF Ends
    <3> HIDE DEF Due
    <3> QED BY <1>1, <1>2, <3>1 DEF Pending
  <2>3. PICK s \in Places :
          /\ Trails(log[Caller], s)
          /\ Sound(s, log[Caller], tip[Caller], made[Caller], Pending, Ends, retries)
    BY DEF Watched
  <2>4. Given(log[Caller], tip[Caller], made[Caller], Pending, Ends)
    BY GivenHolds
  <2> DEFINE u == ExpectedTip(Caller)
  <2>5. u = IF s.pending = None THEN s.tip ELSE s.pending.tip
    BY <2>3, WalkEnds
  <2>6. \A r \in Ends : IsPrefix(r, u)
    BY <1>1, <1>4 DEF Ends
  <2>7. ASSUME retries = 0, s.pending # None
        PROVE  \E c \in Children :
                 /\ GrownBy(c, s.pending.base, s.pending.tip)
                 /\ \A d \in Pending : d.child = c => d.cand = s.pending.tip
    <3>1. PICK i \in 1..Len(log[Caller]) : log[Caller][i] = s.pending
      BY <2>3, <2>7 DEF Sound, Open
    <3>2. s.pending.type = "integrating"
      BY <2>7 DEF Places
    <3>3. Formed(s.pending)
      BY <3>1 DEF Books, Logged
    <3>4. PICK c \in Children : IntentOf(s.pending) \in {integrating[c], integrated[c]}
      BY <2>7, <3>1, <3>2 DEF Books, Logged
    <3>5. /\ IntentOf(s.pending) # None
          /\ IntentOf(s.pending).base = s.pending.base
          /\ IntentOf(s.pending).cand = s.pending.tip
      BY <3>3, IntentOfIsOne DEF IntentOf
    <3>6. GrownBy(c, s.pending.base, s.pending.tip)
      BY <3>4, <3>5 DEF Books, Receipted
    <3>7. ASSUME NEW d \in Pending, d.child = c PROVE d.cand = s.pending.tip
      <4>1. c \in Due /\ d.cand = integrating[c].cand
        BY <3>7 DEF Pending
      <4>2. integrating[c] # None
        BY <4>1 DEF Due
      <4>3. integrated[c] = None
        BY <4>2 DEF Books, Receipted
      <4> QED BY <3>4, <3>5, <4>1, <4>3
    <3> QED BY <3>6, <3>7
  <2> HIDE DEF Pending, Ends, Due, u
  <2>8. Sound(s, log[Caller], u, made[Caller], Pending, Ends, retries)
    BY <2>3, <2>4, <2>5, <2>6, <2>7, SoundReset, Zenon
  <2> QED BY <1>1, <2>1, <2>2, <2>3, <2>8, WatchedIs DEF u
<1> QED BY <1>3, <1>4

\* An intent takes the walk to its base, or waits behind another one.
LEMMA WatchedIntent ==
  ASSUME IInv, Books, Watched, LogIntent
  PROVE  Watched'
<1> DEFINE t == tip[Caller]
           v == at.cand
           x == Integrates(t, v)
           d == [child |-> at.child, base |-> t, cand |-> v]
<1>1. /\ UNCHANGED <<integrated, retries, tip, made>>
      /\ \A c \in Children \ {at.child} : integrating'[c] = integrating[c]
      /\ integrating'[at.child] = [base |-> at.base, cand |-> v]
      /\ Due' = Due \cup {at.child} /\ log'[Caller] = Append(log[Caller], Integrates(at.base, v))
      /\ at.step = "intent"
  BY LogIntentSets
<1>2. /\ at.child \in Children /\ integrating[at.child] = None /\ at.base = t
      /\ v \in Tips /\ Formed(x)
  BY <1>1, IntentFacts
<1>3. Pending' = Pending \cup {d}
  <2>1. Due \subseteq Children \ {at.child}
    BY <1>2 DEF Due
  <2>2. Pending' = {[child |-> c, base |-> integrating'[c].base, cand |-> integrating'[c].cand]
                      : c \in Due \cup {at.child}}
    <3> HIDE DEF Due
    <3> QED BY <1>1 DEF Pending
  <2>3. integrating'[at.child].base = t /\ integrating'[at.child].cand = v
    BY <1>1, <1>2
  <2> HIDE DEF Due, t, v
  <2> QED BY <1>1, <2>1, <2>2, <2>3 DEF Pending
<1>4. Ends' = Ends
  BY <1>1 DEF Ends
<1>5. PICK s \in Places :
        /\ Trails(log[Caller], s)
        /\ Sound(s, log[Caller], t, made[Caller], Pending, Ends, retries)
  BY DEF Watched
<1>6. Given(log[Caller], t, made[Caller], Pending, Ends)
  BY GivenHolds
<1>7. d.base = t /\ d.cand = v
  OBVIOUS
<1> HIDE DEF Pending, Ends, Due, d
<1>8. Sound(Step(s, x), Append(log[Caller], x), t, made[Caller], Pending \cup {d}, Ends, retries)
  BY <1>2, <1>5, <1>6, <1>7, SoundIntent, Zenon
<1>9. Step(s, x) \in Places /\ Trails(Append(log[Caller], x), Step(s, x))
  <2> HIDE DEF x
  <2> QED BY <1>2, <1>5, CallerLog, StepMovesOn, TrailGoesOn
<1>10. log'[Caller] = Append(log[Caller], x)
  BY <1>1, <1>2
<1> HIDE DEF x
<1> QED BY <1>1, <1>3, <1>4, <1>8, <1>9, <1>10, WatchedIs

\* The branch goes to the candidate, which the walk does not know yet.
LEMMA WatchedAdvance ==
  ASSUME IInv, Books, Watched, Advance
  PROVE  Watched'
<1>1. /\ UNCHANGED <<log, integrating, integrated, outcome, retries, made>> /\ at.step = "advance"
      /\ \/ tip' = tip
         \/ ~HasLanded /\ tip[Caller] = at.base /\ tip' = [tip EXCEPT ![Caller] = at.cand]
  BY DEF Advance, IntegrateStays, bounds
<1>2. Due' = Due
  BY <1>1 DEF Due
<1>3. CASE tip' = tip
  BY <1>1, <1>2, <1>3, WatchedStays
<1>4. CASE ~HasLanded /\ tip[Caller] = at.base /\ tip' = [tip EXCEPT ![Caller] = at.cand]
  <2> DEFINE d == [child |-> at.child, base |-> at.base, cand |-> at.cand]
  <2>1. tip'[Caller] = at.cand /\ at.cand # tip[Caller]
    BY <1>4, CallerLog DEF HasLanded, IInv, TypeOK
  <2>2. at.child \in Due /\ integrating[at.child] = [base |-> at.base, cand |-> at.cand]
    <3>1. /\ integrating[at.child] = [base |-> at.base, cand |-> at.cand]
          /\ outcome[at.child] = "ok" /\ at.child \in Children
          /\ at.base \in Tips /\ at.cand \in Tips
      BY <1>1, IntegrationFacts DEF IInv, Landing
    <3>2. [base |-> at.base, cand |-> at.cand] # None
      BY <3>1, ConstantsAssumption DEF Tips
    <3> QED BY <3>1, <3>2 DEF Due
  <2>3. d \in Pending
    <3>1. integrating[at.child].base = at.base /\ integrating[at.child].cand = at.cand
      BY <2>2
    <3> HIDE DEF Due
    <3> QED BY <2>2, <3>1 DEF Pending
  <2>4. Pending' = Pending /\ Ends' = Ends
    <3>1. Ends' = Ends
      BY <1>1 DEF Ends
    <3> HIDE DEF Due
    <3> QED BY <1>1, <1>2, <3>1 DEF Pending
  <2>5. PICK s \in Places :
          /\ Trails(log[Caller], s)
          /\ Sound(s, log[Caller], tip[Caller], made[Caller], Pending, Ends, retries)
    BY DEF Watched
  <2>6. Given(log[Caller], tip[Caller], made[Caller], Pending, Ends)
    BY GivenHolds
  <2>7. d.base = tip[Caller] /\ d.cand = at.cand /\ d.cand # tip[Caller]
    BY <1>4, <2>1
  <2> HIDE DEF Pending, Ends, Due, d
  <2>8. Sound(s, log[Caller], d.cand, made[Caller], Pending, Ends, retries)
    BY <2>3, <2>5, <2>6, <2>7, SoundAdvance, Zenon
  <2> QED BY <1>1, <2>1, <2>4, <2>5, <2>7, <2>8, WatchedIs
<1> QED BY <1>1, <1>3, <1>4

\* The receipt takes the walk to the candidate.
LEMMA WatchedReceipt ==
  ASSUME IInv, Books, Watched, LogReceipt
  PROVE  Watched'
<1> DEFINE t == tip[Caller]
           x == Integrated(at.base, t)
           d == [child |-> at.child, base |-> at.base, cand |-> t]
<1>1. /\ UNCHANGED <<retries, tip, made>> /\ at.child \in Children /\ at.child \in Due
      /\ integrating[at.child] = [base |-> at.base, cand |-> at.cand] /\ at.cand = t
      /\ \A c \in Children \ {at.child} :
           integrating'[c] = integrating[c] /\ integrated'[c] = integrated[c]
      /\ integrated'[at.child] = integrating[at.child] /\ integrated[at.child] = None
      /\ Due' = Due \ {at.child} /\ log'[Caller] = Append(log[Caller], x) /\ Formed(x)
  BY LogReceiptSets
<1>2. integrating[at.child].base = at.base /\ integrating[at.child].cand = t
      /\ integrating[at.child] # None
  BY <1>1 DEF Due
<1>3. d \in Pending /\ Pending' = Pending \ {d}
  <2>1. Due \subseteq Children
    BY DEF Due
  <2> HIDE DEF Due
  <2>2. d \in Pending
    BY <1>1, <1>2 DEF Pending
  <2>3. Pending' = {[child |-> c, base |-> integrating'[c].base, cand |-> integrating'[c].cand]
                      : c \in Due \ {at.child}}
    BY <1>1 DEF Pending
  <2> HIDE DEF t
  <2>4. Pending' = Pending \ {d}
    BY <1>1, <1>2, <2>1, <2>3 DEF Pending
  <2> QED BY <2>2, <2>4
<1>4. Ends' = Ends \cup {t}
  BY <1>1, <1>2 DEF Ends
<1>5. PICK s \in Places :
        /\ Trails(log[Caller], s)
        /\ Sound(s, log[Caller], t, made[Caller], Pending, Ends, retries)
  BY DEF Watched
<1>6. Given(log[Caller], t, made[Caller], Pending, Ends)
  BY GivenHolds
<1>7. d.base = at.base /\ d.cand = t
  OBVIOUS
<1>8. retries # 0 => Pending \subseteq {d}
  <2> SUFFICES ASSUME retries # 0 PROVE Pending \subseteq {d}
    OBVIOUS
  <2>1. Due \subseteq {at.child}
    <3>1. PICK c \in Children : call.children = {c}
      BY DEF Books, Tasked
    <3>2. \A e \in Due : e = c
      BY <3>1 DEF Books, Tasked
    <3> QED BY <1>1, <3>2
  <2> HIDE DEF Due
  <2> QED BY <1>1, <1>2, <2>1 DEF Pending
<1> HIDE DEF Pending, Ends, Due, d
<1>9. Sound(Step(s, x), Append(log[Caller], x), t, made[Caller], Pending \ {d}, Ends \cup {t},
            retries)
  BY <1>1, <1>3, <1>5, <1>6, <1>7, <1>8, SoundReceipt, Zenon
<1>10. Step(s, x) \in Places /\ Trails(Append(log[Caller], x), Step(s, x))
  <2> HIDE DEF x
  <2> QED BY <1>1, <1>5, CallerLog, StepMovesOn, TrailGoesOn
<1> HIDE DEF x
<1> QED BY <1>1, <1>3, <1>4, <1>9, <1>10, WatchedIs

\* An intent that was refused is no longer due; the walk goes on waiting for it.
LEMMA WatchedPop ==
  ASSUME IInv, Books, Watched, Pop
  PROVE  Watched'
<1>1. /\ UNCHANGED <<log, integrating, integrated, retries, tip, made>>
      /\ Due' = Due \ {at.child} /\ at.child \in Children
      /\ at.child \in Due => integrating[at.child].cand # tip[Caller]
  BY PopSets
<1>2. /\ Pending' \subseteq Pending
      /\ \A d \in Pending : d \in Pending' \/ d.cand # tip[Caller]
  <2> HIDE DEF Due
  <2>1. Pending' = {[child |-> c, base |-> integrating[c].base, cand |-> integrating[c].cand]
                      : c \in Due \ {at.child}}
    BY <1>1 DEF Pending
  <2> QED BY <1>1, <2>1 DEF Pending
<1>3. Ends' = Ends
  BY <1>1 DEF Ends
<1>4. PICK s \in Places :
        /\ Trails(log[Caller], s)
        /\ Sound(s, log[Caller], tip[Caller], made[Caller], Pending, Ends, retries)
  BY DEF Watched
<1> HIDE DEF Pending, Ends, Due
<1>5. Sound(s, log[Caller], tip[Caller], made[Caller], Pending', Ends, retries)
  BY <1>2, <1>4, SoundFewer, Zenon
<1> QED BY <1>1, <1>3, <1>4, <1>5, WatchedIs

-----------------------------------------------------------------------------
\* Nothing is noted yet.
LEMMA InitWatched == Init => Books /\ Watched
<1> SUFFICES ASSUME Init PROVE Books /\ Watched
  OBVIOUS
<1>1. /\ \A c \in Children : /\ integrating[c] = None /\ integrated[c] = None
                             /\ outcome[c] = "none" /\ live[c] # "branched"
      /\ log[Caller] = <<>> /\ tip[Caller] = <<>> /\ retries = 0 /\ at.step = "no"
      /\ made[Caller] = 0
  BY ChildrenAreFrames DEF Init, Idle
<1>2. Len(<<>>) = 0
  OBVIOUS
<1>3. Due = {}
  BY <1>1 DEF Due
<1>4. Books
  BY <1>1, <1>2, <1>3 DEF Books, Tasked, Receipted, Alone, Logged
<1>5. Pending = {}
  <2> HIDE DEF Due
  <2> QED BY <1>3 DEF Pending
<1>6. Watched
  <2> DEFINE s == [tip |-> <<>>, pending |-> None]
  <2>1. s \in Places
    BY EmptyTip DEF Places
  <2>2. Trails(<<>>, s) /\ Sound(s, <<>>, <<>>, 0, {}, Ends, 0)
    BY TrailBegins, SoundBegins
  <2> HIDE DEF s, Ends, Pending
  <2> QED BY <1>1, <1>5, <2>1, <2>2 DEF Watched
<1> QED BY <1>4, <1>6

\* Each step with its own lemma.
LEMMA NextWatched == IInv /\ Owners /\ Books /\ Watched /\ [Next]_vars => Books' /\ Watched'
<1> SUFFICES ASSUME IInv, Owners, Books, Watched, [Next]_vars PROVE Books' /\ Watched'
  OBVIOUS
<1>1. CASE \/ UNCHANGED vars \/ ReplayCall \/ EnterBody \/ EndFailing \/ Crash \/ Restart
           \/ Relaunch
  <2>1. UNCHANGED <<log, integrating, integrated, outcome, retries, tip, made>>
    BY <1>1 DEF ReplayCall, EnterBody, EndFailing, Crash, Restart, Relaunch, vars, durable,
       git, bounds
  <2>2. Due' = Due
    BY <2>1 DEF Due
  <2> QED BY <1>1, <2>1, <2>2, QuietBooksSteps, WatchedStays
<1>2. ASSUME NEW f \in Frames, WorkerCommits(f) \/ ParkRun(f) \/ OperatorResets(f)
      PROVE  Books' /\ Watched'
  <2>1. Books'
    BY <1>2, QuietBooksSteps
  <2>2. CASE ParkRun(f)
    <3>1. UNCHANGED <<log, integrating, integrated, outcome, retries, tip, made>>
      BY <2>2 DEF ParkRun, git, bounds
    <3>2. Due' = Due
      BY <3>1 DEF Due
    <3> QED BY <2>1, <3>1, <3>2, WatchedStays
  <2> QED BY <1>2, <2>1, <2>2, WatchedCommit, WatchedReset
<1>3. ASSUME NEW c \in Children,
             \/ Branch(c) \/ RejectBranch(c) \/ Reopen(c) \/ BlockChild(c) \/ UnwindChild(c)
             \/ FinishFailed(c) \/ FinishIntegrated(c)
      PROVE  Books' /\ Watched'
  <2>1. Books'
    BY <1>3, QuietBooksSteps
  <2>2. UNCHANGED <<log, integrating, integrated, outcome, retries, made>>
    BY <1>3 DEF Branch, RejectBranch, Reopen, BlockChild, UnwindChild, FinishFailed,
       FinishIntegrated, durable, bounds
  <2>3. tip'[Caller] = tip[Caller]
    BY <1>3, ChildrenAreFrames DEF Branch, RejectBranch, Reopen, BlockChild, UnwindChild,
       FinishFailed, FinishIntegrated, git, IInv, TypeOK
  <2>4. Due' = Due
    BY <2>2 DEF Due
  <2> QED BY <2>1, <2>2, <2>3, <2>4, WatchedStays
<1>4. CASE \/ Observe \/ (\E parallel \in BOOLEAN : CallDispatch(parallel))
           \/ (\E c \in Children : CallRetry(c))
  BY <1>4, CallBooksSteps, WatchedCalls
<1>5. CASE Return
  <2>1. UNCHANGED <<log, integrating, integrated, outcome, retries, tip, made>>
    BY <1>5 DEF Return, git, bounds
  <2>2. Due' = Due
    BY <2>1 DEF Due
  <2> QED BY <1>5, <2>1, <2>2, ReturnBooks, WatchedStays
<1>6. ASSUME NEW c \in Children, Push(c) \/ (\E o \in {"ok", "failed"} : ExitChild(c, o))
      PROVE  Books' /\ Watched'
  <2>1. UNCHANGED <<retries, tip, made>>
    BY <1>6 DEF Push, ExitChild, git, bounds
  <2> QED BY <1>6, <2>1, AttemptBooks, WatchedStays
<1>7. ASSUME NEW c \in Children, StartIntegration(c) PROVE Books' /\ Watched'
  <2>1. UNCHANGED <<log, integrating, integrated, outcome, retries, tip, made>>
    BY <1>7 DEF StartIntegration, IntegrateStays, git, bounds
  <2>2. Due' = Due
    BY <2>1 DEF Due
  <2> QED BY <1>7, <2>1, <2>2, StartBooks, WatchedStays
<1>8. CASE Reapply \/ Claim
  <2>1. UNCHANGED <<log, integrating, integrated, outcome, retries, tip, made>>
    BY <1>8 DEF Reapply, Claim, IntegrateStays, bounds
  <2>2. Due' = Due
    BY <2>1 DEF Due
  <2>3. Books'
    BY <1>8, ReapplyBooks, ClaimBooks DEF Owners
  <2> QED BY <2>1, <2>2, <2>3, WatchedStays
<1>9. CASE LogIntent
  BY <1>9, LogIntentBooks, WatchedIntent
<1>10. CASE Advance \/ LogReceipt \/ Pop
  BY <1>10, AdvanceBooks, LogReceiptBooks, PopBooks, WatchedAdvance, WatchedReceipt, WatchedPop
<1> QED BY <1>1, <1>2, <1>3, <1>4, <1>5, <1>6, <1>7, <1>8, <1>9, <1>10, Zenon
        DEF Next, ChildStep, Integrate

-----------------------------------------------------------------------------
(* The guard. *)

\* A parked caller does not run, so its log stays as it is.
Parks ==
  blocked[Caller] # None =>
    live[Caller] = "no" /\ (blocked[Caller] \in Observed(Caller) => Abandoned(Caller))

\* The log of the caller as a function.
LEMMA CallerLogFacts ==
  ASSUME IInv
  PROVE  /\ Len(log[Caller]) \in Nat /\ DOMAIN log[Caller] = 1..Len(log[Caller])
         /\ \A i \in 1..Len(log[Caller]) : log[Caller][i] \in Entries
BY ChildrenAreFrames, LogTypes DEF IInv

\* A guard that parks at an observed tip has met an intent without receipt.
LEMMA ParkIsJust ==
  ASSUME IInv, Books, Watched, ~Explained(Caller), tip[Caller] \in Observed(Caller)
  PROVE  Abandoned(Caller)
<1> DEFINE l == log[Caller]
           t == tip[Caller]
<1>1. PICK s \in Places :
        /\ Trails(l, s) /\ Sound(s, l, t, made[Caller], Pending, Ends, retries)
  BY DEF Watched
<1>2. Given(l, t, made[Caller], Pending, Ends)
  BY GivenHolds
<1>3. PICK i \in 1..Len(l) : l[i].type \in {"called", "integrated"} /\ l[i].tip = t
  BY CallerLogFacts DEF Observed, ToSet
<1> SUFFICES ASSUME ~Abandoned(Caller) PROVE FALSE
  OBVIOUS
<1>4. \A j \in 1..Len(l) : l[j].type = "integrating" => ~Open(l[j], l)
  <2> SUFFICES ASSUME NEW j \in 1..Len(l), l[j].type = "integrating", Open(l[j], l)
               PROVE  FALSE
    OBVIOUS
  <2>1. PICK k \in 1..Len(l) :
          l[k] = l[j] /\ \A n \in k + 1 .. Len(l) : l[n] # Integrated(l[j].base, l[j].tip)
    BY DEF Open
  <2> QED BY <2>1, CallerLogFacts DEF Abandoned
<1>5. Walked(Caller) = s
  BY <1>1, WalkEnds
<1> HIDE DEF l, Pending, Ends
<1>6. s = [tip |-> t, pending |-> None]
  BY <1>1, <1>2, <1>3, <1>4, SoundNames
<1> QED BY <1>5, <1>6 DEF Explained

\* A parked caller stays parked with the same log, or runs again.
LEMMA ParksStay ==
  ASSUME Parks,
         \/ blocked'[Caller] = None
         \/ /\ blocked'[Caller] = blocked[Caller]
            /\ live[Caller] = "no" => live'[Caller] = "no" /\ log'[Caller] = log[Caller]
  PROVE  Parks'
<1> SUFFICES ASSUME blocked'[Caller] # None
             PROVE  /\ live'[Caller] = "no"
                    /\ blocked'[Caller] \in Observed(Caller)' => Abandoned(Caller)'
  BY Zenon DEF Parks
<1>1. /\ blocked'[Caller] = blocked[Caller] /\ live[Caller] = "no"
      /\ live'[Caller] = "no" /\ log'[Caller] = log[Caller]
  BY DEF Parks
<1>2. Observed(Caller)' = Observed(Caller)
  BY <1>1 DEF Observed
<1>3. Abandoned(Caller)' = Abandoned(Caller)
  BY <1>1 DEF Abandoned
<1> QED BY <1>1, <1>2, <1>3 DEF Parks

\* Only the guard parks a frame.
LEMMA NextParks == IInv /\ Books /\ Watched /\ Parks /\ [Next]_vars => Parks'
<1> SUFFICES ASSUME IInv, Books, Watched, Parks, [Next]_vars PROVE Parks'
  OBVIOUS
<1>1. CASE UNCHANGED vars \/ ReplayCall \/ EnterBody \/ EndFailing \/ Return
  <2>1. UNCHANGED <<blocked, live, log>>
    BY <1>1 DEF ReplayCall, EnterBody, EndFailing, Return, vars, durable, memory
  <2> QED BY <2>1, ParksStay
<1>2. CASE Crash \/ Restart \/ Relaunch
  <2>1. log' = log /\ (blocked' = blocked \/ blocked'[Caller] = None)
    BY <1>2, CallerLog DEF Crash, Restart, Relaunch, durable, IInv, TypeOK
  <2>2. blocked' = blocked /\ live[Caller] = "no" =>
         live'[Caller] = "no" \/ blocked'[Caller] = None
    BY <1>2, CallerLog DEF Crash, Restart, Relaunch, IInv, TypeOK
  <2> QED BY <2>1, <2>2, ParksStay
<1>3. CASE \/ Observe \/ (\E parallel \in BOOLEAN : CallDispatch(parallel))
           \/ (\E c \in Children : CallRetry(c))
  <2>1. live[Caller] = "running" /\ blocked' = blocked
    BY <1>3 DEF Observe, CallDispatch, CallRetry, MayCall
  <2> QED BY <2>1, ParksStay
<1>4. ASSUME NEW f \in Frames, WorkerCommits(f) \/ OperatorResets(f) PROVE Parks'
  <2>1. UNCHANGED <<blocked, live, log>>
    BY <1>4 DEF WorkerCommits, OperatorResets, durable, memory
  <2> QED BY <2>1, ParksStay
<1>5. ASSUME NEW f \in Frames, ParkRun(f) PROVE Parks'
  <2>1. /\ UNCHANGED <<live, log>> /\ live[Caller] = "no"
        /\ blocked' = [blocked EXCEPT ![f] = tip[f]]
        /\ f \in Parked \/ (f = Caller /\ ~Explained(f))
    BY <1>5 DEF ParkRun, memory
  <2>2. CASE f # Caller
    <3>1. blocked'[Caller] = blocked[Caller]
      BY <2>1, <2>2, CallerLog DEF IInv, TypeOK
    <3> QED BY <2>1, <3>1, ParksStay
  <2>3. CASE f = Caller
    <3>1. blocked'[Caller] = tip[Caller] /\ ~Explained(Caller)
      BY <2>1, <2>3, CallerLog DEF Parked, IInv, TypeOK
    <3>2. tip[Caller] \in Observed(Caller) => Abandoned(Caller)
      BY <3>1, ParkIsJust
    <3>3. Observed(Caller)' = Observed(Caller) /\ Abandoned(Caller)' = Abandoned(Caller)
      BY <2>1 DEF Observed, Abandoned
    <3> SUFFICES /\ live'[Caller] = "no"
                 /\ blocked'[Caller] \in Observed(Caller)' => Abandoned(Caller)'
      BY Zenon DEF Parks
    <3> QED BY <2>1, <3>1, <3>2, <3>3
  <2> QED BY <2>2, <2>3
<1>6. ASSUME NEW c \in Children, ChildStep(c) PROVE Parks'
  <2>1. blocked'[Caller] = blocked[Caller]
    BY <1>6, ChildrenAreFrames DEF ChildStep, Branch, RejectBranch, Reopen, BlockChild, Push,
       ExitChild, UnwindChild, FinishFailed, FinishIntegrated, StartIntegration,
       IntegrateStays, durable, IInv, TypeOK
  <2>2. live'[Caller] = live[Caller]
    BY <1>6, ChildrenAreFrames DEF ChildStep, Branch, RejectBranch, Reopen, BlockChild, Push,
       ExitChild, UnwindChild, FinishFailed, FinishIntegrated, StartIntegration,
       IntegrateStays, IInv, TypeOK
  <2>3. log'[Caller] = log[Caller]
    BY <1>6, ChildrenAreFrames DEF ChildStep, Branch, RejectBranch, Reopen, BlockChild, Push,
       ExitChild, UnwindChild, FinishFailed, FinishIntegrated, StartIntegration,
       durable, Note, IInv, TypeOK
  <2> QED BY <2>1, <2>2, <2>3, ParksStay
<1>7. CASE Integrate
  <2>1. UNCHANGED <<blocked, live>> /\ at.step # "no"
    BY <1>7 DEF Integrate, Reapply, LogIntent, Advance, LogReceipt, Claim, Pop, IntegrateStays
  <2>2. live[Caller] = "running"
    BY <2>1 DEF IInv, Running
  <2> QED BY <2>1, <2>2, ParksStay
<1> QED BY <1>1, <1>2, <1>3, <1>4, <1>5, <1>6, <1>7, Zenon DEF Next

\* The guard parks a frame at a tip where a call of it began, or where a child landed on it,
\* only if an intent was abandoned: however the crashes, the resets and the caller's own
\* commits fell, the guard follows the branch through every intent that got its receipt.
THEOREM BlockNeedsAbandonedIntentHolds == Spec => []BlockNeedsAbandonedIntent
<1>1. IInv /\ Parks => BlockNeedsAbandonedIntent
  <2> SUFFICES ASSUME IInv, Parks, NEW f \in Frames, blocked[f] # None, blocked[f] \in Observed(f)
               PROVE  Abandoned(f)
    BY DEF BlockNeedsAbandonedIntent
  <2>1. CASE f = Caller
    BY <2>1 DEF Parks
  <2>2. CASE f # Caller
    <3>1. f \in Children
      BY <2>2, ChildrenAreFrames
    <3>2. \A i \in DOMAIN log[f] : log[f][i].type = "exited"
      BY <3>1, LogTypes DEF IInv, Based
    <3>3. Observed(f) = {}
      BY <3>2 DEF Observed, ToSet
    <3> QED BY <3>3
  <2> QED BY <2>1, <2>2
<1>2. Init => Parks
  BY CallerLog, ChildrenAreFrames DEF Init, Parks
<1>3. Spec => [](Books /\ Watched)
  <2>1. Spec => Init /\ [][Next]_vars
    BY DEF Spec
  <2>2. Spec => []Owners
    <3>1. Spec => Init /\ [][Next]_vars
      BY DEF Spec
    <3> QED BY <3>1, IInvHolds, InitOwners, NextOwners, PTL
  <2> QED BY <2>1, <2>2, IInvHolds, InitWatched, NextWatched, PTL
<1>4. Spec => []Parks
  <2>1. Spec => Init /\ [][Next]_vars
    BY DEF Spec
  <2> QED BY <2>1, <1>2, <1>3, IInvHolds, NextParks, PTL
<1> QED BY <1>1, <1>4, IInvHolds, PTL
==============================================================================
