---------------------------- MODULE PlatformProofs ----------------------------
(***************************************************************************)
(* Proofs about the platform, of any size: what induction says of lists,   *)
(* the rights that come with the elements of a slate and the accountant of *)
(* its tokens, connections that reopen their sockets, downloads that are   *)
(* cut short, the registry of descriptors, the connections of a server,    *)
(* signals, the layout of a shard and the commands for its elements.       *)
(* What is proved of the parts holds of MCPlatform, which runs one of them *)
(* at a time.                                                              *)
(***************************************************************************)
EXTENDS MCPlatform, Lists, FiniteSetTheorems, WellFoundedInduction, TLAPS

-----------------------------------------------------------------------------
(* Induction, and what a filtered list holds.                              *)

LEMMA LessIsWellFounded ==
    \E rel : IsWellFoundedOn(rel, Nat) /\ \A i, j \in Nat : i < j => <<i, j>> \in rel
<1> WITNESS OpToRel(<, Nat)
<1>1. \A i, j \in Nat : i < j => <<i, j>> \in OpToRel(<, Nat)
  BY DEF OpToRel
<1> QED BY <1>1, NatLessThanWellFounded, Zenon

LEMMA HasLeast ==
    ASSUME NEW Type \in SUBSET Nat, Type # {} PROVE \E i \in Type : \A j \in Type : i <= j
<1>1. PICK rel : IsWellFoundedOn(rel, Nat) /\ \A i, j \in Nat : i < j => <<i, j>> \in rel
  BY LessIsWellFounded
<1>2. \E i \in Type : \A j \in Type : ~(<<j, i>> \in rel)
  <2>1. IsWellFoundedOn(rel, Nat) /\ Type \subseteq Nat
    BY <1>1
  <2> QED BY <2>1, WFMin, Zenon
<1>3. PICK i \in Type : \A j \in Type : ~(<<j, i>> \in rel)
  BY <1>2
<1>4. ASSUME NEW j \in Type PROVE i <= j
  <2>1. i \in Nat /\ j \in Nat /\ ~(j < i)
    BY <1>1, <1>3, Zenon
  <2> QED BY <2>1
<1> QED BY <1>4

\* Induction up to n, stated of the set of numbers for which something holds.
LEMMA UpTo ==
    ASSUME NEW n \in Nat, NEW Holds, 0 \in Holds, \A i \in 1..n : i - 1 \in Holds => i \in Holds
    PROVE  0..n \subseteq Holds
<1> DEFINE Type == (0..n) \ Holds
<1> SUFFICES ASSUME Type # {} PROVE FALSE
  OBVIOUS
<1>2. PICK x \in Type : \A y \in Type : x <= y
  <2> HIDE DEF Type
  <2>1. Type \in SUBSET Nat
    BY DEF Type
  <2> QED BY <2>1, HasLeast
<1>3. x \in 1..n
  OBVIOUS
<1>4. x - 1 \in Type
  BY <1>3
<1> QED BY <1>2, <1>3, <1>4

\* What it means that f is defined by recursion up to n.
Follows(f, n, base, step) == f[0] = base /\ \A i \in 1..n : f[i] = step[i][f[i - 1]]

\* Such a function exists.
LEMMA Recursion ==
    ASSUME NEW n \in Nat, NEW Type, NEW base \in Type, NEW step \in [1..n -> [Type -> Type]]
    PROVE  \E f \in [0..n -> Type] : Follows(f, n, base, step)
<1> DEFINE Upto(f, m) == f[0] = base /\ \A i \in 1..m : f[i] = step[i][f[i - 1]]
           Holds == {m \in 0..n : \E f \in [0..n -> Type] : Upto(f, m)}
<1>1. 0 \in Holds
  <2>1. [i \in 0..n |-> base] \in [0..n -> Type] /\ Upto([i \in 0..n |-> base], 0)
    OBVIOUS
  <2>2. \E f \in [0..n -> Type] : Upto(f, 0)
    <3> HIDE DEF Upto
    <3> QED BY <2>1
  <2> QED BY <2>2
<1>2. ASSUME NEW m \in 1..n, m - 1 \in Holds PROVE m \in Holds
  <2>1. PICK f \in [0..n -> Type] : Upto(f, m - 1)
    BY <1>2
  <2> DEFINE g == [f EXCEPT ![m] = step[m][f[m - 1]]]
  <2>2. m - 1 \in 0..n /\ m \in 0..n /\ f[m - 1] \in Type /\ step[m][f[m - 1]] \in Type
    OBVIOUS
  <2>3. g \in [0..n -> Type]
    BY <2>2
  <2>4. g[0] = base
    BY <2>1
  <2>5. ASSUME NEW i \in 1..m PROVE g[i] = step[i][g[i - 1]]
    <3>1. g[i - 1] = f[i - 1]
      BY <2>2
    <3>2. CASE i = m
      BY <3>1, <3>2, <2>2
    <3>3. CASE i # m
      BY <3>1, <3>3, <2>1
    <3> QED BY <3>2, <3>3
  <2>6. Upto(g, m)
    BY <2>4, <2>5
  <2> QED BY <2>2, <2>3, <2>6, Zenon
<1>3. n \in Holds
  <2> HIDE DEF Holds
  <2>1. 0..n \subseteq Holds
    BY <1>1, <1>2, UpTo, Zenon
  <2> QED BY <2>1
<1>4. PICK f \in [0..n -> Type] : Upto(f, n)
  BY <1>3
<1> QED BY <1>4 DEF Follows

\* What f keeps of each beginning of s.
Keeps(f, s, keep) ==
    /\ f[0] = <<>>
    /\ \A i \in 1..Len(s) : f[i] = IF s[i] \in keep THEN Append(f[i - 1], s[i]) ELSE f[i - 1]
    /\ Filter(s, keep) = f[Len(s)]

LEMMA FilterSteps ==
    ASSUME NEW Type, NEW s \in Seq(Type), NEW keep
    PROVE  \E f \in [0..Len(s) -> Seq(Type)] : Keeps(f, s, keep)
<1> DEFINE n == Len(s)
           Lst == Seq(Type)
           base == <<>>
           step == [i \in 1..n |-> [t \in Lst |-> IF s[i] \in keep THEN Append(t, s[i]) ELSE t]]
           Body(f, i) == IF i = 0 THEN <<>> ELSE IF s[i] \in keep THEN Append(f[i - 1], s[i]) ELSE f[i - 1]
           kept == CHOOSE f : f = [i \in 0..n |-> Body(f, i)]
<1>1. step \in [1..n -> [Lst -> Lst]]
  OBVIOUS
<1>2. PICK f \in [0..n -> Lst] : Follows(f, n, base, step)
  <2>1. base \in Lst /\ n \in Nat
    OBVIOUS
  <2> HIDE DEF step, n, Lst, base
  <2> QED BY <1>1, <2>1, Recursion
<1>3. ASSUME NEW i \in 0..n PROVE f[i] = Body(f, i)
  <2>1. CASE i = 0
    <3>1. f[0] = <<>>
      BY <1>2 DEF Follows
    <3> QED BY <2>1, <3>1
  <2>2. CASE i \in 1..n
    <3>1. i - 1 \in 0..n /\ f[i - 1] \in Lst
      BY <2>2
    <3>2. step[i][f[i - 1]] = Body(f, i)
      BY <2>2, <3>1
    <3> QED BY <1>2, <2>2, <3>2, Zenon DEF Follows
  <2> QED BY <2>1, <2>2
<1>4. f = [i \in 0..n |-> Body(f, i)]
  <2> HIDE DEF Body
  <2> QED BY <1>3
<1>5. kept = [i \in 0..n |-> Body(kept, i)]
  <2> HIDE DEF Body
  <2> QED BY <1>4, Zenon
<1>6. 0..n \subseteq {i \in 0..n : kept[i] \in Lst}
  <2> HIDE DEF kept
  <2>1. kept[0] \in Lst
    BY <1>5
  <2>2. ASSUME NEW i \in 1..n, kept[i - 1] \in Lst PROVE kept[i] \in Lst
    <3>1. i \in 0..n /\ i # 0 /\ s[i] \in Type
      OBVIOUS
    <3>2. kept[i] = IF s[i] \in keep THEN Append(kept[i - 1], s[i]) ELSE kept[i - 1]
      BY <1>5, <3>1, Zenon
    <3> QED BY <2>2, <3>1, <3>2
  <2> DEFINE Holds == {i \in 0..n : kept[i] \in Lst}
  <2>3. n \in Nat /\ 0 \in Holds /\ \A i \in 1..n : i - 1 \in Holds => i \in Holds
    BY <2>1, <2>2
  <2> HIDE DEF Holds
  <2> QED BY <2>3, UpTo, Zenon DEF Holds
<1>7. kept \in [0..n -> Lst]
  <2> HIDE DEF kept, Body
  <2> QED BY <1>5, <1>6
<1>8. /\ kept[0] = <<>>
      /\ \A i \in 1..n : kept[i] = IF s[i] \in keep THEN Append(kept[i - 1], s[i]) ELSE kept[i - 1]
  <2> HIDE DEF kept
  <2>1. kept[0] = <<>>
    BY <1>5
  <2>2. ASSUME NEW i \in 1..n PROVE kept[i] = IF s[i] \in keep THEN Append(kept[i - 1],
               s[i]) ELSE kept[i - 1]
    <3>1. i \in 0..n /\ i # 0
      OBVIOUS
    <3> QED BY <1>5, <3>1, Zenon
  <2> QED BY <2>1, <2>2
<1>9. Filter(s, keep) = kept[Len(s)]
  BY DEF Filter
<1> QED
  <2> HIDE DEF kept
  <2> QED BY <1>7, <1>8, <1>9 DEF Keeps

\* A filtered list has the elements that are kept, and what is true of an element and each
\* later one stays true.
LEMMA FilterFacts ==
    ASSUME NEW Type, NEW s \in Seq(Type), NEW keep, NEW rel,
           \A i, j \in 1..Len(s) : i < j => <<s[i], s[j]>> \in rel
    PROVE  /\ Filter(s, keep) \in Seq(Type)
           /\ Len(Filter(s, keep)) <= Len(s)
           /\ \A i \in 1..Len(Filter(s, keep)) :
                 Filter(s, keep)[i] \in keep /\ \E j \in 1..Len(s) : s[j] = Filter(s, keep)[i]
           /\ \A j \in 1..Len(s) :
                 s[j] \in keep => \E i \in 1..Len(Filter(s, keep)) : Filter(s, keep)[i] = s[j]
           /\ \A i, j \in 1..Len(Filter(s, keep)) :
                 i < j => <<Filter(s, keep)[i], Filter(s, keep)[j]>> \in rel
<1>0. PICK f \in [0..Len(s) -> Seq(Type)] : Keeps(f, s, keep)
  BY FilterSteps
<1>1. /\ f[0] = <<>>
      /\ \A i \in 1..Len(s) : f[i] = IF s[i] \in keep THEN Append(f[i - 1], s[i]) ELSE f[i - 1]
      /\ Filter(s, keep) = f[Len(s)]
  BY <1>0 DEF Keeps
<1> DEFINE Good(t, n) ==
              /\ Len(t) <= n
              /\ \A i \in 1..Len(t) : t[i] \in keep /\ \E j \in 1..n : s[j] = t[i]
              /\ \A j \in 1..n : s[j] \in keep => \E i \in 1..Len(t) : t[i] = s[j]
              /\ \A i, j \in 1..Len(t) : i < j => <<t[i], t[j]>> \in rel
           Holds == {n \in 0..Len(s) : Good(f[n], n)}
<1>2. 0 \in Holds
  BY <1>1
<1>3. ASSUME NEW n \in 1..Len(s), n - 1 \in Holds PROVE n \in Holds
  <2> DEFINE t == f[n - 1]
             m == n - 1
  <2>1. m \in 0..Len(s) /\ m \in Nat /\ n = m + 1 /\ t \in Seq(Type) /\ Good(t, m) /\ s[n] \in Type
    <3> HIDE DEF Good
    <3>1. m \in 0..Len(s) /\ m \in Nat /\ n = m + 1
      OBVIOUS
    <3>2. Good(t, m)
      BY <1>3
    <3> QED BY <3>1, <3>2
  <2>2. f[n] = IF s[n] \in keep THEN Append(t, s[n]) ELSE t
    BY <1>1
  <2> SUFFICES Good(f[n], n)
    OBVIOUS
  <2>3. CASE s[n] \notin keep
    <3>1. f[n] = t
      BY <2>2, <2>3
    <3> HIDE DEF t, m
    <3> QED BY <2>1, <2>3, <3>1
  <2>4. CASE s[n] \in keep
    <3> DEFINE u == Append(t, s[n])
    <3>1. f[n] = u
      BY <2>2, <2>4
    <3>2. Len(u) = Len(t) + 1 /\ u[Len(u)] = s[n] /\ \A i \in 1..Len(t) : u[i] = t[i]
      BY <2>1
    <3>3. Len(t) \in Nat
      BY <2>1
    <3> HIDE DEF u, t, m
    <3>4. Len(u) <= n
      BY <2>1, <3>2, <3>3
    <3>5. \A i \in 1..Len(u) : i \in 1..Len(t) \/ i = Len(u)
      BY <3>2, <3>3
    <3>6. \A i \in 1..Len(u) : u[i] \in keep /\ \E j \in 1..n : s[j] = u[i]
      <4> SUFFICES ASSUME NEW i \in 1..Len(u) PROVE u[i] \in keep /\ \E j \in 1..n : s[j] = u[i]
        OBVIOUS
      <4>1. CASE i = Len(u)
        BY <4>1, <2>4, <3>2
      <4>2. CASE i \in 1..Len(t)
        <5>1. PICK j \in 1..m : s[j] = t[i]
          BY <2>1, <4>2, Zenon
        <5>2. j \in 1..n
          BY <2>1
        <5> QED BY <2>1, <3>2, <4>2, <5>1, <5>2
      <4> QED BY <4>1, <4>2, <3>5
    <3>7. \A j \in 1..n : s[j] \in keep => \E i \in 1..Len(u) : u[i] = s[j]
      <4> SUFFICES ASSUME NEW j \in 1..n, s[j] \in keep PROVE \E i \in 1..Len(u) : u[i] = s[j]
        OBVIOUS
      <4>1. CASE j = n
        <5>1. Len(u) \in 1..Len(u)
          BY <3>2, <3>3
        <5> QED BY <3>2, <4>1, <5>1
      <4>2. CASE j \in 1..m
        <5>1. PICK i \in 1..Len(t) : t[i] = s[j]
          BY <2>1, <4>2
        <5>2. i \in 1..Len(u) /\ u[i] = t[i]
          BY <3>2, <3>3
        <5> QED BY <5>1, <5>2
      <4>3. j = n \/ j \in 1..m
        BY <2>1
      <4> QED BY <4>1, <4>2, <4>3
    <3>8. \A i, j \in 1..Len(u) : i < j => <<u[i], u[j]>> \in rel
      <4> SUFFICES ASSUME NEW i \in 1..Len(u), NEW j \in 1..Len(u), i < j
                   PROVE  <<u[i], u[j]>> \in rel
        OBVIOUS
      <4>1. i \in 1..Len(t) /\ u[i] = t[i]
        BY <3>2, <3>3
      <4>2. CASE j \in 1..Len(t)
        BY <2>1, <3>2, <4>1, <4>2, Zenon
      <4>3. CASE j = Len(u)
        <5>1. PICK k \in 1..m : s[k] = t[i]
          BY <2>1, <4>1
        <5>2. k \in 1..Len(s) /\ n \in 1..Len(s) /\ k < n
          BY <2>1
        <5>3. <<s[k], s[n]>> \in rel
          BY <5>2
        <5> QED BY <3>2, <4>1, <4>3, <5>1, <5>3, Zenon
      <4> QED BY <4>2, <4>3, <3>5
    <3> QED BY <3>1, <3>4, <3>6, <3>7, <3>8
  <2> QED BY <2>3, <2>4
<1>4. Len(s) \in Holds
  <2>1. Len(s) \in Nat
    OBVIOUS
  <2> HIDE DEF Holds
  <2>2. 0..Len(s) \subseteq Holds
    BY <1>2, <1>3, <2>1, UpTo, Zenon
  <2> QED BY <2>1, <2>2
<1> QED BY <1>1, <1>4

LEMMA SameFilter ==
    \A s, keep : S!Filter(s, keep) = Filter(s, keep) /\ G!Filter(s, keep) = Filter(s, keep)
BY DEF S!Filter, G!Filter, Filter

-----------------------------------------------------------------------------
(* The builders of a slate.                                                *)

LEMMA PrefixesChain ==
    ASSUME NEW X, NEW r \in Seq(X), NEW s \in Seq(X), NEW t \in Seq(X),
           B!IsPrefix(r, s), B!IsPrefix(s, t)
    PROVE  B!IsPrefix(r, t)
<1>1. Len(r) \in Nat /\ Len(s) \in Nat /\ Len(t) \in Nat /\ Len(r) <= Len(s) /\ Len(s) <= Len(t)
  BY DEF B!IsPrefix
<1>2. \A i \in 1..Len(r) : r[i] = s[i]
  <2> SUFFICES ASSUME NEW i \in 1..Len(r) PROVE r[i] = s[i]
    OBVIOUS
  <2>1. SubSeq(r, 1, Len(r))[i] = r[i] /\ SubSeq(s, 1, Len(r))[i] = s[i]
    BY <1>1
  <2> QED BY <2>1 DEF B!IsPrefix
<1>3. \A i \in 1..Len(s) : s[i] = t[i]
  <2> SUFFICES ASSUME NEW i \in 1..Len(s) PROVE s[i] = t[i]
    OBVIOUS
  <2>1. SubSeq(s, 1, Len(s))[i] = s[i] /\ SubSeq(t, 1, Len(s))[i] = t[i]
    BY <1>1
  <2> QED BY <2>1 DEF B!IsPrefix
<1>4. \A i \in 1..Len(r) : r[i] = t[i]
  BY <1>1, <1>2, <1>3
<1>5. SubSeq(r, 1, Len(r)) = SubSeq(t, 1, Len(r))
  BY <1>1, <1>4
<1> QED BY <1>1, <1>5 DEF B!IsPrefix

\* A view has the policy of the element whose memory it is.
ViewsShareThePolicy ==
    \A p \in DOMAIN elements : elements[elements[p].memory].policy = elements[p].policy

BuilderInv ==
    /\ B!TypeOK
    /\ ViewsShareThePolicy
    /\ B!NobodyElevates
    /\ B!MasksBelowAreKept

LEMMA BuilderInit == B!Init => BuilderInv
<1> SUFFICES ASSUME B!Init PROVE BuilderInv
  OBVIOUS
<1>1. DOMAIN elements = {} /\ held = {}
  BY DEF B!Init
<1>2. /\ \A b \in builders :
            b \in [subtree : BuilderPaths \cup {<<>>}, permission : SUBSET Shards,
                  masks : SUBSET BuilderPaths, forbidden : SUBSET BuilderPaths, super : BOOLEAN]
      /\ \A b \in builders : b.forbidden = {}
  BY DEF B!Init
<1> QED BY <1>1, <1>2, Zenon DEF B!Init, BuilderInv, B!TypeOK, ViewsShareThePolicy,
           B!NobodyElevates,
                          B!MasksBelowAreKept

LEMMA SubSlateInv ==
    ASSUME BuilderInv, NEW b \in builders, NEW p \in BuilderPaths, NEW m \in SUBSET BuilderPaths,
           NEW permission \in SUBSET b.permission, B!SubSlate(b, p, m, permission)
    PROVE  BuilderInv'
<1> DEFINE new == [b EXCEPT !.subtree = p, !.permission = permission,
                            !.masks = m \cup B!Kept(b, p), !.forbidden = @ \cup m]
<1>1. /\ B!IsStrictPrefix(b.subtree, p) /\ builders' = builders \cup {new}
      /\ elements' = elements /\ held' = held /\ built' = built
  BY DEF B!SubSlate
<1>2. b \in [subtree : BuilderPaths \cup {<<>>}, permission : SUBSET Shards,
            masks : SUBSET BuilderPaths, forbidden : SUBSET BuilderPaths, super : BOOLEAN]
  BY DEF BuilderInv, B!TypeOK
<1>3. /\ new \in [subtree : BuilderPaths \cup {<<>>}, permission : SUBSET Shards,
                  masks : SUBSET BuilderPaths, forbidden : SUBSET BuilderPaths, super : BOOLEAN]
      /\ new.subtree = p /\ new.masks = m \cup B!Kept(b, p) /\ new.forbidden = b.forbidden \cup m
  BY <1>2, Zenon DEF B!Kept
<1> HIDE DEF new
<1>4. ASSUME NEW x \in new.forbidden, B!IsPrefix(new.subtree, x) PROVE x \in new.masks
  <2>1. CASE x \in m
    BY <1>3, <2>1
  <2>2. CASE x \in b.forbidden
    <3>1. b.subtree \in Seq(STRING) /\ p \in Seq(STRING) /\ x \in Seq(STRING)
      <4>1. <<>> \in Seq(STRING) /\ x \in BuilderPaths
        BY <1>2, <2>2
      <4> QED BY <1>2, <4>1, PlatformAssumption, Zenon
    <3>2. B!IsPrefix(b.subtree, x)
      BY <1>1, <1>3, <1>4, <3>1, PrefixesChain DEF B!IsStrictPrefix
    <3>3. x \in b.masks
      BY <2>2, <3>2 DEF BuilderInv, B!MasksBelowAreKept
    <3> QED BY <1>3, <1>4, <3>3 DEF B!Kept
  <2> QED BY <1>3, <1>4, <2>1, <2>2
<1>5. B!TypeOK'
  BY <1>1, <1>3 DEF BuilderInv, B!TypeOK
<1>6. B!MasksBelowAreKept'
  BY <1>1, <1>4 DEF BuilderInv, B!MasksBelowAreKept, B!IsPrefix
<1> QED BY <1>1, <1>5, <1>6 DEF BuilderInv, ViewsShareThePolicy, B!NobodyElevates

\* A super slate forgets what was masked, which is what it is for.
LEMMA SuperSlateInv ==
    ASSUME BuilderInv, NEW b \in builders, B!SuperSlate(b)
    PROVE  BuilderInv'
<1> DEFINE new == [b EXCEPT !.super = TRUE, !.masks = {}, !.forbidden = {}]
<1>1. /\ builders' = builders \cup {new}
      /\ elements' = elements /\ held' = held /\ built' = built
  BY DEF B!SuperSlate
<1>2. /\ new \in [subtree : BuilderPaths \cup {<<>>}, permission : SUBSET Shards,
                  masks : SUBSET BuilderPaths, forbidden : SUBSET BuilderPaths, super : BOOLEAN]
      /\ new.forbidden = {}
  BY Zenon DEF BuilderInv, B!TypeOK
<1> HIDE DEF new
<1>3. B!TypeOK'
  BY <1>1, <1>2 DEF BuilderInv, B!TypeOK
<1>4. B!MasksBelowAreKept'
  BY <1>1, <1>2 DEF BuilderInv, B!MasksBelowAreKept, B!IsPrefix
<1> QED BY <1>1, <1>3, <1>4 DEF BuilderInv, ViewsShareThePolicy, B!NobodyElevates

HeldType ==
    [path : BuilderPaths, kind : B!Kinds, write : BOOLEAN, validator : BOOLEAN, origin : B!Origins]

\* What a right rests on, with these elements.
IsGranted(es, h) ==
    /\ h.path \in DOMAIN es
    /\ h.write /\ h.origin = "bound" => es[es[h.path].memory].policy = "read_write"
    /\ B!Writes(h.kind) => h.write /\ ((h.kind = "WriteValidatorToken") = es[h.path].validator)

\* A token has no right that its ID has not.
LEMMA RegisteredIsGranted ==
    ASSUME NEW es, NEW kind \in B!Kinds, NEW right \in HeldType, right.kind = "id",
           IsGranted(es, right),
           right.validator = es[right.path].validator,
           NEW h \in B!Registered(kind, right)
    PROVE  h \in HeldType /\ IsGranted(es, h)
<1>1. CASE kind = "id"
  BY <1>1 DEF B!Registered
<1>2. CASE kind = "ReadToken"
  <2>1. h = [right EXCEPT !.kind = kind, !.write = FALSE]
    BY <1>2 DEF B!Registered
  <2>2. h \in HeldType /\ h.path = right.path /\ h.kind = "ReadToken" /\ h.write = FALSE
    BY <1>2, <2>1, Zenon DEF HeldType
  <2> QED BY <2>2 DEF IsGranted, B!Writes
<1>3. CASE kind \in {"WriteToken", "WriteValidatorToken"}
  <2>1. /\ right.write /\ ((kind = "WriteValidatorToken") = right.validator)
        /\ h = [right EXCEPT !.kind = kind]
    BY <1>3 DEF B!Registered
  <2>2. /\ h \in HeldType /\ h.path = right.path /\ h.kind = kind /\ h.write = right.write
        /\ h.origin = right.origin
    BY <2>1, Zenon DEF HeldType
  <2> QED BY <2>1, <2>2 DEF IsGranted
<1> QED BY <1>1, <1>2, <1>3 DEF B!Kinds

\* A new element, or a view of the policy of what it lies over, changes no right.
LEMMA ElementsGrow ==
    ASSUME BuilderInv, NEW p \in BuilderPaths, NEW shard \in Shards, NEW policy \in B!Policies,
           NEW validator \in BOOLEAN, NEW memory \in DOMAIN elements \cup {p},
           memory # p => elements[memory].policy = policy,
           B!AddElement(p, shard, policy, validator, memory)
    PROVE  /\ DOMAIN elements' = DOMAIN elements \cup {p} /\ p \notin DOMAIN elements
           /\ elements'[p] = [shard |-> shard, policy |-> policy, validator |-> validator,
                              memory |-> memory]
           /\ \A q \in DOMAIN elements : elements'[q] = elements[q]
           /\ \A q \in DOMAIN elements' :
                 elements'[q] \in [shard : Shards, policy : B!Policies, validator : BOOLEAN,
                                  memory : DOMAIN elements']
           /\ ViewsShareThePolicy'
           /\ \A h \in held : h \in HeldType /\ IsGranted(elements, h) /\ IsGranted(elements', h)
<1>1. /\ DOMAIN elements' = DOMAIN elements \cup {p} /\ p \notin DOMAIN elements
      /\ elements'[p] = [shard |-> shard, policy |-> policy, validator |-> validator,
                         memory |-> memory]
      /\ \A q \in DOMAIN elements : elements'[q] = elements[q]
  BY DEF B!AddElement
<1>2. /\ DOMAIN elements \subseteq BuilderPaths
      /\ \A q \in DOMAIN elements :
            elements[q] \in [shard : Shards, policy : B!Policies, validator : BOOLEAN,
                            memory : DOMAIN elements]
  BY DEF BuilderInv, B!TypeOK
<1>3. \A q \in DOMAIN elements' :
          elements'[q] \in [shard : Shards, policy : B!Policies, validator : BOOLEAN,
                           memory : DOMAIN elements']
  <2> SUFFICES ASSUME NEW q \in DOMAIN elements'
               PROVE  elements'[q] \in [shard : Shards, policy : B!Policies, validator : BOOLEAN,
                                       memory : DOMAIN elements']
    OBVIOUS
  <2>1. CASE q = p
    BY <1>1, <2>1
  <2>2. CASE q # p
    BY <1>1, <1>2, <2>2
  <2> QED BY <2>1, <2>2
<1>4. ASSUME NEW q \in DOMAIN elements'
      PROVE  elements'[elements'[q].memory].policy = elements'[q].policy
  <2>1. CASE q = p
    BY <1>1, <2>1
  <2>2. CASE q # p
    BY <1>1, <1>2, <2>2 DEF BuilderInv, ViewsShareThePolicy
  <2> QED BY <2>1, <2>2
<1>5. ASSUME NEW h \in held PROVE h \in HeldType /\ IsGranted(elements,
             h) /\ IsGranted(elements', h)
  <2>1. /\ h \in [path : DOMAIN elements, kind : B!Kinds, write : BOOLEAN, validator : BOOLEAN,
                  origin : B!Origins]
        /\ IsGranted(elements, h)
    BY DEF BuilderInv, B!TypeOK, B!NobodyElevates, IsGranted
  <2>2. /\ h.path \in DOMAIN elements /\ elements[h.path].memory \in DOMAIN elements
        /\ h \in HeldType
    BY <1>2, <2>1 DEF HeldType
  <2>3. IsGranted(elements', h)
    BY <1>1, <2>1, <2>2 DEF IsGranted, B!Writes
  <2> QED BY <2>1, <2>2, <2>3
<1> QED BY <1>1, <1>3, <1>4, <1>5 DEF ViewsShareThePolicy

\* Rights that are granted keep the invariant.
LEMMA GrantedInv ==
    ASSUME BuilderInv, builders' = builders, built' \in BOOLEAN,
           DOMAIN elements' \subseteq BuilderPaths,
           \A q \in DOMAIN elements' :
              elements'[q] \in [shard : Shards, policy : B!Policies, validator : BOOLEAN,
                               memory : DOMAIN elements'],
           ViewsShareThePolicy',
           \A h \in held' : h \in HeldType /\ IsGranted(elements', h)
    PROVE  BuilderInv'
<1>1. ASSUME NEW h \in held'
      PROVE  h \in [path : DOMAIN elements', kind : B!Kinds, write : BOOLEAN, validator : BOOLEAN,
                   origin : B!Origins]
  <2>1. h \in HeldType /\ h.path \in DOMAIN elements'
    BY DEF IsGranted
  <2> QED BY <2>1 DEF HeldType
<1>2. B!TypeOK'
  BY <1>1 DEF BuilderInv, B!TypeOK
<1>3. B!NobodyElevates'
  BY DEF B!NobodyElevates, IsGranted, B!Writes
<1>4. B!MasksBelowAreKept'
  BY DEF BuilderInv, B!MasksBelowAreKept, B!IsPrefix
<1> QED BY <1>2, <1>3, <1>4 DEF BuilderInv

LEMMA CreateInv ==
    ASSUME BuilderInv, NEW b \in builders, NEW p \in BuilderPaths, NEW shard \in Shards,
           NEW policy \in B!Policies, NEW validator \in BOOLEAN, NEW kind \in B!Kinds,
           B!Create(b, p, shard, policy, validator, kind)
    PROVE  BuilderInv'
<1> DEFINE right == [path |-> p, kind |-> "id", write |-> shard # "static", validator |-> validator,
                  origin |-> "creator"]
<1>1. /\ B!AddElement(p, shard, policy, validator, p)
      /\ held' = held \cup B!Registered(kind, right) /\ builders' = builders /\ built' = built
  BY DEF B!Create
<1>2. right \in HeldType /\ right.kind = "id" /\ right.path = p /\ right.validator = validator /\ right.origin = "creator"
  BY DEF HeldType, B!Kinds, B!Origins
<1> HIDE DEF right
<1>3. /\ DOMAIN elements' = DOMAIN elements \cup {p} /\ p \notin DOMAIN elements
      /\ elements'[p] = [shard |-> shard, policy |-> policy, validator |-> validator,
                         memory |-> p]
      /\ \A q \in DOMAIN elements : elements'[q] = elements[q]
      /\ \A q \in DOMAIN elements' :
            elements'[q] \in [shard : Shards, policy : B!Policies, validator : BOOLEAN,
                             memory : DOMAIN elements']
      /\ ViewsShareThePolicy'
      /\ \A h \in held : h \in HeldType /\ IsGranted(elements, h) /\ IsGranted(elements', h)
  BY <1>1, ElementsGrow
<1>4. IsGranted(elements', right)
  BY <1>2, <1>3 DEF IsGranted, B!Writes
<1>5. ASSUME NEW h \in B!Registered(kind, right) PROVE h \in HeldType /\ IsGranted(elements', h)
  BY <1>2, <1>3, <1>4, RegisteredIsGranted
<1>6. built' \in BOOLEAN /\ DOMAIN elements \subseteq BuilderPaths
  BY <1>1 DEF BuilderInv, B!TypeOK
<1> QED BY <1>1, <1>3, <1>5, <1>6, GrantedInv

LEMMA BindInv ==
    ASSUME BuilderInv, NEW b \in builders, NEW p \in BuilderPaths, NEW kind \in B!Kinds,
           B!Bind(b, p, kind)
    PROVE  BuilderInv'
<1> DEFINE right == [path |-> p, kind |-> "id", write |-> B!Policy(b, p) = "read_write",
                  validator |-> elements[p].validator,
                  origin |-> IF b.super THEN "super" ELSE "bound"]
<1>1. /\ p \in DOMAIN elements /\ held' = held \cup B!Registered(kind, right)
      /\ elements' = elements /\ builders' = builders /\ built' = built
  BY DEF B!Bind
<1>2. /\ DOMAIN elements \subseteq BuilderPaths /\ built \in BOOLEAN
      /\ \A q \in DOMAIN elements :
            elements[q] \in [shard : Shards, policy : B!Policies, validator : BOOLEAN,
                            memory : DOMAIN elements]
      /\ ViewsShareThePolicy
  BY DEF BuilderInv, B!TypeOK
<1>3. /\ right \in HeldType /\ right.kind = "id" /\ right.path = p /\ right.validator = elements[p].validator
      /\ right.write = (B!Policy(b, p) = "read_write")
      /\ right.origin = IF b.super THEN "super" ELSE "bound"
  BY <1>1, <1>2 DEF HeldType, B!Kinds, B!Origins
<1> HIDE DEF right
<1>4. elements[elements[p].memory].policy = elements[p].policy
  BY <1>1, <1>2 DEF ViewsShareThePolicy
<1>5. IsGranted(elements, right)
  BY <1>1, <1>3, <1>4, Zenon DEF IsGranted, B!Writes, B!Policy
<1>6. ASSUME NEW h \in B!Registered(kind, right) PROVE h \in HeldType /\ IsGranted(elements, h)
  BY <1>3, <1>5, RegisteredIsGranted
<1>7. ASSUME NEW h \in held PROVE h \in HeldType /\ IsGranted(elements, h)
  BY <1>2 DEF BuilderInv, B!TypeOK, B!NobodyElevates, IsGranted, HeldType
<1>8. ViewsShareThePolicy'
  BY <1>1, <1>2 DEF ViewsShareThePolicy
<1> QED BY <1>1, <1>2, <1>6, <1>7, <1>8, GrantedInv

\* A view writes what the ID that it is made by may write, and nothing static.
LEMMA CreateViewInv ==
    ASSUME BuilderInv, NEW b \in builders, NEW given \in held, NEW p \in BuilderPaths,
           B!CreateView(b, given, p)
    PROVE  BuilderInv'
<1> DEFINE parent == elements[given.path]
           right == [given EXCEPT !.path = p, !.kind = "id", !.write = B!ViewWrites(given),
                               !.validator = FALSE]
<1>1. /\ B!AddElement(p, parent.shard, parent.policy, FALSE, parent.memory)
      /\ held' = held \cup B!Registered(given.kind, right)
      /\ builders' = builders /\ built' = built
  BY Zenon DEF B!CreateView
<1>2. /\ DOMAIN elements \subseteq BuilderPaths /\ built' \in BOOLEAN
      /\ given.path \in DOMAIN elements
      /\ parent.shard \in Shards /\ parent.policy \in B!Policies
      /\ parent.memory \in DOMAIN elements /\ elements[parent.memory].policy = parent.policy
      /\ given.kind \in B!Kinds /\ given.write \in BOOLEAN
      /\ given \in HeldType /\ IsGranted(elements, given)
  BY <1>1 DEF BuilderInv, B!TypeOK, ViewsShareThePolicy, B!NobodyElevates, IsGranted, HeldType
<1>3. /\ right \in HeldType /\ right.kind = "id" /\ right.path = p /\ right.validator = FALSE
      /\ (right.write => given.write) /\ right.origin = given.origin
  BY <1>2, Zenon DEF HeldType, B!Kinds, B!ViewWrites
<1> DEFINE shard == parent.shard
           policy == parent.policy
           memory == parent.memory
<1>4. /\ DOMAIN elements' = DOMAIN elements \cup {p} /\ p \notin DOMAIN elements
      /\ elements'[p] = [shard |-> shard, policy |-> policy, validator |-> FALSE,
                         memory |-> memory]
      /\ \A q \in DOMAIN elements : elements'[q] = elements[q]
      /\ \A q \in DOMAIN elements' :
            elements'[q] \in [shard : Shards, policy : B!Policies, validator : BOOLEAN,
                             memory : DOMAIN elements']
      /\ ViewsShareThePolicy'
      /\ \A h \in held : h \in HeldType /\ IsGranted(elements, h) /\ IsGranted(elements', h)
  <2>1. B!AddElement(p, shard, policy, FALSE, memory)
    BY <1>1, Zenon
  <2>2. /\ shard \in Shards /\ policy \in B!Policies /\ memory \in DOMAIN elements \cup {p}
        /\ memory # p => elements[memory].policy = policy
    BY <1>2
  <2> HIDE DEF shard, policy, memory
  <2> QED BY <2>1, <2>2, ElementsGrow, Zenon
<1>5. elements'[elements'[p].memory].policy = parent.policy
  BY <1>2, <1>4
<1>6. IsGranted(elements, given) /\ elements[elements[given.path].memory].policy = parent.policy
  BY <1>2
<1> HIDE DEF right, parent
<1>7. IsGranted(elements', right)
  BY <1>3, <1>4, <1>5, <1>6 DEF IsGranted, B!Writes
<1>8. given.kind \in B!Kinds /\ elements'[right.path].validator = right.validator
  <2>1. elements'[p].validator = FALSE
    BY <1>4
  <2>2. right.path = p /\ right.validator = FALSE
    BY <1>3
  <2>3. given.kind \in B!Kinds
    BY <1>2
  <2> QED BY <2>1, <2>2, <2>3, Zenon
<1>9. ASSUME NEW h \in B!Registered(given.kind, right)
      PROVE  h \in HeldType /\ IsGranted(elements', h)
  BY <1>3, <1>7, <1>8, RegisteredIsGranted
<1> QED BY <1>1, <1>2, <1>4, <1>9, GrantedInv

LEMMA BuilderNext == BuilderInv /\ [B!Next]_builderVars => BuilderInv'
<1> SUFFICES ASSUME BuilderInv, [B!Next]_builderVars PROVE BuilderInv'
  OBVIOUS
<1>1. ASSUME NEW b \in builders, NEW p \in BuilderPaths, NEW m \in BuilderPaths,
             B!SubSlate(b, p, {m}, b.permission)
      PROVE  BuilderInv'
  BY <1>1, SubSlateInv
<1>2. ASSUME NEW b \in builders, NEW p \in BuilderPaths, NEW permission \in SUBSET b.permission,
             B!SubSlate(b, p, {}, permission)
      PROVE  BuilderInv'
  BY <1>2, SubSlateInv
<1>3. CASE B!Build
  BY <1>3 DEF B!Build, BuilderInv, B!TypeOK, ViewsShareThePolicy, B!NobodyElevates,
              B!MasksBelowAreKept, B!IsPrefix
<1>4. CASE UNCHANGED builderVars
  BY <1>4 DEF builderVars, BuilderInv, B!TypeOK, ViewsShareThePolicy, B!NobodyElevates,
              B!MasksBelowAreKept, B!IsPrefix
<1> QED BY <1>1, <1>2, <1>3, <1>4, SuperSlateInv, CreateInv, BindInv, CreateViewInv,
           Zenon DEF B!Next

-----------------------------------------------------------------------------
(* A TCP connection.                                                       *)

PeerType == [sent : Seq(Nat), gone : BOOLEAN]

\* The streams over an open socket are of its connection alone, and a connection
\* that is lost or being closed leaves nothing to be sent on the next one.
TcpInv ==
    /\ wanted \in BOOLEAN /\ tcpShut \in BOOLEAN /\ tcpFes \in BOOLEAN /\ epoch \in Nat
    /\ tcpFes \/ tcpShut
    /\ peer \in PeerType
    /\ tcpFes => tcpInput \in Seq({epoch}) /\ peer.sent \in Seq({epoch})
    /\ T!is_connected => tcpOutput \in Seq({epoch})
    /\ T!NothingStalls

LEMMA TakeOfSeq ==
    ASSUME NEW X, NEW s \in Seq(X), NEW n \in Nat, n <= Len(s)
    PROVE  T!Take(s, n) \in Seq(X) /\ Len(T!Take(s, n)) = Len(s) - n
BY DEF T!Take

LEMMA TcpInit == T!Init => TcpInv
<1> SUFFICES ASSUME T!Init PROVE TcpInv
  OBVIOUS
<1>1. peer \in PeerType
  BY DEF T!Init, PeerType
<1> QED BY <1>1, Zenon DEF T!Init, TcpInv, T!is_connected, T!NothingStalls

LEMMA FdClosesInv ==
    ASSUME TcpInv, NEW told \in BOOLEAN, T!FdCloses(told), epoch' \in Nat,
           peer' \in PeerType
    PROVE  TcpInv'
BY Zenon DEF TcpInv, T!FdCloses, T!is_connected, T!NothingStalls

LEMMA TcpClientInv ==
    ASSUME TcpInv, NEW told \in BOOLEAN, NEW close \in BOOLEAN, NEW n \in T!Amounts,
           \/ T!Connect \/ T!Commit \/ T!PopFront(n)
           \/ T!Reset(told) \/ T!FdBreaks(told) \/ T!Disconnect(close, told)
    PROVE  TcpInv'
<1>0. epoch' = epoch /\ peer' = peer
  BY DEF T!Connect, T!Commit, T!PopFront, T!Reset, T!FdBreaks, T!Disconnect
<1>1. CASE T!Connect
  BY <1>1 DEF T!Connect, TcpInv, T!is_connected, T!NothingStalls
<1>2. CASE T!Commit
  <2>1. tcpFes /\ Append(tcpInput, epoch) \in Seq({epoch})
    BY <1>2 DEF T!Commit, T!is_connected, TcpInv
  <2> QED BY <1>2, <2>1 DEF T!Commit, TcpInv, T!is_connected, T!NothingStalls
<1>3. CASE T!PopFront(n)
  <2>1. T!is_connected => tcpOutput' \in Seq({epoch})
    BY <1>3, TakeOfSeq DEF T!PopFront, T!Amounts, TcpInv
  <2> QED BY <1>3, <2>1 DEF T!PopFront, T!ReadAgain, TcpInv, T!is_connected, T!NothingStalls
<1>4. CASE T!Reset(told)
  <2>1. CASE tcpFes /\ tcpInput = <<>>
    BY <1>0, <1>4, <2>1, FdClosesInv DEF T!Reset, T!ChannelClose, TcpInv
  <2>2. CASE ~(tcpFes /\ tcpInput = <<>>)
    BY <1>4, <2>2, Zenon DEF T!Reset, T!ChannelClose, TcpInv, T!is_connected, T!NothingStalls
  <2> QED BY <2>1, <2>2
<1>5. CASE T!FdBreaks(told)
  BY <1>0, <1>5, FdClosesInv DEF T!FdBreaks, TcpInv
<1>6. CASE T!Disconnect(close, told)
  BY <1>6, Zenon DEF T!Disconnect, TcpInv, T!is_connected, T!NothingStalls
<1> QED BY <1>1, <1>2, <1>3, <1>4, <1>5, <1>6

LEMMA TcpReadInv ==
    ASSUME TcpInv, NEW offered \in T!Amounts, NEW read \in T!Amounts, NEW taken \in T!Amounts,
           NEW handled \in BOOLEAN, NEW told \in BOOLEAN,
           T!FdRead(offered, read, taken, handled, told)
    PROVE  TcpInv'
<1> DEFINE full == Len(tcpOutput) = TcpSize
           left == IF full THEN T!Take(tcpOutput, offered) ELSE tcpOutput
           got  == left \o SubSeq(peer.sent, 1, read)
<1>1. /\ tcpFes /\ "read" \in tcpEvents
      /\ full \/ offered = 0
      /\ offered <= Len(tcpOutput) /\ read <= Len(peer.sent) /\ taken <= Len(got)
      /\ epoch' = epoch
  BY Zenon DEF T!FdRead
<1>2. offered \in Nat /\ read \in Nat /\ taken \in Nat /\ TcpSize \in Nat /\ epoch \in Nat
  BY PlatformAssumption DEF T!Amounts, TcpInv
<1>3. peer \in PeerType /\ peer.sent \in Seq({epoch})
  BY <1>1 DEF TcpInv
<1>4. /\ SubSeq(peer.sent, 1, read) \in Seq({epoch})
      /\ T!Take(peer.sent, read) \in Seq({epoch}) /\ T!Take(peer.sent, read) \in Seq(Nat)
  <2>1. peer.sent \in Seq(Nat)
    BY <1>3 DEF PeerType
  <2> QED BY <1>1, <1>2, <1>3, <2>1, TakeOfSeq
<1>5. ASSUME T!is_connected PROVE left \in Seq({epoch}) /\ T!Take(got, taken) \in Seq({epoch})
  <2>1. tcpOutput \in Seq({epoch})
    BY <1>5 DEF TcpInv
  <2>2. left \in Seq({epoch})
    BY <1>1, <1>2, <2>1, TakeOfSeq
  <2>3. got \in Seq({epoch})
    BY <1>4, <2>2
  <2> QED BY <1>1, <1>2, <2>2, <2>3, TakeOfSeq, Zenon
<1>6. CASE /\ Len(left) = TcpSize /\ read = 0
           /\ tcpEvents' = tcpEvents \ {"read"}
           /\ UNCHANGED <<wanted, sealed, tcpShut, tcpFes, tcpInput, tcpOutput, peer>>
  <2>1. T!is_connected => Len(tcpOutput) = TcpSize
    <3>1. CASE full
      BY <3>1
    <3>2. CASE ~full
      BY <1>6, <3>2
    <3> QED BY <3>1, <3>2
  <2> QED BY <1>1, <1>2, <1>6, <2>1 DEF TcpInv, T!is_connected, T!NothingStalls
<1>7. CASE /\ tcpOutput' = T!Take(got, taken)
           /\ peer' = [peer EXCEPT !.sent = T!Take(@, read)]
           /\ IF handled THEN UNCHANGED <<wanted, sealed, tcpShut, tcpFes, tcpEvents, tcpInput>>
              ELSE T!FdCloses(told)
  <2>1. peer' \in PeerType /\ peer'.sent \in Seq({epoch})
    BY <1>3, <1>4, <1>7 DEF PeerType
  <2>2. CASE ~handled
    BY <1>1, <1>2, <1>7, <2>1, <2>2, FdClosesInv, Zenon
  <2>3. CASE handled
    <3>1. T!is_connected => tcpOutput' \in Seq({epoch})
      BY <1>5, <1>7
    <3>2. UNCHANGED <<wanted, sealed, tcpShut, tcpFes, tcpEvents, tcpInput>>
      BY <1>7, <2>3
    <3>3. "read" \in tcpEvents /\ epoch' = epoch
      BY <1>1
    <3> HIDE DEF got, left
    <3> QED BY <2>1, <3>1, <3>2, <3>3 DEF TcpInv, T!is_connected, T!NothingStalls
  <2> QED BY <2>2, <2>3
<1>8. CASE T!FdCloses(told) /\ UNCHANGED peer
  BY <1>1, <1>2, <1>3, <1>8, FdClosesInv
<1> QED BY <1>6, <1>7, <1>8, Zenon DEF T!FdRead

LEMMA TcpWriteInv ==
    ASSUME TcpInv, NEW asked \in T!Amounts, NEW written \in T!Amounts, NEW again \in T!Amounts,
           NEW told \in BOOLEAN, T!FdWrite(asked, written, again, told)
    PROVE  TcpInv'
<1> DEFINE before == IF T!is_connected /\ tcpInput = <<>> THEN [i \in 1..asked |-> epoch]
                     ELSE tcpInput
           left   == T!Take(before, written)
           after  == IF T!is_connected /\ before # <<>> /\ left = <<>>
                       THEN [i \in 1..again |-> epoch] ELSE left
<1>1. /\ tcpFes /\ "write" \in tcpEvents /\ written <= Len(before)
      /\ IF tcpShut /\ after = <<>> THEN T!FdCloses(told)
         ELSE /\ tcpInput' = after
              /\ tcpEvents' = IF ~tcpShut /\ after = <<>> THEN tcpEvents \ {"write"} ELSE tcpEvents
              /\ UNCHANGED <<wanted, sealed, tcpShut, tcpFes>>
      /\ tcpOutput' = tcpOutput /\ peer' = peer /\ epoch' = epoch
  BY Zenon DEF T!FdWrite
<1>2. asked \in Nat /\ written \in Nat /\ again \in Nat
  BY PlatformAssumption DEF T!Amounts
<1>3. before \in Seq({epoch})
  BY <1>1, <1>2 DEF TcpInv
<1>4. left \in Seq({epoch})
  BY <1>1, <1>2, <1>3, TakeOfSeq
<1>5. after \in Seq({epoch})
  BY <1>2, <1>4
<1>6. CASE tcpShut /\ after = <<>>
  BY <1>1, <1>6, FdClosesInv, Zenon DEF TcpInv
<1>7. CASE ~(tcpShut /\ after = <<>>)
  <2> HIDE DEF after
  <2> QED BY <1>1, <1>5, <1>7, Zenon DEF TcpInv, T!is_connected, T!NothingStalls
<1> QED BY <1>6, <1>7

LEMMA TcpConnectInv ==
    ASSUME TcpInv, NEW taken \in T!Amounts, NEW ok \in BOOLEAN, NEW told \in BOOLEAN,
           T!HandleConnect(taken, ok, told)
    PROVE  TcpInv'
<1>1. tcpOutput' = <<>> /\ ~T!is_connected
  BY DEF T!HandleConnect
<1>2. CASE tcpInput # <<>>
  BY <1>1, <1>2 DEF T!HandleConnect, TcpInv, T!is_connected, T!NothingStalls
<1>3. CASE tcpInput = <<>>
  <2>1. epoch' \in Nat /\ peer' = [sent |-> <<>>, gone |-> FALSE]
    BY <1>3 DEF T!HandleConnect, TcpInv
  <2>2. peer' \in PeerType /\ peer'.sent = <<>>
    BY <2>1 DEF PeerType
  <2>3. CASE ok
    <3>1. /\ tcpShut' = FALSE /\ tcpFes' = TRUE /\ tcpEvents' = {"read", "write"}
          /\ tcpInput' = <<>> /\ wanted' = wanted /\ sealed' = sealed
      BY <1>3, <2>3 DEF T!HandleConnect
    <3>2. <<>> \in Seq({epoch'})
      OBVIOUS
    <3> QED BY <1>1, <2>1, <2>2, <3>1, <3>2, Zenon DEF TcpInv, T!is_connected, T!NothingStalls
  <2>4. CASE ~ok
    BY <1>3, <2>1, <2>2, <2>4, FdClosesInv DEF T!HandleConnect
  <2> QED BY <2>3, <2>4
<1> QED BY <1>2, <1>3

LEMMA TcpPeerInv ==
    ASSUME TcpInv, T!PeerSends \/ T!PeerCloses
    PROVE  TcpInv'
<1>1. /\ tcpFes /\ epoch \in Nat /\ peer \in PeerType
      /\ peer.sent \in Seq({epoch})
  BY DEF T!PeerSends, T!PeerCloses, TcpInv
<1>2. peer' \in PeerType /\ peer'.sent \in Seq({epoch})
  <2>1. peer.sent \in Seq(Nat) /\ peer.gone \in BOOLEAN
    BY <1>1 DEF PeerType
  <2>2. Append(peer.sent, epoch) \in Seq({epoch}) /\ Append(peer.sent, epoch) \in Seq(Nat)
    BY <1>1, <2>1
  <2>3. CASE T!PeerSends
    BY <1>1, <2>2, <2>3, Zenon DEF T!PeerSends, PeerType
  <2>4. CASE T!PeerCloses
    BY <1>1, <2>4, Zenon DEF T!PeerCloses, PeerType
  <2> QED BY <2>3, <2>4
<1>3. UNCHANGED <<wanted, sealed, tcpShut, tcpFes, tcpEvents, tcpInput, tcpOutput, epoch>>
  BY DEF T!PeerSends, T!PeerCloses
<1> QED BY <1>2, <1>3 DEF TcpInv, T!is_connected, T!NothingStalls

LEMMA TcpNext == TcpInv /\ [T!Next]_tcpVars => TcpInv'
<1> SUFFICES ASSUME TcpInv, [T!Next]_tcpVars PROVE TcpInv'
  OBVIOUS
<1>1. CASE UNCHANGED tcpVars
  BY <1>1 DEF tcpVars, TcpInv, T!is_connected, T!NothingStalls
<1>2. CASE T!Next
  <2>1. 0 \in T!Amounts
    BY PlatformAssumption DEF T!Amounts
  <2> QED BY <1>2, <2>1, TcpClientInv, TcpReadInv, TcpWriteInv, TcpConnectInv, TcpPeerInv,
             ZenonT(40) DEF T!Next
<1> QED BY <1>1, <1>2

LEMMA TcpDoesNotMix == TcpInv => T!StreamsDoNotMix /\ T!NothingStalls
<1>1. ASSUME NEW s \in Seq({epoch}) PROVE T!Range(s) \subseteq {epoch}
  BY DEF T!Range
<1> QED BY <1>1 DEF TcpInv, T!StreamsDoNotMix, T!is_connected

-----------------------------------------------------------------------------
(* A UDP connection.                                                       *)

ModeType == [low : BOOLEAN, latest : BOOLEAN]
ConnType == [closed : BOOLEAN, disconnected : BOOLEAN, connected : BOOLEAN, remote : BOOLEAN]
GroupsType ==
    [stored : SUBSET Groups, doubled : SUBSET Groups,
     joined : SUBSET Groups, refused : SUBSET Groups]

UdpInv ==
    /\ mode \in ModeType /\ conn \in ConnType /\ groups \in GroupsType
    /\ timer \in BOOLEAN /\ udpShut \in BOOLEAN /\ udpFes \in BOOLEAN
    /\ udpFes \/ udpShut
    /\ udpInput \in 0..UdpSize /\ udpOutput \in 0..UdpSize
    /\ U!LostSocketComesBack /\ U!GroupsSurvive /\ U!NothingStalls /\ U!FreshOnly

LEMMA UdpInit == U!Init => UdpInv
<1> SUFFICES ASSUME U!Init PROVE UdpInv
  OBVIOUS
<1>1. /\ mode \in ModeType /\ conn \in ConnType /\ conn.disconnected = TRUE /\ groups \in GroupsType
  BY DEF U!Init, ModeType, ConnType, GroupsType
<1>2. /\ timer = FALSE /\ udpShut = TRUE /\ udpFes = FALSE /\ udpInput = 0 /\ udpOutput = 0
      /\ 0 \in 0..UdpSize
  BY PlatformAssumption DEF U!Init
<1>3. U!LostSocketComesBack
  BY <1>1 DEF U!LostSocketComesBack
<1>4. U!GroupsSurvive /\ U!NothingStalls
  BY <1>2 DEF U!GroupsSurvive, U!NothingStalls, U!is_connected
<1>5. U!FreshOnly
  BY <1>2 DEF U!FreshOnly
<1> QED BY <1>1, <1>2, <1>3, <1>4, <1>5, Zenon DEF UdpInv

\* A channel that lost its descriptor, or gave it up, holds nothing to be sent.
LEMMA UdpGoneInv ==
    ASSUME UdpInv, udpShut' = TRUE, udpFes' = FALSE, udpInput' = 0,
           conn' \in ConnType, timer' \in BOOLEAN,
           conn'.closed \/ conn'.disconnected \/ timer',
           mode' = mode, groups' \in GroupsType, udpOutput' = udpOutput
    PROVE  UdpInv'
<1>1. 0 \in 0..UdpSize
  BY PlatformAssumption
<1>2. U!LostSocketComesBack'
  BY DEF U!LostSocketComesBack
<1>3. U!GroupsSurvive' /\ U!NothingStalls'
  BY DEF U!GroupsSurvive, U!NothingStalls, U!is_connected
<1>4. U!FreshOnly'
  BY DEF UdpInv, U!FreshOnly
<1> QED BY <1>1, <1>2, <1>3, <1>4, Zenon DEF UdpInv

LEMMA UdpClosesInv ==
    ASSUME UdpInv, NEW told \in BOOLEAN, U!FdCloses(told), mode' = mode,
           groups' \in GroupsType, udpOutput' = udpOutput
    PROVE  UdpInv'
<1>1. /\ conn' \in ConnType /\ timer' \in BOOLEAN
      /\ conn'.disconnected \/ conn'.closed \/ timer'
  BY Zenon DEF U!FdCloses, U!CloseNow, UdpInv, ConnType
<1>2. udpShut' = TRUE /\ udpFes' = FALSE /\ udpInput' = 0
  BY DEF U!FdCloses, U!CloseNow
<1> QED BY <1>1, <1>2, UdpGoneInv, Zenon

\* A socket that opens has joined every group.
LEMMA UdpOpensInv ==
    ASSUME UdpInv, U!JoinStored, U!AssignFd, udpInput' = udpInput,
           conn' \in ConnType, timer' \in BOOLEAN, mode' = mode, udpOutput' = udpOutput
    PROVE  UdpInv'
<1>1. groups' \in GroupsType /\ groups'.joined = groups'.stored /\ groups'.refused = {}
  BY Zenon DEF U!JoinStored, UdpInv, GroupsType
<1>2. udpShut' = FALSE /\ udpFes' = TRUE /\ udpEvents' = {"read", "write"}
  BY DEF U!AssignFd
<1>3. groups'.joined = groups'.stored \ groups'.refused
  BY <1>1
<1> QED BY <1>1, <1>2, <1>3, Zenon
        DEF UdpInv, U!LostSocketComesBack, U!GroupsSurvive, U!NothingStalls, U!FreshOnly,
            U!is_connected

LEMMA JoinKeeps ==
    ASSUME NEW stored, NEW joined, NEW refused, NEW g, joined = stored \ refused
    PROVE  /\ joined \cup {g} = (stored \cup {g}) \ (refused \ {g})
           /\ joined = (stored \cup {g}) \ (refused \cup ({g} \ joined))
           /\ joined \ {g} = (stored \ {g}) \ (refused \ {g})
OBVIOUS

LEMMA UdpGroupsInv ==
    ASSUME UdpInv, NEW g \in Groups, NEW ok \in BOOLEAN, U!Join(g, ok) \/ U!Leave(g)
    PROVE  UdpInv'
<1> DEFINE stored == groups.stored
           joined == groups.joined
           refused == groups.refused
<1>1. stored \in SUBSET Groups /\ joined \in SUBSET Groups /\ refused \in SUBSET Groups
  BY DEF UdpInv, GroupsType
<1>2. U!is_connected => joined = stored \ refused
  BY DEF UdpInv, U!GroupsSurvive
<1>3. UNCHANGED <<mode, conn, timer, udpShut, udpFes, udpEvents, udpInput, udpOutput>>
  BY DEF U!Join, U!Leave, U!chan
<1>4. CASE U!Join(g, ok)
  <2>1. /\ groups'.stored = stored \cup {g}
        /\ groups'.joined = IF U!is_connected /\ ok THEN joined \cup {g} ELSE joined
        /\ groups'.refused = IF U!is_connected /\ ok THEN refused \ {g}
                             ELSE IF U!is_connected THEN refused \cup ({g} \ joined) ELSE refused
        /\ groups' \in GroupsType
    BY <1>1, <1>4, Zenon DEF U!Join, UdpInv, GroupsType
  <2> HIDE DEF stored, joined, refused
  <2>2. U!is_connected => groups'.joined = groups'.stored \ groups'.refused
    BY <1>2, <2>1, JoinKeeps
  <2> QED BY <1>3, <2>1, <2>2
          DEF UdpInv, U!LostSocketComesBack, U!GroupsSurvive, U!NothingStalls, U!FreshOnly,
              U!is_connected
<1>5. CASE U!Leave(g)
  <2>1. /\ groups'.stored = stored \ {g}
        /\ groups'.joined = IF U!is_connected THEN joined \ {g} ELSE joined
        /\ groups'.refused = refused \ {g}
        /\ groups' \in GroupsType
    BY <1>1, <1>5, Zenon DEF U!Leave, UdpInv, GroupsType
  <2> HIDE DEF stored, joined, refused
  <2>2. U!is_connected => groups'.joined = groups'.stored \ groups'.refused
    BY <1>2, <2>1, JoinKeeps
  <2> QED BY <1>3, <2>1, <2>2
          DEF UdpInv, U!LostSocketComesBack, U!GroupsSurvive, U!NothingStalls, U!FreshOnly,
              U!is_connected
<1> QED BY <1>4, <1>5

\* What only moves datagrams, or the events waited for, between two states of a channel.
UdpMoves ==
    /\ UNCHANGED <<mode, conn, timer, udpShut, udpFes, groups>>
    /\ udpInput' \in 0..UdpSize /\ udpOutput' \in 0..UdpSize
    /\ U!NothingStalls' /\ U!FreshOnly'

LEMMA UdpMovesInv == ASSUME UdpInv, UdpMoves PROVE UdpInv'
BY DEF UdpMoves, UdpInv, U!LostSocketComesBack, U!GroupsSurvive, U!is_connected

LEMMA UdpReadInv ==
    ASSUME UdpInv, NEW offered \in U!Amounts, NEW good \in U!Amounts, NEW taken \in U!Amounts,
           U!FdRead(offered, good, taken)
    PROVE  UdpInv'
<1> DEFINE left  == udpOutput - offered
           full  == left = UdpSize \/ (~mode.latest /\ left + good = UdpSize)
           after == U!Received(left, good)
<1>1. /\ udpFes /\ "read" \in udpEvents /\ offered <= udpOutput /\ good <= UdpSize - left
      /\ taken <= after
      /\ udpOutput' = after - taken
      /\ udpEvents' = IF full /\ taken = 0 THEN udpEvents \ {"read"} ELSE udpEvents
      /\ UNCHANGED <<mode, conn, timer, udpShut, udpFes, udpInput, groups>>
  BY DEF U!FdRead
<1>2. /\ offered \in Nat /\ good \in Nat /\ taken \in Nat /\ UdpSize \in Nat
      /\ udpOutput \in Nat /\ udpOutput <= UdpSize /\ mode.latest \in BOOLEAN
      /\ (mode.latest => udpOutput <= 1)
  BY PlatformAssumption DEF U!Amounts, UdpInv, ModeType, U!FreshOnly
<1>3. /\ after \in Nat /\ after <= UdpSize /\ (mode.latest => after <= 1)
      /\ (full /\ taken = 0 => after = UdpSize)
  BY <1>1, <1>2 DEF U!Received
<1> HIDE DEF after
<1>4. udpOutput' \in 0..UdpSize /\ (mode.latest => udpOutput' <= 1)
  BY <1>1, <1>2, <1>3
<1>5. udpOutput' < UdpSize => "read" \in udpEvents'
  BY <1>1, <1>2, <1>3
<1>6. "write" \in udpEvents => "write" \in udpEvents'
  BY <1>1
<1>7. U!NothingStalls' /\ U!FreshOnly' /\ udpInput' \in 0..UdpSize
  BY <1>1, <1>4, <1>5, <1>6 DEF UdpInv, U!NothingStalls, U!FreshOnly, U!is_connected
<1> QED BY <1>1, <1>4, <1>7, UdpMovesInv DEF UdpMoves

LEMMA UdpWriteInv ==
    ASSUME UdpInv, NEW n \in U!Amounts, NEW idle \in BOOLEAN, NEW told \in BOOLEAN,
           U!FdWrite(n, idle, told)
    PROVE  UdpInv'
<1>1. /\ udpFes /\ "write" \in udpEvents /\ mode' = mode /\ udpOutput' = udpOutput
      /\ groups' = groups
  BY DEF U!FdWrite
<1>2. CASE udpShut /\ n = 0
  BY <1>1, <1>2, UdpClosesInv DEF U!FdWrite, UdpInv
<1>3. CASE udpShut /\ n # 0
  <2>1. /\ udpInput' = n /\ UNCHANGED <<conn, timer, udpShut, udpFes, udpEvents>>
        /\ n <= udpInput /\ n \in 0..UdpSize
    BY <1>3 DEF U!FdWrite, U!Amounts
  <2>2. n > 0 /\ (mode.low => n <= 1)
    BY <1>3, <2>1, PlatformAssumption DEF UdpInv, U!FreshOnly
  <2>3. U!NothingStalls' /\ U!FreshOnly' /\ udpOutput' \in 0..UdpSize
    BY <1>1, <1>3, <2>1, <2>2 DEF UdpInv, U!NothingStalls, U!FreshOnly, U!is_connected
  <2> QED BY <1>1, <2>1, <2>3, UdpMovesInv DEF UdpMoves
<1>4. CASE ~udpShut
  <2>1. /\ udpInput' = n /\ UNCHANGED <<conn, timer, udpShut, udpFes>> /\ n \in 0..UdpSize
        /\ udpEvents' = IF idle THEN udpEvents \ {"write"} ELSE udpEvents
    BY <1>4 DEF U!FdWrite, U!Amounts
  <2>2. (mode.low => n <= 1) /\ (idle => n = 0)
    BY <1>4 DEF U!FdWrite, U!LowRefill
  <2>3. "read" \in udpEvents => "read" \in udpEvents'
    BY <2>1
  <2>4. n > 0 => "write" \in udpEvents'
    BY <1>1, <2>1, <2>2
  <2>5. U!NothingStalls' /\ U!FreshOnly' /\ udpOutput' \in 0..UdpSize
    BY <1>1, <1>4, <2>1, <2>2, <2>3, <2>4 DEF UdpInv, U!NothingStalls, U!FreshOnly, U!is_connected
  <2> QED BY <1>1, <2>1, <2>5, UdpMovesInv DEF UdpMoves
<1> QED BY <1>2, <1>3, <1>4 DEF UdpInv

LEMMA UdpClearInv ==
    ASSUME UdpInv, NEW n \in U!Amounts, NEW told \in BOOLEAN, U!ClearUnwritten(n, told)
    PROVE  UdpInv'
<1>1. /\ udpInput > 0 /\ mode' = mode /\ udpOutput' = udpOutput /\ groups' = groups
  BY DEF U!ClearUnwritten
<1>2. CASE udpShut
  BY <1>1, <1>2, UdpClosesInv DEF U!ClearUnwritten, UdpInv
<1>3. CASE ~udpShut
  <2>1. /\ udpInput' = n /\ UNCHANGED <<conn, timer, udpShut, udpFes>> /\ n \in 0..UdpSize
        /\ n <= U!SpaceLeft(0, udpEvents, FALSE)
        /\ udpEvents' = udpEvents \/ (n = 0 /\ udpEvents' = udpEvents \ {"write"})
    BY <1>3, Zenon DEF U!ClearUnwritten, U!Amounts
  <2>2. mode.low => n <= 1
    BY <2>1, PlatformAssumption DEF U!SpaceLeft
  <2>3. "read" \in udpEvents => "read" \in udpEvents'
    BY <2>1
  <2>4. "write" \in udpEvents
    BY <1>1, <1>3 DEF UdpInv, U!NothingStalls
  <2>5. n > 0 => "write" \in udpEvents'
    BY <2>1, <2>4
  <2>6. U!NothingStalls' /\ U!FreshOnly' /\ udpOutput' \in 0..UdpSize
    BY <1>1, <1>3, <2>1, <2>2, <2>3, <2>5 DEF UdpInv, U!NothingStalls, U!FreshOnly, U!is_connected
  <2> QED BY <1>1, <2>1, <2>6, UdpMovesInv DEF UdpMoves
<1> QED BY <1>2, <1>3

LEMMA UdpClientInv ==
    ASSUME UdpInv, NEW n \in U!Amounts, U!Commit \/ U!Pop(n)
    PROVE  UdpInv'
<1>1. CASE U!Commit
  <2>1. /\ U!SpaceLeft(udpInput, udpEvents, FALSE) > 0 /\ udpInput' = udpInput + 1
        /\ udpEvents' = udpEvents \cup {"write"}
        /\ UNCHANGED <<mode, conn, timer, udpShut, udpFes, udpOutput, groups>>
    BY <1>1, Zenon DEF U!Commit
  <2>2. U!is_connected /\ (mode.low => udpInput = 0) /\ (~mode.low => UdpSize - udpInput > 0)
    BY <2>1 DEF U!SpaceLeft, UdpInv
  <2>3. udpInput' \in 0..UdpSize /\ (mode.low => udpInput' <= 1)
    BY <2>1, <2>2, PlatformAssumption DEF UdpInv
  <2>4. U!NothingStalls' /\ U!FreshOnly' /\ udpOutput' \in 0..UdpSize
    BY <2>1, <2>2, <2>3 DEF UdpInv, U!NothingStalls, U!FreshOnly, U!is_connected
  <2> QED BY <2>1, <2>3, <2>4, UdpMovesInv DEF UdpMoves
<1>2. CASE U!Pop(n)
  <2>1. /\ n \in 1..udpOutput /\ udpOutput' = udpOutput - n
        /\ udpEvents' = IF U!is_connected THEN udpEvents \cup {"read"} ELSE udpEvents
        /\ UNCHANGED <<mode, conn, timer, udpShut, udpFes, udpInput, groups>>
    BY <1>2 DEF U!Pop
  <2>2. udpOutput' \in 0..UdpSize /\ udpOutput' <= udpOutput
    BY <2>1, PlatformAssumption DEF UdpInv
  <2>3. mode.latest => udpOutput' <= 1
    BY <2>1, <2>2, PlatformAssumption DEF UdpInv, U!FreshOnly
  <2>4. U!NothingStalls' /\ U!FreshOnly' /\ udpInput' \in 0..UdpSize
    BY <2>1, <2>3 DEF UdpInv, U!NothingStalls, U!FreshOnly, U!is_connected
  <2> QED BY <2>1, <2>2, <2>4, UdpMovesInv DEF UdpMoves
<1> QED BY <1>1, <1>2

\* A channel closed from above keeps its descriptor only to send what it holds.
LEMMA UdpShutsInv ==
    ASSUME UdpInv, conn' \in ConnType, conn'.disconnected = TRUE, timer' = FALSE,
           mode' = mode, udpOutput' = udpOutput, groups' = groups, U!ChannelClose
    PROVE  UdpInv'
<1>1. CASE udpFes /\ udpInput > 0
  <2>1. /\ udpShut' = TRUE /\ udpFes' = udpFes /\ udpInput' = udpInput
        /\ ("write" \in udpEvents => "write" \in udpEvents')
    BY <1>1 DEF U!ChannelClose
  <2>2. U!LostSocketComesBack'
    BY DEF U!LostSocketComesBack
  <2>3. U!GroupsSurvive' /\ U!NothingStalls' /\ U!FreshOnly'
    BY <1>1, <2>1 DEF UdpInv, U!GroupsSurvive, U!NothingStalls, U!FreshOnly, U!is_connected
  <2> QED BY <1>1, <2>1, <2>2, <2>3, Zenon DEF UdpInv
<1>2. CASE ~(udpFes /\ udpInput > 0)
  <2>1. udpShut' = TRUE /\ udpFes' = FALSE /\ udpInput' = 0
    BY <1>2 DEF U!ChannelClose
  <2>2. groups' \in GroupsType
    BY DEF UdpInv
  <2> QED BY <2>1, <2>2, UdpGoneInv, Zenon
<1> QED BY <1>1, <1>2

LEMMA UdpOwnerInv ==
    ASSUME UdpInv, NEW remote \in BOOLEAN, NEW connected \in BOOLEAN, NEW told \in BOOLEAN,
           NEW close \in BOOLEAN,
           \/ U!FdBreaks(told) \/ U!HandleTimer(told) \/ U!ConnectFails(told)
           \/ U!Open(remote, connected, told) \/ U!OpenFails(remote, connected)
           \/ U!Disconnect(close, told) \/ U!StrayCloses(told)
    PROVE  UdpInv'
<1>1. groups \in GroupsType /\ conn \in ConnType
  BY DEF UdpInv
<1>2. U!JoinStored => groups' \in GroupsType
  BY <1>1, Zenon DEF U!JoinStored, GroupsType
<1>3. CASE U!FdBreaks(told)
  BY <1>1, <1>3, UdpClosesInv DEF U!FdBreaks
<1>4. CASE U!ConnectFails(told)
  BY <1>2, <1>4, UdpClosesInv DEF U!ConnectFails
<1>5. CASE U!HandleTimer(told)
  <2>1. CASE told
    BY <1>1, <1>5, <2>1, UdpOpensInv, Zenon DEF U!HandleTimer
  <2>2. CASE ~told
    <3>1. U!FdCloses(told) /\ mode' = mode /\ groups' \in GroupsType /\ udpOutput' = udpOutput
      BY <1>2, <1>5, <2>2 DEF U!HandleTimer, U!FdCloses
    <3> QED BY <3>1, UdpClosesInv
  <2> QED BY <2>1, <2>2
<1>6. CASE U!Open(remote, connected, told)
  <2> DEFINE asked == [closed |-> FALSE, disconnected |-> FALSE, connected |-> connected,
                       remote |-> (told /\ remote) \/ (connected /\ conn.remote)]
  <2>1. asked \in ConnType /\ [asked EXCEPT !.closed = TRUE, !.disconnected = TRUE] \in ConnType
    BY Zenon DEF ConnType
  <2>2. CASE told
    <3>1. /\ U!JoinStored /\ U!AssignFd /\ udpInput' = udpInput /\ mode' = mode
          /\ udpOutput' = udpOutput /\ timer' = timer /\ conn' = asked
      BY <1>6, <2>2 DEF U!Open
    <3> QED BY <2>1, <3>1, UdpOpensInv DEF UdpInv
  <2>3. CASE ~told
    <3>1. /\ conn' \in ConnType /\ conn'.closed = TRUE /\ groups' \in GroupsType
          /\ udpShut' = TRUE /\ udpFes' = FALSE /\ udpInput' = 0 /\ timer' = FALSE
          /\ mode' = mode /\ udpOutput' = udpOutput
      BY <1>2, <1>6, <2>1, <2>3, Zenon DEF U!Open, ConnType
    <3> QED BY <3>1, UdpGoneInv, Zenon
  <2> QED BY <2>2, <2>3
<1>7. CASE U!OpenFails(remote, connected)
  <2>1. /\ conn' = [conn EXCEPT !.connected = connected, !.remote = @ /\ connected]
        /\ UNCHANGED <<mode, timer, udpShut, udpFes, udpEvents, udpInput, udpOutput, groups>>
    BY <1>7 DEF U!OpenFails, U!chan
  <2>2. conn' \in ConnType /\ conn'.closed = conn.closed /\ conn'.disconnected = conn.disconnected
    BY <1>1, <2>1, Zenon DEF ConnType
  <2> QED BY <2>1, <2>2
          DEF UdpInv, U!LostSocketComesBack, U!GroupsSurvive, U!NothingStalls, U!FreshOnly,
              U!is_connected
<1>8. CASE U!Disconnect(close, told)
  <2>1. /\ conn' \in ConnType /\ conn'.disconnected = TRUE /\ timer' = FALSE
        /\ mode' = mode /\ udpOutput' = udpOutput /\ groups' = groups /\ U!ChannelClose
    BY <1>1, <1>8, Zenon DEF U!Disconnect, ConnType
  <2> QED BY <2>1, UdpShutsInv, Zenon
<1>9. CASE U!StrayCloses(told)
  <2>1. mode' = mode /\ udpOutput' = udpOutput /\ groups' = groups /\ udpShut
    BY <1>9 DEF U!StrayCloses
  <2>2. CASE told
    <3>1. /\ timer' = (timer \/ ~conn.disconnected)
          /\ UNCHANGED <<conn, udpShut, udpFes, udpEvents, udpInput>>
      BY <1>9, <2>2 DEF U!StrayCloses
    <3>2. timer' \in BOOLEAN /\ (timer => timer')
      BY <3>1, Zenon DEF UdpInv
    <3> QED BY <2>1, <3>1, <3>2
            DEF UdpInv, U!LostSocketComesBack, U!GroupsSurvive, U!NothingStalls, U!FreshOnly,
                U!is_connected
  <2>3. CASE ~told
    <3>1. /\ conn' \in ConnType /\ conn'.disconnected = TRUE /\ timer' = FALSE /\ U!ChannelClose
      BY <1>1, <1>9, <2>3, Zenon DEF U!StrayCloses, ConnType
    <3> QED BY <2>1, <3>1, UdpShutsInv, Zenon
  <2> QED BY <2>2, <2>3
<1> QED BY <1>3, <1>4, <1>5, <1>6, <1>7, <1>8, <1>9

LEMMA UdpNext == UdpInv /\ [U!Next]_udpVars => UdpInv'
<1> SUFFICES ASSUME UdpInv, [U!Next]_udpVars PROVE UdpInv'
  OBVIOUS
<1>1. CASE UNCHANGED udpVars
  BY <1>1 DEF udpVars, UdpInv, U!LostSocketComesBack, U!GroupsSurvive, U!NothingStalls,
              U!FreshOnly, U!is_connected
<1>2. CASE U!Next
  <2>1. 0 \in U!Amounts
    BY PlatformAssumption DEF U!Amounts
  <2> QED BY <1>2, <2>1, UdpClientInv, UdpReadInv, UdpWriteInv, UdpClearInv, UdpOwnerInv,
             UdpGroupsInv, Zenon DEF U!Next
<1> QED BY <1>1, <1>2

-----------------------------------------------------------------------------
(* Downloads.                                                              *)

LEMMA ModBounds ==
    ASSUME NEW n \in Nat, NEW m \in Nat \ {0}
    PROVE  n % m \in Nat /\ n % m <= n
OBVIOUS

Positions == 0..(FileSize - 1)
FileType == [Positions -> (Urls \X Positions) \cup {D!Hole}]

\* What comes before this place of the temporary file is in its place.
Reached == IF handle = "added" /\ lost # -1 THEN lost ELSE cursor

InPlace(f, u, n) == \A k \in Positions : k < n => f[k] = <<u, k>>

\* A transfer counts no more than it wrote, and sends the chunk that belongs at the
\* cursor until it loses one, with any positions, also beyond what resume_from can hold.
TransferInv ==
    handle = "added" =>
        /\ status = "in_progress" /\ ~retryPending
        /\ resume + now <= cursor /\ counted <= now /\ counted <= received
        /\ cursor <= sent /\ sent <= FileSize
        /\ lost = -1 => sent = cursor
        /\ lost # -1 => lost \in Nat /\ lost <= cursor /\ lost < FileSize /\ cursor < sent

CurlInv ==
    /\ {cursor, received, now, counted, sent, resume} \subseteq Nat /\ lost \in Int
    /\ file \in FileType /\ url \in Urls
    /\ cursor <= FileSize
    /\ TransferInv
    /\ retryPending => status = "in_progress"
    /\ status = "in_progress" => received <= cursor /\ (~missed => InPlace(file, url, Reached))
    /\ D!SuccessIsTheFile /\ D!ProgressHasACause

LEMMA CurlInit == D!Init => CurlInv
<1> SUFFICES ASSUME D!Init PROVE CurlInv
  OBVIOUS
<1>1. file \in FileType /\ url \in Urls
  BY DEF D!Init, D!Blank, FileType, Positions
<1>2. /\ status = "idle" /\ handle = "none" /\ retryPending = FALSE /\ cursor = 0 /\ received = 0
      /\ resume = 0 /\ now = 0 /\ counted = 0 /\ sent = 0 /\ lost = -1
      /\ fresh = FALSE /\ missed = FALSE /\ stuck = FALSE
  BY DEF D!Init
<1> QED BY <1>1, <1>2, PlatformAssumption
        DEF CurlInv, TransferInv, D!SuccessIsTheFile, D!ProgressHasACause

\* A transfer that is set up at the cursor.
LEMMA CurlSetUpInv ==
    ASSUME CurlInv, NEW at \in Nat, D!SetUp(at), at = cursor', at <= FileSize,
           received' \in Nat, received' <= at, file' \in FileType, url' \in Urls,
           ~missed' => InPlace(file', url', at),
           status' = "in_progress", retryPending' = FALSE
    PROVE  CurlInv'
<1>1. /\ handle' = "added" /\ resume' = at % Wrap /\ now' = 0 /\ counted' = 0 /\ sent' = at /\ lost' = -1
  BY DEF D!SetUp
<1>2. resume' \in Nat /\ resume' <= at
  BY <1>1, ModBounds, PlatformAssumption, Zenon
<1>3. TransferInv'
  BY <1>1, <1>2 DEF TransferInv
<1>4. ~missed' => InPlace(file, url, Reached)'
  BY <1>1 DEF InPlace, Reached, Positions
<1> QED BY <1>1, <1>2, <1>3, <1>4 DEF CurlInv, D!SuccessIsTheFile, D!ProgressHasACause

LEMMA CurlDownloadInv ==
    ASSUME CurlInv, NEW u \in Urls, D!DownloadFile(u)
    PROVE  CurlInv'
<1>1. /\ status # "in_progress" /\ cursor' = 0 /\ received' = 0 /\ url' = u
      /\ file' = (IF Truncates THEN D!Blank ELSE file)
      /\ retryPending' = retryPending /\ missed' = FALSE /\ stuck' = stuck
  BY DEF D!DownloadFile, D!Start
<1>2. handle # "added" /\ ~retryPending
  BY <1>1 DEF CurlInv, TransferInv
<1>3. file' \in FileType
  BY <1>1 DEF D!Blank, CurlInv, FileType, Positions
<1>4. InPlace(file', url', 0)
  BY PlatformAssumption DEF InPlace, Positions
<1>5. CASE D!SetUp(cursor') /\ status' = "in_progress" /\ fresh' = TRUE
  <2>1. D!SetUp(0)
    BY <1>1, <1>5
  <2>2. 0 <= FileSize /\ retryPending' = FALSE
    BY <1>1, <1>2, PlatformAssumption DEF CurlInv
  <2>3. /\ 0 \in Nat /\ 0 = cursor' /\ received' \in Nat /\ received' <= 0 /\ url' \in Urls
        /\ status' = "in_progress"
    BY <1>1, <1>5
  <2> QED BY <1>3, <1>4, <2>1, <2>2, <2>3, CurlSetUpInv, Zenon
<1>6. CASE D!SetUpFails /\ status' = status /\ fresh' = FALSE
  <2>1. handle' # "added" /\ UNCHANGED <<resume, now, counted, sent, lost>>
    BY <1>2, <1>6 DEF D!SetUpFails, D!transfer
  <2>2. D!SuccessIsTheFile' /\ D!ProgressHasACause' /\ TransferInv'
    BY <1>1, <1>6, <2>1 DEF D!SuccessIsTheFile, D!ProgressHasACause, TransferInv
  <2>3. /\ {cursor', received', now', counted', sent', resume'} \subseteq Nat /\ lost' \in Int
        /\ cursor' <= FileSize
    BY <1>1, <1>6, <2>1, PlatformAssumption DEF CurlInv
  <2> QED BY <1>1, <1>2, <1>3, <1>6, <2>2, <2>3 DEF CurlInv
<1> QED BY <1>5, <1>6, Zenon DEF D!DownloadFile

LEMMA CurlDispatchInv == ASSUME CurlInv, D!Dispatch PROVE CurlInv'
<1>1. /\ retryPending /\ retryPending' = FALSE
      /\ UNCHANGED <<status, url, file, cursor, received, fresh, missed>>
  BY DEF D!Dispatch, D!content
<1>2. status = "in_progress" /\ handle # "added" /\ (~missed => InPlace(file, url, cursor))
  BY <1>1 DEF CurlInv, TransferInv, Reached
<1>3. CASE D!SetUp(cursor) /\ stuck' = stuck
  <2>1. /\ cursor \in Nat /\ cursor = cursor' /\ cursor <= FileSize /\ received' \in Nat
        /\ received' <= cursor /\ file' \in FileType /\ url' \in Urls
        /\ (~missed' => InPlace(file', url', cursor)) /\ status' = "in_progress"
    BY <1>1, <1>2, <1>3 DEF CurlInv
  <2> QED BY <1>1, <1>3, <2>1, CurlSetUpInv, Zenon
<1>4. CASE D!SetUpFails /\ stuck' = TRUE
  <2>1. handle' # "added" /\ UNCHANGED <<resume, now, counted, sent, lost>>
    BY <1>2, <1>4 DEF D!SetUpFails, D!transfer
  <2>2. ~missed' => InPlace(file, url, Reached)'
    BY <1>1, <1>2, <2>1 DEF InPlace, Reached
  <2> QED BY <1>1, <1>2, <1>4, <2>1, <2>2
          DEF CurlInv, TransferInv, D!SuccessIsTheFile, D!ProgressHasACause
<1> QED BY <1>3, <1>4, Zenon DEF D!Dispatch

LEMMA CurlWriteInv == ASSUME CurlInv, D!Write PROVE CurlInv'
<1>1. /\ handle = "added" /\ sent < FileSize
      /\ file' = [file EXCEPT ![cursor] = <<url, sent>>]
      /\ cursor' = cursor + 1 /\ now' = now + 1 /\ sent' = sent + 1
      /\ UNCHANGED <<status, handle, retryPending, url, received, resume, counted, lost, fresh, missed, stuck>>
  BY DEF D!Write, D!history
<1>2. /\ cursor \in Nat /\ received \in Nat /\ now \in Nat /\ counted \in Nat /\ sent \in Nat
      /\ resume \in Nat /\ lost \in Int /\ file \in FileType /\ url \in Urls /\ FileSize \in Nat
      /\ TransferInv /\ status = "in_progress" /\ received <= cursor
      /\ ~missed => InPlace(file, url, Reached)
  BY <1>1, PlatformAssumption DEF CurlInv, TransferInv
<1>3. /\ resume + now <= cursor /\ cursor <= sent /\ (lost = -1 => sent = cursor)
      /\ lost # -1 => lost \in Nat /\ lost <= cursor
      /\ ~retryPending
  BY <1>1, <1>2 DEF TransferInv
<1>4. cursor \in Positions /\ sent \in Positions
  BY <1>1, <1>2, <1>3 DEF Positions
<1>5. /\ file' \in FileType
      /\ file'[cursor] = <<url, sent>>
      /\ \A k \in Positions : k # cursor => file'[k] = file[k]
  <2>1. <<url, sent>> \in (Urls \X Positions) \cup {D!Hole}
    BY <1>2, <1>4
  <2> DEFINE Chunks == (Urls \X Positions) \cup {D!Hole}
             chunk == <<url, sent>>
  <2>2. chunk \in Chunks /\ file \in [Positions -> Chunks] /\ file' = [file EXCEPT ![cursor] = chunk]
    BY <1>1, <1>2, <2>1 DEF FileType
  <2> HIDE DEF Chunks, chunk
  <2>3. /\ file' \in [Positions -> Chunks] /\ file'[cursor] = chunk
        /\ \A k \in Positions : k # cursor => file'[k] = file[k]
    BY <1>4, <2>2
  <2> QED BY <2>3 DEF Chunks, chunk, FileType
<1>6. TransferInv'
  BY <1>1, <1>2, <1>3 DEF TransferInv
<1>7. ~missed' => InPlace(file, url, Reached)'
  <2> SUFFICES ASSUME ~missed, NEW k \in Positions, k < Reached' PROVE file'[k] = <<url, k>>
    BY <1>1 DEF InPlace
  <2>1. k \in Nat
    BY <1>2 DEF Positions
  <2>2. CASE lost = -1
    <3>1. k < cursor + 1 /\ sent = cursor /\ Reached = cursor
      BY <1>1, <1>3, <2>2 DEF Reached
    <3>2. k < cursor \/ k = cursor
      BY <1>2, <2>1, <3>1
    <3> QED BY <1>2, <1>5, <3>1, <3>2 DEF InPlace
  <2>3. CASE lost # -1
    <3>1. k < lost /\ Reached = lost /\ k # cursor
      BY <1>1, <1>2, <1>3, <2>1, <2>3 DEF Reached
    <3> QED BY <1>2, <1>5, <3>1 DEF InPlace
  <2> QED BY <2>2, <2>3
<1>8. /\ {cursor', received', now', counted', sent', resume'} \subseteq Nat /\ lost' \in Int
      /\ cursor' <= FileSize /\ received' <= cursor'
  BY <1>1, <1>2, <1>3
<1> QED BY <1>1, <1>2, <1>5, <1>6, <1>7, <1>8
        DEF CurlInv, FileType, D!SuccessIsTheFile, D!ProgressHasACause

LEMMA CurlProgressInv == ASSUME CurlInv, D!Progress PROVE CurlInv'
<1>1. /\ handle = "added" /\ counted' = now /\ received' = resume + now
      /\ UNCHANGED <<status, handle, retryPending, url, file, cursor, resume, now, sent, lost,
                     fresh, missed, stuck>>
  BY DEF D!Progress, D!content, D!history
<1>2. /\ cursor \in Nat /\ now \in Nat /\ resume \in Nat
      /\ received' \in Nat /\ counted' \in Nat /\ received' <= cursor'
  BY <1>1 DEF CurlInv, TransferInv
<1>3. TransferInv'
  BY <1>1, <1>2 DEF CurlInv, TransferInv
<1>4. Reached' = Reached
  BY <1>1 DEF Reached
<1> QED BY <1>1, <1>2, <1>3, <1>4 DEF CurlInv, InPlace, D!SuccessIsTheFile, D!ProgressHasACause

LEMMA CurlLoseInv == ASSUME CurlInv, D!Lose PROVE CurlInv'
<1>1. /\ handle = "added" /\ sent < FileSize /\ sent' = sent + 1
      /\ lost' = (IF lost = -1 THEN cursor ELSE lost)
      /\ UNCHANGED <<status, handle, retryPending, url, file, cursor, received, resume, now, counted,
                     fresh, missed, stuck>>
  BY DEF D!Lose, D!content, D!history
<1>2. cursor \in Nat /\ sent \in Nat /\ lost \in Int /\ FileSize \in Nat
  BY PlatformAssumption DEF CurlInv
<1>3. TransferInv'
  BY <1>1, <1>2 DEF CurlInv, TransferInv
<1>4. Reached' = Reached
  BY <1>1, <1>2 DEF Reached
<1>5. sent' \in Nat /\ lost' \in Int
  BY <1>1, <1>2
<1> QED BY <1>1, <1>2, <1>3, <1>4, <1>5 DEF CurlInv, InPlace, D!SuccessIsTheFile, D!ProgressHasACause

LEMMA CurlCompleteInv == ASSUME CurlInv, D!Complete PROVE CurlInv'
<1>1. /\ handle = "added" /\ handle' = "none"
      /\ UNCHANGED <<url, file, resume, now, counted, sent, lost, fresh, stuck>>
  BY DEF D!Complete, D!transfer
<1>2. /\ cursor \in Nat /\ received \in Nat /\ now \in Nat /\ counted \in Nat /\ sent \in Nat
      /\ lost \in Int /\ resume \in Nat
      /\ FileSize \in Nat /\ Rewind \in Nat /\ cursor <= FileSize /\ received <= cursor
      /\ status = "in_progress" /\ (~missed => InPlace(file, url, Reached))
      /\ lost = -1 => sent = cursor
      /\ lost # -1 => lost \in Nat /\ lost <= cursor
      /\ counted <= received
  BY <1>1, PlatformAssumption DEF CurlInv, TransferInv
<1>3. ~retryPending /\ file \in FileType /\ url \in Urls
  BY <1>1 DEF CurlInv, TransferInv
<1>4. ASSUME cursor' \in Nat, cursor' <= cursor, received' \in Nat, received' <= cursor',
             ~missed' => ~missed /\ cursor' <= Reached, D!Retry
      PROVE  CurlInv'
  <2>1. Reached' = cursor' /\ Reached \in Int
    BY <1>1, <1>2 DEF Reached
  <2>2. ~missed' => InPlace(file', url', cursor')
    BY <1>1, <1>2, <1>4, <2>1 DEF InPlace, Positions
  <2>3. \/ retryPending' = TRUE /\ status' = "in_progress"
        \/ status' = "failed" /\ retryPending' = retryPending
    BY <1>2, <1>4 DEF D!Retry
  <2>4. ~missed' => InPlace(file, url, Reached)'
    BY <2>1, <2>2 DEF InPlace
  <2>5. TransferInv' /\ D!SuccessIsTheFile' /\ D!ProgressHasACause'
    BY <1>1, <2>3 DEF TransferInv, D!SuccessIsTheFile, D!ProgressHasACause
  <2>6. cursor' <= FileSize
    BY <1>1, <1>2, <1>4
  <2> QED BY <1>1, <1>2, <1>3, <1>4, <2>3, <2>4, <2>5, <2>6 DEF CurlInv
<1>5. CASE /\ sent = FileSize /\ lost = -1 /\ status' = "success"
           /\ UNCHANGED <<retryPending, cursor, received, missed>>
  <2>1. Reached = FileSize
    BY <1>2, <1>5 DEF Reached
  <2>2. ~missed => \A k \in Positions : file'[k] = <<url', k>>
    BY <1>1, <1>2, <2>1 DEF InPlace, Positions
  <2>3. D!SuccessIsTheFile'
    BY <1>5, <2>2, Zenon DEF D!SuccessIsTheFile, Positions
  <2> QED BY <1>1, <1>2, <1>3, <1>5, <2>3 DEF CurlInv, TransferInv, D!ProgressHasACause
<1>6. CASE D!Retry /\ missed' = (missed \/ D!OutOfReach(FALSE)) /\ UNCHANGED <<cursor, received>>
  <2>1. ~missed' => ~missed /\ ~D!OutOfReach(FALSE)
    BY <1>6, Zenon
  <2>2. ~D!OutOfReach(FALSE) => cursor <= Reached
    BY <1>2 DEF Reached, D!OutOfReach
  <2>3. /\ cursor' = cursor /\ received' = received /\ D!Retry
        /\ ~missed' => ~missed /\ cursor' <= Reached
    BY <1>6, <2>1, <2>2, Zenon
  <2> QED BY <1>2, <1>4, <2>3
<1>7. CASE /\ cursor' = cursor - D!StepBack /\ received' = cursor' /\ D!Retry
           /\ missed' = (missed \/ D!OutOfReach(TRUE))
  <2>1. D!StepBack \in Nat /\ D!StepBack <= received
    BY <1>2 DEF D!StepBack
  <2>2. cursor' \in Nat /\ cursor' <= cursor
    BY <1>2, <1>7, <2>1
  <2>3. ASSUME ~D!OutOfReach(TRUE), lost # -1 PROVE cursor - lost <= D!StepBack
    BY <1>2, <2>3 DEF D!OutOfReach, D!StepBack
  <2>4. ~D!OutOfReach(TRUE) => cursor' <= Reached
    BY <1>2, <1>7, <2>1, <2>2, <2>3 DEF Reached
  <2>5. ~missed' => ~missed /\ cursor' <= Reached
    BY <1>7, <2>4, Zenon
  <2>6. received' = cursor' /\ D!Retry
    BY <1>7, Zenon
  <2> QED BY <1>2, <1>4, <2>2, <2>5, <2>6
<1>8. CASE status' = "failed" /\ UNCHANGED <<retryPending, cursor, received, missed>>
  BY <1>1, <1>2, <1>3, <1>8 DEF CurlInv, TransferInv, D!SuccessIsTheFile, D!ProgressHasACause
<1> QED BY <1>5, <1>6, <1>7, <1>8 DEF D!Complete

LEMMA CurlCancelInv == ASSUME CurlInv, D!CancelDownload PROVE CurlInv'
BY DEF D!CancelDownload, D!content, D!transfer, CurlInv, TransferInv, D!SuccessIsTheFile,
       D!ProgressHasACause

LEMMA CurlMoveInv == ASSUME CurlInv, D!MoveTempFile PROVE CurlInv'
<1>1. /\ status # "in_progress" /\ cursor' = 0 /\ fresh' = FALSE /\ file' = D!Blank
      /\ UNCHANGED <<status, handle, retryPending, url, received, resume, now, counted, sent, lost,
                     missed, stuck>>
  BY DEF D!MoveTempFile, D!transfer
<1>2. file' \in FileType
  BY <1>1 DEF D!Blank, FileType, Positions
<1> QED BY <1>1, <1>2, PlatformAssumption
        DEF CurlInv, TransferInv, D!SuccessIsTheFile, D!ProgressHasACause

LEMMA CurlNext == CurlInv /\ [D!Next]_curlVars => CurlInv'
<1> SUFFICES ASSUME CurlInv, [D!Next]_curlVars PROVE CurlInv'
  OBVIOUS
<1>1. CASE UNCHANGED curlVars
  BY <1>1 DEF curlVars, CurlInv, TransferInv, InPlace, Reached, D!SuccessIsTheFile,
              D!ProgressHasACause
<1>2. CASE D!Next
  BY <1>2, CurlDownloadInv, CurlDispatchInv, CurlWriteInv, CurlProgressInv, CurlLoseInv, CurlCompleteInv,
     CurlCancelInv, CurlMoveInv DEF D!Next
<1> QED BY <1>1, <1>2

-----------------------------------------------------------------------------
(* The tokens of a slate and their accountant.                             *)

TokenIds == {K!Dead, K!Default, K!Bound} \cup K!Invalid
Unbound == {t \in Tokens : id[t] \in K!Invalid}
Defaults == {t \in Tokens : id[t] = K!Default}

\* The accountant that is off has forgotten nobody: the last build found nothing.
TokenInv ==
    /\ enabled \in BOOLEAN /\ id \in [Tokens -> TokenIds]
    /\ next \in Nat /\ first \in Nat /\ valid_count \in Nat /\ default_count \in Nat
    /\ \A t \in Unbound : id[t] < next
    /\ frames = {id[t] : t \in Unbound}
    /\ \A t, s \in Unbound : id[t] = id[s] => t = s
    /\ default_count >= Cardinality(Defaults)
    /\ valid_count + Cardinality(frames) = next - first
    /\ ~enabled => frames = {}

LEMMA TokensInit == K!Init => TokenInv
<1> SUFFICES ASSUME K!Init PROVE TokenInv
  OBVIOUS
<1>1. id = [t \in Tokens |-> -3] /\ enabled = TRUE /\ frames = {} /\ first = 0 /\ next = 0
      /\ valid_count = 0 /\ default_count = 0
  BY DEF K!Init, K!Dead
<1>2. Unbound = {} /\ Defaults = {}
  BY <1>1, PlatformAssumption DEF Unbound, Defaults, K!Invalid, K!Default
<1>3. id \in [Tokens -> TokenIds]
  BY <1>1 DEF TokenIds, K!Dead
<1> QED BY <1>1, <1>2, <1>3, FS_EmptySet DEF TokenInv

LEMMA SetsAreFinite ==
    ASSUME TokenInv
    PROVE  /\ IsFiniteSet(Defaults) /\ IsFiniteSet(frames)
           /\ Cardinality(Defaults) \in Nat /\ Cardinality(frames) \in Nat
<1>1. Defaults \subseteq Tokens /\ frames \subseteq 0..(MaxTokenIds - 1)
  BY DEF Defaults, Unbound, TokenInv, K!Invalid
<1>2. IsFiniteSet(0..(MaxTokenIds - 1))
  <2>1. 0 \in Int /\ MaxTokenIds - 1 \in Int
    BY PlatformAssumption, SMTT(30)
  <2> QED BY <2>1, FS_Interval
<1>3. IsFiniteSet(Defaults) /\ IsFiniteSet(frames)
  BY <1>1, <1>2, FS_Subset, PlatformAssumption, Zenon
<1> QED BY <1>3, FS_CardinalityType

\* One token gets another ID; the old one is settled, a new one is its own.
Retokens(t, v) ==
    /\ id' = [id EXCEPT ![t] = v]
    /\ frames' = K!Settled(id[t]).left \cup (IF v \in K!Invalid THEN {v} ELSE {})
    /\ valid_count' = K!Settled(id[t]).count
    /\ next' = (IF v \in K!Invalid THEN next + 1 ELSE next)
    /\ v \in K!Invalid => v = next /\ enabled
    /\ default_count' >= default_count + K!Number(v = K!Default) - K!Number(id[t] = K!Default)
    /\ enabled' = enabled /\ first' = first

LEMMA RetokensInv ==
    ASSUME TokenInv, NEW t \in Tokens, NEW v \in TokenIds, Retokens(t, v), default_count' \in Int
    PROVE  TokenInv'
<1> DEFINE new == IF v \in K!Invalid THEN {v} ELSE {}
           mine == IF v \in K!Invalid THEN {t} ELSE {}
           old == id[t]
<1>1. /\ id \in [Tokens -> TokenIds] /\ id' \in [Tokens -> TokenIds]
      /\ id'[t] = v /\ \A s \in Tokens : s # t => id'[s] = id[s]
  BY DEF TokenInv, Retokens
<1>2. Unbound' = (Unbound \ {t}) \cup mine
  BY <1>1 DEF Unbound
<1>3. Defaults' = (Defaults \ {t}) \cup (IF v = K!Default THEN {t} ELSE {})
  BY <1>1 DEF Defaults
<1>4. v \in K!Invalid => v = next /\ v \notin frames /\ next \in Nat
  BY DEF TokenInv, Retokens
<1>5. K!Settled(old).left = frames \ {old}
  BY Zenon DEF K!Settled, TokenInv
<1>6. frames' = (frames \ {old}) \cup new
  BY <1>5 DEF Retokens
<1>7. /\ next' \in Nat /\ next' >= next /\ (v \in K!Invalid => v < next')
      /\ first' = first /\ enabled' = enabled /\ (~enabled => frames = {} /\ new = {})
  BY <1>4 DEF Retokens, TokenInv
<1> HIDE DEF new, mine
<1>8. \A s \in Unbound' : id'[s] < next'
  BY <1>1, <1>2, <1>7 DEF TokenInv, mine, Unbound, K!Invalid
<1>9. frames' = {id'[s] : s \in Unbound'}
  <2>1. frames = {id[s] : s \in Unbound} /\ \A s, u \in Unbound : id[s] = id[u] => s = u
    BY DEF TokenInv
  <2>2. {id'[s] : s \in Unbound \ {t}} = frames \ {old}
    <3>1. \A s \in Unbound \ {t} : id'[s] = id[s] /\ s # t /\ s \in Unbound /\ s \in Tokens
      BY <1>1 DEF Unbound
    <3>2. \A s \in Unbound \ {t} : id[s] # old
      <4>1. \A s \in Unbound : id[s] = old => t \in Unbound
        BY DEF Unbound
      <4> QED BY <2>1, <4>1
    <3>3. \A x \in frames \ {old} : \E s \in Unbound \ {t} : x = id[s]
      BY <2>1
    <3> QED BY <2>1, <3>1, <3>2, <3>3
  <2>3. {id'[s] : s \in mine} = new
    BY <1>1 DEF mine, new
  <2>4. {id'[s] : s \in Unbound'} = {id'[s] : s \in Unbound \ {t}} \cup {id'[s] : s \in mine}
    BY <1>2
  <2> QED BY <1>6, <2>2, <2>3, <2>4
<1>10. \A s, u \in Unbound' : id'[s] = id'[u] => s = u
  <2> SUFFICES ASSUME NEW s \in Unbound', NEW u \in Unbound', id'[s] = id'[u], s # u PROVE FALSE
    OBVIOUS
  <2>1. \A x \in Unbound' : x \in Tokens /\ (x # t => x \in Unbound /\ id'[x] = id[x] /\ id[x] \in frames)
    BY <1>1, <1>2 DEF Unbound, mine, TokenInv
  <2>2. t \in Unbound' => id'[t] \notin frames
    BY <1>1, <1>2, <1>4 DEF mine, Unbound
  <2>3. s # t /\ u # t
    BY <2>1, <2>2
  <2> QED BY <2>1, <2>3 DEF TokenInv
<1>11. default_count' >= Cardinality(Defaults')
  <2> DEFINE rest == Defaults \ {t}
             c == Cardinality(rest)
  <2>1. IsFiniteSet(Defaults) /\ Cardinality(Defaults) \in Nat
    BY SetsAreFinite
  <2>2. IsFiniteSet(rest) /\ c = Cardinality(Defaults) - K!Number(old = K!Default)
    BY <2>1, FS_RemoveElement DEF Defaults, K!Number
  <2>3. c \in Nat
    BY <2>2, FS_CardinalityType
  <2>4. Cardinality(Defaults') = c + K!Number(v = K!Default)
    <3>1. CASE v = K!Default
      <4>1. Defaults' = rest \cup {t} /\ t \notin rest
        BY <1>3, <3>1
      <4> QED BY <2>2, <3>1, <4>1, FS_AddElement, Zenon DEF K!Number
    <3>2. CASE v # K!Default
      <4>1. Defaults' = rest
        BY <1>3, <3>2
      <4> QED BY <2>3, <3>2, <4>1 DEF K!Number
    <3> QED BY <3>1, <3>2
  <2>5. default_count >= Cardinality(Defaults) /\ default_count \in Nat
    BY DEF TokenInv
  <2>6. default_count' >= default_count + K!Number(v = K!Default) - K!Number(old = K!Default)
    BY DEF Retokens
  <2>7. K!Number(v = K!Default) \in {0, 1} /\ K!Number(old = K!Default) \in {0, 1}
    BY DEF K!Number
  <2> HIDE DEF c
  <2> QED BY <2>1, <2>2, <2>3, <2>4, <2>5, <2>6, <2>7
<1>12. valid_count' \in Nat /\ valid_count' + Cardinality(frames') = next' - first'
  <2> DEFINE rest == frames \ {old}
             n == Cardinality(frames)
             c == Cardinality(rest)
  <2>1. IsFiniteSet(frames) /\ n \in Nat
    BY SetsAreFinite
  <2>2. /\ valid_count \in Nat /\ next \in Nat /\ first \in Nat /\ valid_count + n = next - first
        /\ (~enabled => frames = {})
    BY Zenon DEF TokenInv
  <2>3. IsFiniteSet(rest) /\ c = (IF old \in frames THEN n - 1 ELSE n) /\ c \in Nat
    BY <2>1, FS_RemoveElement, FS_CardinalityType
  <2>4. valid_count' = IF old \in frames THEN valid_count + 1 ELSE valid_count
    BY <2>2 DEF Retokens, K!Settled
  <2>5. Cardinality(frames') = c + (next' - next)
    <3>1. CASE v \in K!Invalid
      <4>1. frames' = rest \cup {v} /\ v \notin rest /\ next' = next + 1
        BY <1>4, <1>6, <3>1 DEF new, Retokens
      <4>2. Cardinality(frames') = c + 1
        BY <2>3, <4>1, FS_AddElement, Zenon
      <4> HIDE DEF c
      <4> QED BY <2>2, <2>3, <4>1, <4>2
    <3>2. CASE v \notin K!Invalid
      <4>1. frames' = rest /\ next' = next
        BY <1>6, <3>2 DEF new, Retokens
      <4> QED BY <2>2, <2>3, <4>1
    <3> QED BY <3>1, <3>2
  <2> HIDE DEF n, c
  <2> QED BY <1>7, <2>1, <2>2, <2>3, <2>4, <2>5
<1>13. default_count' \in Nat
  <2>1. IsFiniteSet(Defaults')
    <3>1. Defaults' \subseteq Tokens
      BY <1>1 DEF Defaults
    <3> QED BY <3>1, FS_Subset, PlatformAssumption
  <2>2. Cardinality(Defaults') \in Nat
    BY <2>1, FS_CardinalityType
  <2> QED BY <1>11, <2>2
<1>14. ~enabled' => frames' = {}
  BY <1>6, <1>7
<1> QED BY <1>1, <1>7, <1>8, <1>9, <1>10, <1>11, <1>12, <1>13, <1>14 DEF TokenInv

\* An ID that was never there is not settled.
LEMMA DeadIsUnsettled ==
    ASSUME TokenInv
    PROVE  /\ K!Dead \notin frames /\ K!Dead \notin K!Invalid /\ K!Default \notin K!Invalid
           /\ K!Bound \notin K!Invalid
BY PlatformAssumption DEF TokenInv, Unbound, K!Dead, K!Default, K!Bound, K!Invalid

\* set, of a token that held old, or none.
LEMMA SetInv ==
    ASSUME TokenInv, NEW t \in Tokens, NEW s \in Tokens, id[s] # K!Dead, K!Set(t, s, id[t]),
           enabled' = enabled, first' = first
    PROVE  TokenInv'
<1> DEFINE v == IF id[s] = K!Bound THEN K!Bound ELSE IF enabled THEN next ELSE K!Default
<1>1. /\ enabled \in BOOLEAN /\ next \in Nat /\ default_count \in Nat
  BY DEF TokenInv
<1>2. id[s] # K!Bound => next < MaxTokenIds /\ default_count < MaxDefault
  BY DEF K!Set, K!Generate
<1>3. v \in TokenIds /\ (v \in K!Invalid <=> id[s] # K!Bound /\ enabled)
  BY <1>1, <1>2, PlatformAssumption DEF TokenIds, K!Invalid, K!Bound, K!Default
<1>4. v = K!Default <=> id[s] # K!Bound /\ ~enabled
  BY <1>1 DEF K!Bound, K!Default
<1>5. /\ id' = [id EXCEPT ![t] = v] /\ valid_count' = K!Settled(id[t]).count
      /\ frames' = K!Settled(id[t]).left \cup (IF v \in K!Invalid THEN {v} ELSE {})
      /\ next' = (IF v \in K!Invalid THEN next + 1 ELSE next)
  BY <1>1, <1>3 DEF K!Set, K!Generate, K!Number
<1>6. /\ default_count' = default_count + K!Number(v = K!Default) - K!Number(id[t] = K!Default)
  BY <1>1, <1>4 DEF K!Set, K!Number
<1>7. K!Number(v = K!Default) \in {0, 1} /\ K!Number(id[t] = K!Default) \in {0, 1}
  BY DEF K!Number
<1>8. v \in K!Invalid => v = next /\ enabled
  BY <1>3
<1> HIDE DEF v
<1>9. default_count' \in Int
  BY <1>1, <1>6, <1>7
<1>10. Retokens(t, v)
  BY <1>5, <1>6, <1>8, <1>9 DEF Retokens
<1> QED BY <1>3, <1>9, <1>10, RetokensInv

LEMMA TokenStepInv ==
    ASSUME TokenInv, NEW t \in Tokens, NEW s \in Tokens,
           \/ K!New(t) \/ K!Destroy(t) \/ K!Bind(t) \/ K!Copy(t, s) \/ K!Assign(t, s)
    PROVE  TokenInv'
<1>1. /\ enabled \in BOOLEAN /\ next \in Nat /\ default_count \in Nat
  BY DEF TokenInv
<1>2. K!Settled(K!Dead).left = frames /\ K!Settled(K!Dead).count = valid_count
  BY DeadIsUnsettled DEF K!Settled
<1>3. K!Number(id[t] = K!Default) \in {0, 1}
  BY DEF K!Number
<1>4. CASE K!New(t)
  <2> DEFINE v == IF enabled THEN next ELSE K!Default
  <2>1. /\ id[t] = K!Dead /\ K!Generate(t, K!Dead) /\ valid_count' = valid_count
        /\ default_count' = default_count + K!Number(~enabled) /\ enabled' = enabled /\ first' = first
    BY <1>4 DEF K!New
  <2>2. v \in TokenIds /\ (v \in K!Invalid <=> enabled) /\ (v = K!Default <=> ~enabled)
    BY <1>1, <2>1, PlatformAssumption DEF K!Generate, TokenIds, K!Invalid, K!Default
  <2>3. /\ id' = [id EXCEPT ![t] = v]
        /\ frames' = frames \cup (IF v \in K!Invalid THEN {v} ELSE {})
        /\ next' = (IF v \in K!Invalid THEN next + 1 ELSE next)
    BY <1>1, <1>2, <2>1, <2>2 DEF K!Generate, K!Number
  <2>4. v \in K!Invalid => v = next /\ enabled
    BY <2>2
  <2>5. default_count' = default_count + K!Number(v = K!Default)
    BY <2>1, <2>2 DEF K!Number
  <2>6. K!Number(v = K!Default) \in {0, 1} /\ K!Number(id[t] = K!Default) = 0
    BY <2>1 DEF K!Number, K!Dead, K!Default
  <2> HIDE DEF v
  <2>7. Retokens(t, v) /\ default_count' \in Int
    BY <1>1, <1>2, <2>1, <2>3, <2>4, <2>5, <2>6 DEF Retokens
  <2> QED BY <2>2, <2>7, RetokensInv
<1>5. CASE K!Destroy(t)
  <2>1. K!Dead \in TokenIds /\ K!Dead \notin K!Invalid /\ K!Number(K!Dead = K!Default) = 0
    BY DeadIsUnsettled DEF TokenIds, K!Number, K!Dead, K!Default
  <2>2. Retokens(t, K!Dead) /\ default_count' \in Int
    BY <1>1, <1>3, <1>5, <2>1 DEF Retokens, K!Destroy
  <2> QED BY <2>1, <2>2, RetokensInv
<1>6. CASE K!Bind(t)
  <2>1. K!Bound \in TokenIds /\ K!Bound \notin K!Invalid /\ K!Number(K!Bound = K!Default) = 0
    BY DeadIsUnsettled DEF TokenIds, K!Number, K!Bound, K!Default
  <2>2. Retokens(t, K!Bound) /\ default_count' \in Int
    BY <1>1, <1>3, <1>6, <2>1 DEF Retokens, K!Bind
  <2> QED BY <2>1, <2>2, RetokensInv
<1>7. CASE K!Copy(t, s)
  BY <1>7, SetInv DEF K!Copy, K!Living
<1>8. CASE K!Assign(t, s)
  BY <1>8, SetInv DEF K!Assign, K!Living
<1> QED BY <1>4, <1>5, <1>6, <1>7, <1>8

LEMMA AccountantInv ==
    ASSUME TokenInv, K!NewBuilder \/ K!Build
    PROVE  TokenInv'
<1>1. CASE K!NewBuilder
  <2>1. /\ UNCHANGED <<id, frames, first, next, valid_count, default_count>>
        /\ enabled' \in BOOLEAN /\ (enabled => enabled')
    BY <1>1 DEF K!NewBuilder, TokenInv
  <2> QED BY <2>1 DEF TokenInv, Unbound, Defaults
<1>2. CASE K!Build
  <2>1. /\ frames = {} /\ UNCHANGED <<id, next, default_count>>
        /\ enabled' = FALSE /\ first' = next /\ frames' = {} /\ valid_count' = 0
    BY <1>2 DEF K!Build, K!check_for_uninitialized_tokens, K!acknowledge_and_disable
  <2>2. Cardinality({}) = 0
    BY FS_EmptySet
  <2>3. Unbound' = Unbound /\ Defaults' = Defaults
    BY <2>1 DEF Unbound, Defaults
  <2>4. Unbound = {}
    BY <2>1 DEF TokenInv
  <2>5. next' - first' = 0 /\ valid_count' + Cardinality(frames') = 0
    BY <2>1, <2>2 DEF TokenInv
  <2>6. frames' = {id'[t] : t \in Unbound'}
    BY <2>1, <2>3, <2>4
  <2>7. default_count' >= Cardinality(Defaults')
    BY <2>1, <2>3 DEF TokenInv
  <2> QED BY <2>1, <2>3, <2>4, <2>5, <2>6, <2>7, Zenon DEF TokenInv
<1> QED BY <1>1, <1>2

LEMMA TokensNext == TokenInv /\ [K!Next]_tokenVars => TokenInv'
<1> SUFFICES ASSUME TokenInv, [K!Next]_tokenVars PROVE TokenInv'
  OBVIOUS
<1>1. CASE UNCHANGED tokenVars
  BY <1>1 DEF tokenVars, TokenInv, Unbound, Defaults
<1>2. CASE K!Next
  BY <1>2, TokenStepInv, AccountantInv DEF K!Next
<1> QED BY <1>1, <1>2

LEMMA AccountantKnows == TokenInv => K!NoTokenEscapes
<1> SUFFICES ASSUME TokenInv PROVE K!NoTokenEscapes
  OBVIOUS
<1>1. {t \in K!Living : id[t] \in K!Invalid} = Unbound
  BY DeadIsUnsettled DEF K!Living, Unbound
<1>2. {t \in K!Living : id[t] = K!Default} = Defaults
  BY DEF K!Living, Defaults, K!Default, K!Dead
<1>3. \A X : K!Cardinality(X) = Cardinality(X)
  BY DEF K!Cardinality, Cardinality
<1>4. K!check_for_uninitialized_tokens => \A t \in K!Living : id[t] = K!Bound
  <2> SUFFICES ASSUME K!check_for_uninitialized_tokens, NEW t \in K!Living PROVE id[t] = K!Bound
    OBVIOUS
  <2>1. frames = {} /\ default_count = 0 /\ t \in Tokens /\ id[t] # K!Dead
    BY DEF K!check_for_uninitialized_tokens, K!Living
  <2>2. t \notin Unbound
    BY <2>1 DEF TokenInv
  <2>3. Defaults = {}
    BY <2>1, SetsAreFinite, FS_EmptySet, SMTT(30) DEF TokenInv
  <2> QED BY <2>1, <2>2, <2>3 DEF TokenInv, TokenIds, Unbound, Defaults
<1> QED BY <1>1, <1>2, <1>3, <1>4, Zenon DEF K!NoTokenEscapes, TokenInv

-----------------------------------------------------------------------------
(* The registry of descriptors.                                            *)

LEMMA TheStandin ==
    /\ F!NonPollable = {2} /\ F!Standins = {3} /\ F!Clients = Sinks \ {3}
    /\ \A s : F!Target(s) = IF s = 3 THEN 2 ELSE s
<1>1. F!NonPollable = {2} /\ F!Standins = {3} /\ F!Clients = Sinks \ {3}
  BY DEF F!NonPollable, F!Standins, F!Range, F!Clients
<1>2. \A s : F!Target(s) = IF s = 3 THEN 2 ELSE s
  BY <1>1 DEF F!Target
<1> QED BY <1>1, <1>2

\* The place of the sinks in the bag's vector: the owned ones are the first n, each at its index.
Order(v, n, idx, own) ==
    /\ v \in Seq(Sinks) /\ n \in Nat /\ n <= Len(v)
    /\ idx \in [Sinks -> Nat] /\ own \in [Sinks -> BOOLEAN]
    /\ \A s \in Sinks : own[s] => idx[s] \in 1..n /\ v[idx[s]] = s
    /\ \A s \in Sinks : ~own[s] => idx[s] = 0
    /\ \A i \in 1..n : own[v[i]] /\ idx[v[i]] = i

HoldsEach(v, x) == \E i \in 1..Len(v) : v[i] = x

LEMMA PushOrder ==
    ASSUME NEW v, NEW n, NEW idx, NEW own, Order(v, n, idx, own), NEW x \in Sinks, ~own[x]
    PROVE  LET u == Append(v, x)
               w == [u EXCEPT ![n + 1] = x, ![Len(u)] = u[n + 1]]
           IN  /\ Order(w, n + 1, [idx EXCEPT ![x] = n + 1], [own EXCEPT ![x] = TRUE])
               /\ Len(w) = Len(v) + 1
               /\ \A y : HoldsEach(v, y) => HoldsEach(w, y)
<1> DEFINE u == Append(v, x)
           w == [u EXCEPT ![n + 1] = x, ![Len(u)] = u[n + 1]]
           j == [idx EXCEPT ![x] = n + 1]
           o == [own EXCEPT ![x] = TRUE]
           m == Len(v) + 1
<1>1. /\ v \in Seq(Sinks) /\ n \in Nat /\ n <= Len(v) /\ Len(v) \in Nat
      /\ idx \in [Sinks -> Nat] /\ own \in [Sinks -> BOOLEAN]
      /\ \A s \in Sinks : own[s] => idx[s] \in 1..n /\ v[idx[s]] = s
      /\ \A s \in Sinks : ~own[s] => idx[s] = 0
      /\ \A i \in 1..n : own[v[i]] /\ idx[v[i]] = i
  BY DEF Order
<1>2. /\ u \in Seq(Sinks) /\ Len(u) = m /\ u[m] = x /\ \A i \in 1..Len(v) : u[i] = v[i]
  BY <1>1
<1> HIDE DEF u
<1>3. /\ n + 1 \in 1..m /\ m \in Nat /\ m \in 1..m /\ u[n + 1] \in Sinks
  BY <1>1, <1>2
<1>4. /\ w \in Seq(Sinks) /\ Len(w) = m
      /\ \A i \in 1..m : i # n + 1 /\ i # m => w[i] = u[i]
      /\ w[m] = u[n + 1]
      /\ w[n + 1] = x
  BY <1>2, <1>3
<1>5. \A i \in 1..n : i \in 1..m /\ i # n + 1 /\ i # m /\ i \in 1..Len(v)
  BY <1>1
<1>6. \A i \in 1..n : w[i] = v[i]
  BY <1>2, <1>4, <1>5
<1>7. \A y : HoldsEach(v, y) => HoldsEach(w, y)
  <2> SUFFICES ASSUME NEW i \in 1..Len(v) PROVE \E k \in 1..m : w[k] = v[i]
    BY <1>4 DEF HoldsEach
  <2>1. i \in 1..m /\ i # m
    BY <1>1
  <2>2. CASE i = n + 1
    BY <1>2, <1>3, <1>4, <2>2
  <2>3. CASE i # n + 1
    BY <1>2, <1>4, <2>1, <2>3
  <2> QED BY <2>2, <2>3, Zenon
<1>8. /\ j \in [Sinks -> Nat] /\ o \in [Sinks -> BOOLEAN]
      /\ j[x] = n + 1 /\ o[x] = TRUE
      /\ \A s \in Sinks : s # x => j[s] = idx[s] /\ o[s] = own[s]
  BY <1>1
<1> HIDE DEF w, j, o
<1>9. \A s \in Sinks : o[s] => j[s] \in 1..(n + 1) /\ w[j[s]] = s
  <2> SUFFICES ASSUME NEW s \in Sinks, o[s] PROVE j[s] \in 1..(n + 1) /\ w[j[s]] = s
    OBVIOUS
  <2>1. CASE s = x
    BY <1>1, <1>4, <1>8, <2>1
  <2>2. CASE s # x
    <3>1. idx[s] \in 1..n /\ v[idx[s]] = s /\ j[s] = idx[s]
      BY <1>1, <1>8, <2>2
    <3> QED BY <1>1, <1>6, <3>1
  <2> QED BY <2>1, <2>2
<1>10. \A s \in Sinks : ~o[s] => j[s] = 0
  BY <1>1, <1>8
<1>11. \A i \in 1..(n + 1) : o[w[i]] /\ j[w[i]] = i
  <2> SUFFICES ASSUME NEW i \in 1..(n + 1) PROVE o[w[i]] /\ j[w[i]] = i
    OBVIOUS
  <2>1. CASE i = n + 1
    BY <1>4, <1>8, <2>1
  <2>2. CASE i \in 1..n
    <3>1. w[i] = v[i] /\ v[i] \in Sinks /\ own[v[i]] /\ idx[v[i]] = i
      BY <1>1, <1>5, <1>6, <2>2
    <3> QED BY <1>8, <3>1
  <2>3. i = n + 1 \/ i \in 1..n
    BY <1>1
  <2> QED BY <2>1, <2>2, <2>3
<1>12. n + 1 \in Nat /\ n + 1 <= Len(w)
  BY <1>1, <1>4
<1>13. Order(w, n + 1, j, o)
  BY <1>4, <1>8, <1>9, <1>10, <1>11, <1>12 DEF Order
<1> QED BY <1>4, <1>7, <1>13, Zenon DEF w, u, j, o

LEMMA TakeOrder ==
    ASSUME NEW v, NEW n, NEW idx, NEW own, Order(v, n, idx, own), NEW x \in Sinks, own[x]
    PROVE  LET w == [v EXCEPT ![idx[x]] = v[n], ![n] = x]
               j == [[idx EXCEPT ![v[n]] = idx[x]] EXCEPT ![x] = 0]
               o == [own EXCEPT ![x] = FALSE]
           IN  /\ Order(w, n - 1, j, o)
               /\ Len(w) = Len(v)
               /\ \A y : HoldsEach(v, y) => HoldsEach(w, y)
               /\ Len(v) = n => /\ Order(SubSeq(w, 1, Len(w) - 1), n - 1, j, o)
                                /\ Len(SubSeq(w, 1, Len(w) - 1)) = n - 1
<1> DEFINE w == [v EXCEPT ![idx[x]] = v[n], ![n] = x]
           j == [[idx EXCEPT ![v[n]] = idx[x]] EXCEPT ![x] = 0]
           o == [own EXCEPT ![x] = FALSE]
           at == idx[x]
           y0 == v[n]
<1>1. /\ v \in Seq(Sinks) /\ n \in Nat /\ n <= Len(v) /\ Len(v) \in Nat
      /\ idx \in [Sinks -> Nat] /\ own \in [Sinks -> BOOLEAN]
      /\ \A s \in Sinks : own[s] => idx[s] \in 1..n /\ v[idx[s]] = s
      /\ \A s \in Sinks : ~own[s] => idx[s] = 0
      /\ \A i \in 1..n : own[v[i]] /\ idx[v[i]] = i
  BY DEF Order
<1>2. /\ at \in 1..n /\ v[at] = x /\ n \in 1..n /\ n \in 1..Len(v) /\ at \in 1..Len(v)
      /\ y0 \in Sinks /\ own[y0] /\ idx[y0] = n
  BY <1>1
<1>3. /\ w \in Seq(Sinks) /\ Len(w) = Len(v)
      /\ \A i \in 1..Len(v) : i # at /\ i # n => w[i] = v[i]
      /\ w[n] = x
      /\ at # n => w[at] = y0
  BY <1>1, <1>2
<1>4. /\ j \in [Sinks -> Nat] /\ o \in [Sinks -> BOOLEAN]
      /\ j[x] = 0 /\ o[x] = FALSE
      /\ y0 # x => j[y0] = at
      /\ \A s \in Sinks : s # x => o[s] = own[s]
      /\ \A s \in Sinks : s # x /\ s # y0 => j[s] = idx[s]
  BY <1>1, <1>2
<1> HIDE DEF w, j, o, at, y0
<1>5. \A s \in Sinks : o[s] => j[s] \in 1..(n - 1) /\ w[j[s]] = s
  <2> SUFFICES ASSUME NEW s \in Sinks, o[s] PROVE j[s] \in 1..(n - 1) /\ w[j[s]] = s
    OBVIOUS
  <2>1. s # x /\ own[s]
    BY <1>4
  <2>2. idx[s] \in 1..n /\ v[idx[s]] = s
    BY <1>1, <2>1
  <2>3. CASE s = y0
    <3>1. j[s] = at /\ at # n
      BY <1>2, <1>4, <2>1, <2>3 DEF at, y0
    <3> QED BY <1>1, <1>2, <1>3, <2>3, <3>1
  <2>4. CASE s # y0
    <3>1. j[s] = idx[s] /\ idx[s] # at /\ idx[s] # n
      BY <1>2, <1>4, <2>1, <2>2, <2>4 DEF y0
    <3>2. idx[s] \in 1..Len(v) /\ idx[s] \in 1..(n - 1)
      BY <1>1, <2>2, <3>1
    <3> QED BY <1>3, <2>2, <3>1, <3>2
  <2> QED BY <2>3, <2>4
<1>6. \A s \in Sinks : ~o[s] => j[s] = 0
  <2> SUFFICES ASSUME NEW s \in Sinks, ~o[s] PROVE j[s] = 0
    OBVIOUS
  <2>1. CASE s = x
    BY <1>4, <2>1
  <2>2. CASE s # x
    <3>1. ~own[s] /\ s # y0
      BY <1>2, <1>4, <2>2
    <3> QED BY <1>1, <1>4, <2>2, <3>1
  <2> QED BY <2>1, <2>2
<1>7. \A i \in 1..(n - 1) : o[w[i]] /\ j[w[i]] = i
  <2> SUFFICES ASSUME NEW i \in 1..(n - 1) PROVE o[w[i]] /\ j[w[i]] = i
    OBVIOUS
  <2>1. i \in 1..n /\ i # n /\ i \in 1..Len(v) /\ v[i] \in Sinks /\ own[v[i]] /\ idx[v[i]] = i
    BY <1>1
  <2>2. CASE i = at
    <3>1. w[i] = y0 /\ y0 # x
      BY <1>2, <1>3, <2>1, <2>2 DEF at
    <3> QED BY <1>2, <1>4, <2>2, <3>1
  <2>3. CASE i # at
    <3>1. w[i] = v[i] /\ v[i] # x /\ v[i] # y0
      BY <1>2, <1>3, <2>1, <2>3 DEF at
    <3> QED BY <1>4, <2>1, <3>1
  <2> QED BY <2>2, <2>3
<1>8. \A y : HoldsEach(v, y) => HoldsEach(w, y)
  <2>0. Len(w) = Len(v)
    BY <1>3
  <2> SUFFICES ASSUME NEW i \in 1..Len(v) PROVE \E k \in 1..Len(v) : w[k] = v[i]
    BY <2>0, Zenon DEF HoldsEach
  <2>1. CASE i = at
    BY <1>2, <1>3, <2>1
  <2>2. CASE i = n /\ i # at
    BY <1>2, <1>3, <2>2 DEF y0
  <2>3. CASE i # n /\ i # at
    BY <1>3, <2>3
  <2> QED BY <2>1, <2>2, <2>3
<1>9. n - 1 \in Nat /\ n - 1 <= Len(w)
  BY <1>1, <1>2, <1>3
<1>10. Order(w, n - 1, j, o)
  BY <1>3, <1>4, <1>5, <1>6, <1>7, <1>9, Zenon DEF Order
<1>11. ASSUME Len(v) = n
       PROVE  /\ Order(SubSeq(w, 1, Len(w) - 1), n - 1, j, o)
              /\ Len(SubSeq(w, 1, Len(w) - 1)) = n - 1
  <2> DEFINE t == SubSeq(w, 1, Len(w) - 1)
  <2>1. t \in Seq(Sinks) /\ Len(t) = n - 1 /\ \A i \in 1..(n - 1) : t[i] = w[i]
    BY <1>1, <1>2, <1>3, <1>11
  <2> HIDE DEF t
  <2>2. \A s \in Sinks : o[s] => j[s] \in 1..(n - 1) /\ t[j[s]] = s
    BY <1>5, <2>1
  <2>3. \A i \in 1..(n - 1) : o[t[i]] /\ j[t[i]] = i
    BY <1>7, <2>1
  <2>4. Order(t, n - 1, j, o)
    BY <1>4, <1>6, <1>9, <2>1, <2>2, <2>3 DEF Order
  <2> QED BY <2>1, <2>4 DEF t
<1> QED BY <1>3, <1>8, <1>10, <1>11, Zenon DEF w, j, o, at, y0

Owners(own) == {s \in Sinks : own[s]}
Waiting(own, wish) == {s \in Sinks : own[s] /\ "rw" \in wish[s]}
Polled(own, wish) == {s \in Sinks : own[s] /\ s # 2 /\ wish[s] # {}}

\* What a change of one sink does to the numbers of the bag.
LEMMA OneMore ==
    ASSUME NEW A \in SUBSET Sinks, NEW x \in Sinks, NEW P \in SUBSET Sinks,
           \A s \in Sinks : s # x => (s \in A <=> s \in P)
    PROVE  Cardinality(P) = Cardinality(A) + (IF x \in P THEN 1 ELSE 0) - (IF x \in A THEN 1 ELSE 0)
<1>1. IsFiniteSet(A) /\ IsFiniteSet(P)
  BY PlatformAssumption, FS_Subset, Zenon
<1>2. Cardinality(A) \in Nat /\ Cardinality(P) \in Nat
  BY <1>1, FS_CardinalityType
<1>3. CASE (x \in A) <=> (x \in P)
  <2>1. A = P
    BY <1>3
  <2> QED BY <1>2, <2>1
<1>4. CASE x \in A /\ x \notin P
  <2>1. P = A \ {x}
    BY <1>4
  <2>2. Cardinality(P) = Cardinality(A) - 1
    BY <1>1, <1>4, <2>1, FS_RemoveElement
  <2> QED BY <1>2, <1>4, <2>2
<1>5. CASE x \notin A /\ x \in P
  <2>1. P = A \cup {x}
    BY <1>5
  <2>2. Cardinality(P) = Cardinality(A) + 1
    BY <1>1, <1>5, <2>1, FS_AddElement
  <2> QED BY <1>2, <1>5, <2>2
<1> QED BY <1>3, <1>4, <1>5

IsBag(b) ==
    b = [fesv |-> b.fesv, count |-> b.count, active |-> b.active, kernel |-> b.kernel,
         idx |-> b.idx, owner |-> b.owner, interest |-> b.interest]

\* What every step of the bag's operations keeps.
GoodBag(b) ==
    /\ IsBag(b)
    /\ Order(b.fesv, b.count, b.idx, b.owner)
    /\ b.count = Cardinality(Owners(b.owner))
    /\ b.interest \in [Sinks -> SUBSET {"rw", "except"}]
    /\ b.active = Cardinality(Waiting(b.owner, b.interest))
    /\ b.kernel = Polled(b.owner, b.interest)

LEMMA PushGood ==
    ASSUME NEW b, GoodBag(b), NEW x \in Sinks, ~b.owner[x]
    PROVE  LET c == F!PushBack(b, x)
           IN  /\ GoodBag(c)
               /\ c.count = b.count + 1 /\ Len(c.fesv) = Len(b.fesv) + 1
               /\ c.owner = [b.owner EXCEPT ![x] = TRUE]
               /\ \A y : HoldsEach(b.fesv, y) => HoldsEach(c.fesv, y)
<1> DEFINE n == b.count
           v == b.fesv
           u == Append(v, x)
           w == [u EXCEPT ![n + 1] = x, ![Len(u)] = u[n + 1]]
           c == F!PushBack(b, x)
<1>1. c = [b EXCEPT !.fesv = w, !.count = n + 1, !.idx[x] = n + 1, !.owner[x] = TRUE,
                    !.interest[x] = {}]
  BY DEF F!PushBack
<1> HIDE DEF c
<1>2. /\ c.fesv = w /\ c.count = n + 1 /\ c.idx = [b.idx EXCEPT ![x] = n + 1]
      /\ c.owner = [b.owner EXCEPT ![x] = TRUE] /\ c.interest = [b.interest EXCEPT ![x] = {}]
      /\ c.active = b.active /\ c.kernel = b.kernel
      /\ IsBag(c)
  <2> HIDE DEF w
  <2> QED BY <1>1, Zenon DEF GoodBag, IsBag
<1>3. /\ Order(w, n + 1, [b.idx EXCEPT ![x] = n + 1], [b.owner EXCEPT ![x] = TRUE])
      /\ Len(w) = Len(v) + 1
      /\ \A y : HoldsEach(v, y) => HoldsEach(w, y)
  BY PushOrder, Zenon DEF GoodBag
<1> HIDE DEF w
<1>4. b.owner \in [Sinks -> BOOLEAN] /\ b.interest \in [Sinks -> SUBSET {"rw", "except"}]
  BY DEF GoodBag, Order
<1>5. c.count = Cardinality(Owners(c.owner))
  <2>1. /\ \A s \in Sinks : s # x => (s \in Owners(b.owner) <=> s \in Owners(c.owner))
        /\ x \notin Owners(b.owner) /\ x \in Owners(c.owner)
        /\ Owners(b.owner) \in SUBSET Sinks /\ Owners(c.owner) \in SUBSET Sinks
    BY <1>2, <1>4 DEF Owners
  <2>2. Cardinality(Owners(c.owner)) = Cardinality(Owners(b.owner)) + 1 - 0
    BY <2>1, OneMore
  <2>3. n = Cardinality(Owners(b.owner)) /\ n \in Nat
    BY DEF GoodBag, Order
  <2> QED BY <1>2, <2>2, <2>3
<1>6. /\ c.interest \in [Sinks -> SUBSET {"rw", "except"}]
      /\ Waiting(c.owner, c.interest) = Waiting(b.owner, b.interest)
      /\ Polled(c.owner, c.interest) = Polled(b.owner, b.interest)
  BY <1>2, <1>4 DEF Waiting, Polled
<1>7. GoodBag(c)
  BY <1>2, <1>3, <1>5, <1>6 DEF GoodBag
<1> QED BY <1>2, <1>3, <1>7 DEF c

\* update_epoll of one sink: what it waits for, and what the kernel polls.
LEMMA RegisterGood ==
    ASSUME NEW b, GoodBag(b), NEW x \in Sinks, x # 2, b.owner[x],
           NEW e \in SUBSET {"rw", "except"}
    PROVE  LET c == F!Register(b, x, e)
           IN  /\ GoodBag(c) /\ c.fesv = b.fesv /\ c.count = b.count /\ c.owner = b.owner
               /\ c.interest = [b.interest EXCEPT ![x] = e]
<1> DEFINE c == F!Register(b, x, e)
           k == IF e = {} THEN b.kernel \ {x} ELSE b.kernel \cup {x}
           a == b.active + (IF "rw" \in e THEN 1 ELSE 0) - (IF "rw" \in b.interest[x] THEN 1 ELSE 0)
<1>1. c = [b EXCEPT !.interest[x] = e, !.kernel = k, !.active = a]
  BY DEF F!Register, F!Active
<1> HIDE DEF c
<1>2. /\ c.fesv = b.fesv /\ c.count = b.count /\ c.idx = b.idx /\ c.owner = b.owner
      /\ c.interest = [b.interest EXCEPT ![x] = e] /\ c.active = a /\ c.kernel = k
      /\ IsBag(c)
  <2> HIDE DEF k, a
  <2> QED BY <1>1, Zenon DEF GoodBag, IsBag
<1>3. b.owner \in [Sinks -> BOOLEAN] /\ b.interest \in [Sinks -> SUBSET {"rw", "except"}]
  BY DEF GoodBag, Order
<1>4. c.interest \in [Sinks -> SUBSET {"rw", "except"}]
  BY <1>2, <1>3
<1>5. c.kernel = Polled(c.owner, c.interest)
  BY <1>2, <1>3, ZenonT(40) DEF GoodBag, Polled
<1>6. c.active = Cardinality(Waiting(c.owner, c.interest))
  <2> DEFINE A == Waiting(b.owner, b.interest)
             P == Waiting(c.owner, c.interest)
  <2>1. /\ \A s \in Sinks : s # x => (s \in A <=> s \in P)
        /\ x \in A <=> "rw" \in b.interest[x]
        /\ x \in P <=> "rw" \in e
        /\ A \in SUBSET Sinks /\ P \in SUBSET Sinks
    BY <1>2, <1>3 DEF Waiting
  <2>2. b.active = Cardinality(A)
    BY DEF GoodBag
  <2> HIDE DEF A, P
  <2>3. Cardinality(P) = Cardinality(A) + (IF x \in P THEN 1 ELSE 0) - (IF x \in A THEN 1 ELSE 0)
    BY <2>1, OneMore
  <2>4. Cardinality(P) = a
    BY <2>1, <2>2, <2>3
  <2> QED BY <1>2, <2>4 DEF P
<1>7. GoodBag(c)
  BY <1>2, <1>4, <1>5, <1>6 DEF GoodBag
<1> QED BY <1>2, <1>7 DEF c

LEMMA UpdateGood ==
    ASSUME NEW b, GoodBag(b), NEW x \in Sinks \ {3}, b.owner[x],
           NEW e \in SUBSET {"rw", "except"}
    PROVE  LET c == F!UpdateEpoll(b, x, e)
           IN  GoodBag(c) /\ c.fesv = b.fesv /\ c.count = b.count /\ c.owner = b.owner
<1>1. CASE x # 2
  <2>1. F!UpdateEpoll(b, x, e) = F!Register(b, x, e)
    BY <1>1, TheStandin DEF F!UpdateEpoll
  <2> DEFINE c == F!Register(b, x, e)
  <2>2. GoodBag(c) /\ c.fesv = b.fesv /\ c.count = b.count /\ c.owner = b.owner
    BY <1>1, RegisterGood, Zenon
  <2> HIDE DEF c
  <2> QED BY <2>1, <2>2 DEF c
<1>2. CASE x = 2
  <2> DEFINE r == F!Register(b, 3, e \cap {"rw"})
             d == IF e = b.interest[2] \/ ~b.owner[3] THEN b ELSE r
             a == d.active + (IF "rw" \in e THEN 1 ELSE 0)
                           - (IF "rw" \in b.interest[2] THEN 1 ELSE 0)
             c == F!UpdateEpoll(b, 2, e)
  <2>1. c = [d EXCEPT !.interest[2] = e, !.active = a]
    BY TheStandin DEF F!UpdateEpoll, F!Active
  <2>2. 3 \in Sinks /\ 2 \in Sinks /\ e \cap {"rw"} \in SUBSET {"rw", "except"}
    BY PlatformAssumption
  <2>3. b.owner[3] =>
            /\ GoodBag(r) /\ r.fesv = b.fesv /\ r.count = b.count /\ r.owner = b.owner
            /\ r.interest = [b.interest EXCEPT ![3] = e \cap {"rw"}]
    BY <2>2, RegisterGood
  <2> HIDE DEF r, c
  <2>4. /\ GoodBag(d) /\ d.fesv = b.fesv /\ d.count = b.count /\ d.owner = b.owner
        /\ d.interest[2] = b.interest[2]
    <3>1. b.interest \in [Sinks -> SUBSET {"rw", "except"}]
      BY DEF GoodBag
    <3> QED BY <2>2, <2>3, <3>1
  <2> HIDE DEF d
  <2>5. /\ c.fesv = d.fesv /\ c.count = d.count /\ c.idx = d.idx /\ c.owner = d.owner
        /\ c.interest = [d.interest EXCEPT ![2] = e] /\ c.active = a /\ c.kernel = d.kernel
        /\ IsBag(c)
    <3> HIDE DEF a
    <3> QED BY <2>1, <2>4, Zenon DEF GoodBag, IsBag
  <2>6. d.owner \in [Sinks -> BOOLEAN] /\ d.interest \in [Sinks -> SUBSET {"rw", "except"}]
        /\ d.owner[2]
    BY <1>2, <2>4 DEF GoodBag, Order
  <2>7. c.interest \in [Sinks -> SUBSET {"rw", "except"}]
    BY <2>5, <2>6, Zenon
  <2>8. c.kernel = Polled(c.owner, c.interest)
    BY <2>2, <2>4, <2>5, <2>6 DEF GoodBag, Polled
  <2>9. c.active = Cardinality(Waiting(c.owner, c.interest))
    <3> DEFINE A == Waiting(d.owner, d.interest)
               P == Waiting(c.owner, c.interest)
    <3>1. /\ \A s \in Sinks : s # 2 => (s \in A <=> s \in P)
          /\ 2 \in A <=> "rw" \in b.interest[2]
          /\ 2 \in P <=> "rw" \in e
          /\ A \in SUBSET Sinks /\ P \in SUBSET Sinks
      BY <2>2, <2>4, <2>5, <2>6 DEF Waiting
    <3>2. d.active = Cardinality(A)
      BY <2>4 DEF GoodBag
    <3> HIDE DEF A, P
    <3>3. Cardinality(P) = Cardinality(A) + (IF 2 \in P THEN 1 ELSE 0) - (IF 2 \in A THEN 1 ELSE 0)
      BY <2>2, <3>1, OneMore
    <3>4. Cardinality(P) = a
      BY <3>1, <3>2, <3>3
    <3> QED BY <2>5, <3>4 DEF P
  <2>10. GoodBag(c)
    BY <2>4, <2>5, <2>7, <2>8, <2>9 DEF GoodBag
  <2> QED BY <1>2, <2>4, <2>5, <2>10 DEF c
<1> QED BY <1>1, <1>2

\* The stand-in is in the bag only with its sink.
Paired(b) == b.owner[3] => b.owner[2]

LEMMA AttachGood ==
    ASSUME NEW b, GoodBag(b), Paired(b), NEW x \in Sinks \ {3}, ~b.owner[x],
           NEW e \in SUBSET {"rw", "except"}, b.count < MaxFds
    PROVE  LET c == F!AttachFes(b, x, e)
           IN  /\ GoodBag(c) /\ Paired(c)
               /\ c.count <= MaxFds /\ Len(c.fesv) - c.count = Len(b.fesv) - b.count
               /\ \A y : HoldsEach(b.fesv, y) => HoldsEach(c.fesv, y)
<1> DEFINE p == F!PushBack(b, x)
           q == F!PushBack(p, 3)
<1>1. /\ b.owner \in [Sinks -> BOOLEAN] /\ b.count \in Nat /\ Len(b.fesv) \in Nat
      /\ {2, 3} \subseteq Sinks /\ MaxFds \in Nat
  BY PlatformAssumption, SMTT(30) DEF GoodBag, Order
<1>2. /\ GoodBag(p)
      /\ p.count = b.count + 1 /\ Len(p.fesv) = Len(b.fesv) + 1
      /\ p.owner = [b.owner EXCEPT ![x] = TRUE]
      /\ \A y : HoldsEach(b.fesv, y) => HoldsEach(p.fesv, y)
  BY PushGood, Zenon
<1> HIDE DEF p
<1>3. CASE x # 2 \/ b.count + 2 > MaxFds
  <2> DEFINE c == F!UpdateEpoll(p, x, e)
  <2>1. F!AttachFes(b, x, e) = c
    BY <1>3, TheStandin DEF F!AttachFes, p
  <2>2. p.owner[x]
    BY <1>1, <1>2
  <2>3. GoodBag(c) /\ c.fesv = p.fesv /\ c.count = p.count /\ c.owner = p.owner
    BY <1>2, <2>2, UpdateGood
  <2> HIDE DEF c
  <2>4. Paired(c)
    <3>1. p.owner[3] = b.owner[3] /\ (b.owner[2] => p.owner[2])
      BY <1>1, <1>2, Zenon
    <3> QED BY <2>3, <3>1 DEF Paired
  <2>5. c.count = b.count + 1 /\ Len(c.fesv) = Len(b.fesv) + 1
    BY <1>2, <2>3
  <2> QED BY <1>1, <1>2, <2>1, <2>3, <2>4, <2>5
<1>4. CASE x = 2 /\ ~(b.count + 2 > MaxFds)
  <2> DEFINE c == F!UpdateEpoll(q, 2, e)
  <2>1. F!AttachFes(b, x, e) = c
    BY <1>4, TheStandin DEF F!AttachFes, p
  <2>2. ~p.owner[3] /\ 3 \in Sinks
    BY <1>1, <1>2, <1>4 DEF Paired
  <2>3. /\ GoodBag(q)
        /\ q.count = p.count + 1 /\ Len(q.fesv) = Len(p.fesv) + 1
        /\ q.owner = [p.owner EXCEPT ![3] = TRUE]
        /\ \A y : HoldsEach(p.fesv, y) => HoldsEach(q.fesv, y)
    BY <1>2, <2>2, PushGood, Zenon
  <2> HIDE DEF q
  <2>4. q.owner[2] = TRUE /\ q.owner[3] = TRUE /\ 2 \in Sinks \ {3}
    BY <1>1, <1>2, <1>4, <2>3
  <2>5. GoodBag(c) /\ c.fesv = q.fesv /\ c.count = q.count /\ c.owner = q.owner
    BY <2>3, <2>4, UpdateGood, Zenon
  <2> HIDE DEF c
  <2>6. Paired(c)
    BY <2>4, <2>5, Zenon DEF Paired
  <2>7. c.count = b.count + 2 /\ Len(c.fesv) = Len(b.fesv) + 2
    BY <1>1, <1>2, <2>3, <2>5
  <2>8. c.count <= MaxFds /\ Len(c.fesv) - c.count = Len(b.fesv) - b.count
    BY <1>1, <1>4, <2>7
  <2>9. \A y : HoldsEach(b.fesv, y) => HoldsEach(c.fesv, y)
    BY <1>2, <2>3, <2>5
  <2> QED BY <2>1, <2>5, <2>6, <2>8, <2>9
<1> QED BY <1>3, <1>4

\* What leaves with a sink.
Without(own, x) == [own EXCEPT ![x] = FALSE]

LEMMA OneLess ==
    ASSUME NEW own \in [Sinks -> BOOLEAN], NEW wish \in [Sinks -> SUBSET {"rw", "except"}],
           NEW x \in Sinks, own[x]
    PROVE  /\ Without(own, x) \in [Sinks -> BOOLEAN]
           /\ Cardinality(Owners(Without(own, x))) = Cardinality(Owners(own)) - 1
           /\ Cardinality(Waiting(Without(own, x), wish)) =
                  Cardinality(Waiting(own, wish)) - F!Active(wish[x])
           /\ Polled(Without(own, x), wish) = Polled(own, wish) \ {x}
<1> DEFINE o == Without(own, x)
           A == Waiting(own, wish)
           P == Waiting(o, wish)
           O == Owners(own)
           Q == Owners(o)
<1>1. o \in [Sinks -> BOOLEAN] /\ ~o[x] /\ \A s \in Sinks : s # x => o[s] = own[s]
  BY DEF Without
<1> HIDE DEF o
<1>2. /\ \A s \in Sinks : s # x => (s \in A <=> s \in P) /\ (s \in O <=> s \in Q)
      /\ x \in A <=> "rw" \in wish[x]
      /\ x \notin P /\ x \in O /\ x \notin Q
      /\ {A, P, O, Q} \subseteq SUBSET Sinks
  BY <1>1 DEF Owners, Waiting
<1>3. Polled(o, wish) = Polled(own, wish) \ {x}
  BY <1>1 DEF Polled
<1> HIDE DEF A, P, O, Q
<1>4. Cardinality(A) \in Nat /\ Cardinality(O) \in Nat
  BY <1>2, PlatformAssumption, FS_Subset, FS_CardinalityType, Zenon
<1>5. Cardinality(P) = Cardinality(A) + 0 - (IF x \in A THEN 1 ELSE 0)
  BY <1>2, OneMore
<1>6. Cardinality(Q) = Cardinality(O) + 0 - 1
  BY <1>2, OneMore
<1>7. /\ Cardinality(Q) = Cardinality(O) - 1
      /\ Cardinality(P) = Cardinality(A) - F!Active(wish[x])
  BY <1>2, <1>4, <1>5, <1>6 DEF F!Active
<1> QED BY <1>1, <1>3, <1>7 DEF A, P, O, Q, o

\* The vector holds what is active, and what was removed while events are dispatched.
Trimmed(b) == ~dispatching => Len(b.fesv) = b.count

LEMMA TakeFacts ==
    ASSUME NEW b, IsBag(b), Order(b.fesv, b.count, b.idx, b.owner), Trimmed(b),
           NEW x \in Sinks, b.owner[x]
    PROVE  LET c == F!TakeOut(b, x)
           IN  /\ IsBag(c) /\ Order(c.fesv, c.count, c.idx, c.owner) /\ Trimmed(c)
               /\ c.count = b.count - 1
               /\ c.owner = [b.owner EXCEPT ![x] = FALSE]
               /\ c.interest = b.interest /\ c.active = b.active /\ c.kernel = b.kernel
               /\ Len(c.fesv) <= Len(b.fesv)
               /\ dispatching => \A y : HoldsEach(b.fesv, y) => HoldsEach(c.fesv, y)
<1> DEFINE v == b.fesv
           n == b.count
           w == [v EXCEPT ![b.idx[x]] = v[n], ![n] = x]
           t == SubSeq(w, 1, Len(w) - 1)
           u == IF dispatching THEN w ELSE t
           j == [[b.idx EXCEPT ![v[n]] = b.idx[x]] EXCEPT ![x] = 0]
           o == [b.owner EXCEPT ![x] = FALSE]
           c == F!TakeOut(b, x)
<1>1. c = [b EXCEPT !.fesv = u, !.count = n - 1, !.owner[x] = FALSE, !.idx = j]
  BY Zenon DEF F!TakeOut
<1> HIDE DEF c
<1>2. /\ c.fesv = u /\ c.count = n - 1 /\ c.idx = j /\ c.owner = o
      /\ c.interest = b.interest /\ c.active = b.active /\ c.kernel = b.kernel /\ IsBag(c)
  <2> HIDE DEF u, j
  <2> QED BY <1>1, Zenon DEF IsBag
<1>3. /\ Order(w, n - 1, j, o)
      /\ Len(w) = Len(v)
      /\ \A y : HoldsEach(v, y) => HoldsEach(w, y)
      /\ Len(v) = n => Order(t, n - 1, j, o) /\ Len(t) = n - 1
  BY TakeOrder, Zenon
<1>4. n \in Nat /\ Len(v) \in Nat
  BY DEF Order
<1> HIDE DEF v, n, w, t, j, o
<1>5. Order(u, n - 1, j, o) /\ (~dispatching => Len(u) = n - 1) /\ Len(u) <= Len(v)
  BY <1>3, <1>4 DEF Trimmed, v, n
<1>6. dispatching => \A y : HoldsEach(v, y) => HoldsEach(u, y)
  BY <1>3
<1> HIDE DEF u
<1>7. Trimmed(c)
  BY <1>2, <1>5 DEF Trimmed
<1> QED BY <1>2, <1>5, <1>6, <1>7 DEF v, n, o, c

LEMMA QuietFacts ==
    ASSUME NEW b, IsBag(b), NEW x
    PROVE  LET c == F!Deactivate(b, x)
           IN  /\ IsBag(c) /\ c.fesv = b.fesv /\ c.count = b.count /\ c.idx = b.idx
               /\ c.owner = b.owner /\ c.interest = b.interest
               /\ c.active = b.active - F!Active(b.interest[x])
               /\ c.kernel = b.kernel \ {x}
<1> DEFINE a == b.active - F!Active(b.interest[x])
           c == F!Deactivate(b, x)
<1>1. c = [b EXCEPT !.active = a, !.kernel = @ \ {x}]
  BY DEF F!Deactivate
<1> HIDE DEF a, c
<1>2. /\ IsBag(c) /\ c.fesv = b.fesv /\ c.count = b.count /\ c.idx = b.idx
      /\ c.owner = b.owner /\ c.interest = b.interest
      /\ c.active = a /\ c.kernel = b.kernel \ {x}
  BY <1>1, Zenon DEF IsBag
<1> QED BY <1>2 DEF a, c

LEMMA RemoveGood ==
    ASSUME NEW b, GoodBag(b), Paired(b), Trimmed(b), NEW x \in Sinks \ {3}, b.owner[x]
    PROVE  LET c == F!RemoveFes(b, x)
           IN  /\ GoodBag(c) /\ Paired(c) /\ Trimmed(c)
               /\ c.count <= b.count
               /\ dispatching => \A y : HoldsEach(b.fesv, y) => HoldsEach(c.fesv, y)
<1>1. /\ b.owner \in [Sinks -> BOOLEAN] /\ b.interest \in [Sinks -> SUBSET {"rw", "except"}]
      /\ b.count \in Nat /\ 2 \in Sinks /\ 3 \in Sinks
      /\ IsBag(b) /\ Order(b.fesv, b.count, b.idx, b.owner)
      /\ b.count = Cardinality(Owners(b.owner))
      /\ b.active = Cardinality(Waiting(b.owner, b.interest))
      /\ b.kernel = Polled(b.owner, b.interest)
  BY PlatformAssumption, Zenon DEF GoodBag, Order
<1> DEFINE d == F!Deactivate(b, x)
           o == Without(b.owner, x)
<1>2. /\ IsBag(d) /\ d.fesv = b.fesv /\ d.count = b.count /\ d.idx = b.idx
      /\ d.owner = b.owner /\ d.interest = b.interest
      /\ d.active = b.active - F!Active(b.interest[x])
      /\ d.kernel = b.kernel \ {x}
  BY <1>1, QuietFacts
<1>3. /\ o \in [Sinks -> BOOLEAN]
      /\ Cardinality(Owners(o)) = Cardinality(Owners(b.owner)) - 1
      /\ Cardinality(Waiting(o, b.interest)) =
             Cardinality(Waiting(b.owner, b.interest)) - F!Active(b.interest[x])
      /\ Polled(o, b.interest) = Polled(b.owner, b.interest) \ {x}
  BY <1>1, OneLess
<1> HIDE DEF d
<1>4. CASE x # 2 \/ ~b.owner[3]
  <2> DEFINE c == F!TakeOut(d, x)
  <2>1. F!RemoveFes(b, x) = c
    BY <1>4, TheStandin DEF F!RemoveFes, d
  <2>2. /\ IsBag(c) /\ Order(c.fesv, c.count, c.idx, c.owner) /\ Trimmed(c)
        /\ c.count = d.count - 1
        /\ c.owner = [d.owner EXCEPT ![x] = FALSE]
        /\ c.interest = d.interest /\ c.active = d.active /\ c.kernel = d.kernel
        /\ dispatching => \A y : HoldsEach(d.fesv, y) => HoldsEach(c.fesv, y)
    <3>1. IsBag(d) /\ Order(d.fesv, d.count, d.idx, d.owner) /\ Trimmed(d) /\ d.owner[x]
      BY <1>1, <1>2 DEF Trimmed
    <3> QED BY <3>1, TakeFacts, Zenon
  <2> HIDE DEF c
  <2>3. c.owner = o /\ c.interest = b.interest /\ c.count = b.count - 1
    BY <1>2, <2>2 DEF Without
  <2>4. GoodBag(c)
    BY <1>1, <1>2, <1>3, <2>2, <2>3, Zenon DEF GoodBag
  <2>5. Paired(c)
    <3>1. o[3] = b.owner[3] /\ (x # 2 => o[2] = b.owner[2])
      BY <1>1, Zenon DEF Without
    <3> QED BY <1>4, <2>3, <3>1 DEF Paired
  <2> QED BY <1>1, <1>2, <2>1, <2>2, <2>3, <2>4, <2>5
<1>5. CASE x = 2 /\ b.owner[3]
  <2> DEFINE f == F!Deactivate(d, 3)
             g == F!TakeOut(f, 3)
             c == F!TakeOut(g, 2)
             p == [b.owner EXCEPT ![3] = FALSE]
             q == Without(o, 3)
  <2>1. F!RemoveFes(b, x) = c
    BY <1>5, TheStandin DEF F!RemoveFes, d
  <2>2. /\ IsBag(f) /\ f.fesv = d.fesv /\ f.count = d.count /\ f.idx = d.idx
        /\ f.owner = d.owner /\ f.interest = d.interest
        /\ f.active = d.active - F!Active(d.interest[3])
        /\ f.kernel = d.kernel \ {3}
    BY <1>2, QuietFacts
  <2> HIDE DEF f
  <2>3. /\ IsBag(g) /\ Order(g.fesv, g.count, g.idx, g.owner) /\ Trimmed(g)
        /\ g.count = f.count - 1
        /\ g.owner = [f.owner EXCEPT ![3] = FALSE]
        /\ g.interest = f.interest /\ g.active = f.active /\ g.kernel = f.kernel
        /\ dispatching => \A y : HoldsEach(f.fesv, y) => HoldsEach(g.fesv, y)
    <3>1. IsBag(f) /\ Order(f.fesv, f.count, f.idx, f.owner) /\ Trimmed(f) /\ f.owner[3]
      BY <1>1, <1>2, <1>5, <2>2 DEF Trimmed, Paired
    <3> QED BY <1>1, <3>1, TakeFacts, Zenon
  <2> HIDE DEF g
  <2>4. g.owner = p /\ p[2]
    BY <1>1, <1>2, <1>5, <2>2, <2>3
  <2>5. /\ IsBag(c) /\ Order(c.fesv, c.count, c.idx, c.owner) /\ Trimmed(c)
        /\ c.count = g.count - 1
        /\ c.owner = [g.owner EXCEPT ![2] = FALSE]
        /\ c.interest = g.interest /\ c.active = g.active /\ c.kernel = g.kernel
        /\ dispatching => \A y : HoldsEach(g.fesv, y) => HoldsEach(c.fesv, y)
    BY <1>1, <2>3, <2>4, TakeFacts, ZenonT(40)
  <2> HIDE DEF c
  <2>6. /\ q \in [Sinks -> BOOLEAN]
        /\ Cardinality(Owners(q)) = Cardinality(Owners(o)) - 1
        /\ Cardinality(Waiting(q, b.interest)) =
               Cardinality(Waiting(o, b.interest)) - F!Active(b.interest[3])
        /\ Polled(q, b.interest) = Polled(o, b.interest) \ {3}
    <3>1. o[3]
      BY <1>1, <1>5 DEF Paired, Without
    <3> HIDE DEF o
    <3> QED BY <1>1, <1>3, <3>1, OneLess
  <2>7. c.owner = q /\ c.interest = b.interest
        /\ q[2] = FALSE /\ q[3] = FALSE
    <3>1. c.owner = [p EXCEPT ![2] = FALSE]
      BY <2>4, <2>5
    <3>2. [p EXCEPT ![2] = FALSE] = q /\ q[2] = FALSE /\ q[3] = FALSE
      BY <1>1, <1>5, Zenon DEF Without
    <3> HIDE DEF p, q, o
    <3> QED BY <1>2, <2>2, <2>3, <2>5, <3>1, <3>2, Zenon
  <2> HIDE DEF q, o, p
  <2>8. /\ c.count = Cardinality(Owners(q)) /\ c.count <= b.count
    BY <1>1, <1>2, <1>3, <2>2, <2>3, <2>5, <2>6
  <2>9. c.active = Cardinality(Waiting(q, b.interest))
    BY <1>1, <1>2, <1>3, <1>5, <2>2, <2>3, <2>5, <2>6
  <2>10. c.kernel = Polled(q, b.interest)
    BY <1>1, <1>2, <1>3, <1>5, <2>2, <2>3, <2>5, <2>6
  <2>11. GoodBag(c)
    BY <1>1, <2>5, <2>7, <2>8, <2>9, <2>10 DEF GoodBag
  <2>12. Paired(c)
    BY <2>7, Zenon DEF Paired
  <2> QED BY <1>2, <2>1, <2>2, <2>3, <2>5, <2>8, <2>11, <2>12
<1> QED BY <1>4, <1>5

\* The inductive invariant of the bag: the bag proper, and the events of the round.
BagPart == GoodBag(bag) /\ Paired(bag) /\ Trimmed(bag) /\ bag.count <= MaxFds
RoundPart ==
    /\ \A r \in collected : r.target \in Sinks \ {3} /\ HoldsEach(bag.fesv, r.target)
    /\ ~dispatching => collected = {} /\ current = 0
RoundTypes ==
    /\ sinksOpen \subseteq Sinks \ {3} /\ current \in (Sinks \ {3}) \cup {0}
    /\ dispatching \in BOOLEAN /\ collected \subseteq F!Reports
BagInv == BagPart /\ RoundPart /\ RoundTypes

LEMMA BagInit == F!Init => BagInv
<1> SUFFICES ASSUME F!Init PROVE BagInv
  OBVIOUS
<1>1. /\ bag = F!NoFds /\ sinksOpen = Sinks \ {3} /\ collected = {} /\ current = 0
      /\ dispatching = FALSE
  BY TheStandin DEF F!Init
<1>2. /\ bag.fesv = <<>> /\ bag.count = 0 /\ bag.active = 0 /\ bag.kernel = {}
      /\ bag.idx = [s \in Sinks |-> 0] /\ bag.owner = [s \in Sinks |-> FALSE]
      /\ bag.interest = [s \in Sinks |-> {}] /\ IsBag(bag)
  BY <1>1 DEF F!NoFds, IsBag
<1>3. Order(bag.fesv, bag.count, bag.idx, bag.owner)
  BY <1>2 DEF Order
<1>4. Owners(bag.owner) = {} /\ Waiting(bag.owner, bag.interest) = {}
      /\ Polled(bag.owner, bag.interest) = {}
  BY <1>2 DEF Owners, Waiting, Polled
<1>5. Cardinality({}) = 0
  BY FS_EmptySet
<1>6. GoodBag(bag)
  BY <1>2, <1>3, <1>4, <1>5, Zenon DEF GoodBag
<1>7. Paired(bag) /\ Trimmed(bag) /\ bag.count <= MaxFds
  BY <1>2, PlatformAssumption DEF Paired, Trimmed
<1> QED BY <1>1, <1>6, <1>7, Zenon DEF BagInv, BagPart, RoundPart, RoundTypes

LEMMA BagAttachInv ==
    ASSUME BagInv, NEW s \in Sinks \ {3}, NEW e \in SUBSET {"rw", "except"}, F!Attach(s, e)
    PROVE  BagInv'
<1>1. /\ F!Running /\ ~bag.owner[s] /\ F!Room(s) /\ bag' = F!AttachFes(bag, s, e)
      /\ UNCHANGED <<sinksOpen, collected, current, dispatching>>
  BY DEF F!Attach
<1> DEFINE c == F!AttachFes(bag, s, e)
<1>2. /\ GoodBag(c) /\ Paired(c)
      /\ c.count <= MaxFds /\ Len(c.fesv) - c.count = Len(bag.fesv) - bag.count
      /\ \A y : HoldsEach(bag.fesv, y) => HoldsEach(c.fesv, y)
  BY <1>1, AttachGood DEF BagInv, BagPart, F!Room
<1>3. bag' = c
  BY <1>1
<1> HIDE DEF c
<1>4. c.count <= MaxFds
  BY <1>2
<1>5. GoodBag(bag)' /\ Paired(bag)'
  BY <1>2, <1>3, Zenon DEF GoodBag, IsBag, Order, Owners, Waiting, Polled, Paired
<1>6. Trimmed(bag)'
  BY <1>1, <1>2, <1>3 DEF Trimmed, BagInv, BagPart, GoodBag, Order
<1>7. RoundPart'
  BY <1>1, <1>2, <1>3, ZenonT(40) DEF BagInv, RoundPart, HoldsEach
<1> QED BY <1>1, <1>3, <1>4, <1>5, <1>6, <1>7 DEF BagInv, BagPart, RoundTypes

LEMMA BagSetEventsInv ==
    ASSUME BagInv, NEW s \in Sinks \ {3}, NEW e \in SUBSET {"rw", "except"}, F!SetEvents(s, e)
    PROVE  BagInv'
<1>1. /\ bag.owner[s] /\ bag' = F!UpdateEpoll(bag, s, e)
      /\ UNCHANGED <<sinksOpen, collected, current, dispatching>>
  BY DEF F!SetEvents
<1> DEFINE c == F!UpdateEpoll(bag, s, e)
<1>2. GoodBag(c) /\ c.fesv = bag.fesv /\ c.count = bag.count /\ c.owner = bag.owner
  BY <1>1, UpdateGood DEF BagInv, BagPart
<1>3. bag' = c
  BY <1>1
<1> HIDE DEF c
<1>4. GoodBag(bag)'
  <2>1. GoodBag(bag')
    BY <1>2, <1>3
  <2>2. GoodBag(bag)' <=> GoodBag(bag')
    BY DEF GoodBag, IsBag, Order, Owners, Waiting, Polled
  <2> QED BY <2>1, <2>2
<1>5. Paired(bag)' /\ Trimmed(bag)' /\ RoundPart'
  BY <1>1, <1>2, <1>3 DEF Paired, Trimmed, BagInv, BagPart, RoundPart, HoldsEach
<1> QED BY <1>1, <1>2, <1>3, <1>4, <1>5 DEF BagInv, BagPart, RoundTypes

LEMMA BagLeaveInv ==
    ASSUME BagInv,
           \/ \E s \in F!Clients : F!Detach(s) \/ F!Close(s)
           \/ \E ok \in BOOLEAN : F!HandlerReturns(ok)
    PROVE  BagInv'
<1>1. /\ \A s \in sinksOpen : s \in Sinks \ {3}
      /\ UNCHANGED <<collected, dispatching>>
      /\ sinksOpen' \subseteq sinksOpen
      /\ current' \in {0, current}
  BY DEF BagInv, RoundTypes, F!Detach, F!Close, F!HandlerReturns
<1>2. RoundTypes'
  BY <1>1 DEF BagInv, RoundTypes
<1>3. CASE UNCHANGED bag
  BY <1>1, <1>2, <1>3, ZenonT(40) DEF BagInv, BagPart, RoundPart, GoodBag, IsBag, Order, Owners, Waiting,
                          Polled, Paired, Trimmed, HoldsEach
<1>4. ASSUME NEW x \in Sinks \ {3}, bag.owner[x], bag' = F!RemoveFes(bag, x) PROVE BagInv'
  <2> DEFINE c == F!RemoveFes(bag, x)
  <2>1. /\ GoodBag(c) /\ Paired(c) /\ Trimmed(c) /\ c.count <= bag.count
        /\ dispatching => \A y : HoldsEach(bag.fesv, y) => HoldsEach(c.fesv, y)
    BY <1>4, RemoveGood DEF BagInv, BagPart
  <2>2. bag' = c
    BY <1>4
  <2> HIDE DEF c
  <2>3. c.count \in Nat /\ bag.count \in Nat /\ c.count <= MaxFds
    BY <2>1, PlatformAssumption DEF BagInv, BagPart, GoodBag, Order
  <2>4. GoodBag(bag)' /\ Paired(bag)'
    BY <2>1, <2>2, Zenon DEF GoodBag, IsBag, Order, Owners, Waiting, Polled, Paired
  <2>5. Trimmed(bag)'
    BY <1>1, <2>1, <2>2 DEF Trimmed
  <2>6. RoundPart'
    BY <1>1, <2>1, <2>2, Zenon DEF BagInv, RoundPart, HoldsEach
  <2> QED BY <1>2, <2>2, <2>3, <2>4, <2>5, <2>6 DEF BagInv, BagPart
<1>5. \/ UNCHANGED bag
      \/ \E x \in Sinks \ {3} : bag.owner[x] /\ bag' = F!RemoveFes(bag, x)
  BY <1>1 DEF F!Detach, F!Close, F!HandlerReturns
<1> QED BY <1>3, <1>4, <1>5

LEMMA BagSelectInv ==
    ASSUME BagInv, NEW ready \in SUBSET bag.kernel, NEW hup, F!Select(ready, hup)
    PROVE  BagInv'
<1>1. /\ ~dispatching /\ collected' = F!Report(ready, hup) /\ dispatching' = TRUE
      /\ UNCHANGED <<bag, sinksOpen, current>>
  BY DEF F!Select
<1>2. /\ bag.kernel = Polled(bag.owner, bag.interest)
      /\ bag.interest \in [Sinks -> SUBSET {"rw", "except"}]
      /\ \A s \in Sinks : bag.owner[s] => HoldsEach(bag.fesv, s)
  <2>1. /\ \A s \in Sinks : bag.owner[s] => bag.idx[s] \in 1..bag.count /\ bag.fesv[bag.idx[s]] = s
        /\ bag.count \in Nat /\ Len(bag.fesv) \in Nat /\ bag.count <= Len(bag.fesv)
    BY DEF BagInv, BagPart, GoodBag, Order
  <2>2. \A i \in 1..bag.count : i \in 1..Len(bag.fesv)
    BY <2>1
  <2>3. \A s \in Sinks : bag.owner[s] => HoldsEach(bag.fesv, s)
    BY <2>1, <2>2 DEF HoldsEach
  <2> QED BY <2>3 DEF BagInv, BagPart, GoodBag
<1>3. ASSUME NEW r \in collected'
      PROVE  r \in F!Reports /\ r.target \in Sinks \ {3} /\ HoldsEach(bag.fesv, r.target)
  <2>1. PICK k \in ready : r = [target |-> F!Target(k),
                               events |-> bag.interest[k] \cup (IF k \in hup THEN {"hup"} ELSE {})]
    BY <1>1 DEF F!Report
  <2>2. k \in Sinks /\ bag.owner[k] /\ k # 2
    BY <1>2 DEF Polled
  <2>3. F!Target(k) = (IF k = 3 THEN 2 ELSE k) /\ 2 \in Sinks /\ (k = 3 => bag.owner[2])
    BY <2>2, TheStandin, PlatformAssumption DEF BagInv, BagPart, Paired
  <2>4. r.target \in Sinks \ {3} /\ bag.owner[r.target]
    BY <2>1, <2>2, <2>3
  <2>5. r.events \in SUBSET (F!Events \cup {"hup"})
    BY <1>2, <2>1, <2>2 DEF F!Events
  <2>6. r \in F!Reports
    BY <2>1, <2>4, <2>5 DEF F!Reports
  <2> QED BY <1>2, <2>4, <2>6
<1>4. BagPart'
  BY <1>1, Zenon DEF BagInv, BagPart, GoodBag, IsBag, Order, Owners, Waiting, Polled, Paired,
     Trimmed
<1>5. RoundPart' /\ RoundTypes'
  BY <1>1, <1>3 DEF BagInv, RoundPart, RoundTypes, HoldsEach
<1> QED BY <1>4, <1>5 DEF BagInv

LEMMA BagTakeInv ==
    ASSUME BagInv, NEW report \in collected, NEW mask, F!TakeEvent(report, mask)
    PROVE  BagInv'
<1>1. /\ dispatching /\ collected' \subseteq collected /\ current' \in {report.target, 0}
      /\ UNCHANGED <<bag, sinksOpen, dispatching>>
  BY DEF F!TakeEvent
<1>2. BagPart'
  BY <1>1, Zenon DEF BagInv, BagPart, GoodBag, IsBag, Order, Owners, Waiting, Polled, Paired,
     Trimmed
<1>3. RoundPart' /\ RoundTypes'
  BY <1>1 DEF BagInv, RoundPart, RoundTypes, HoldsEach
<1> QED BY <1>2, <1>3 DEF BagInv

LEMMA BagEndInv == ASSUME BagInv, F!EndDispatch PROVE BagInv'
<1> DEFINE t == SubSeq(bag.fesv, 1, bag.count)
<1>1. /\ current = 0 /\ collected = {} /\ dispatching' = FALSE
      /\ bag' = [bag EXCEPT !.fesv = t]
      /\ UNCHANGED <<sinksOpen, collected, current>>
  BY DEF F!EndDispatch
<1>2. Order(bag.fesv, bag.count, bag.idx, bag.owner)
  BY DEF BagInv, BagPart, GoodBag
<1>3. t \in Seq(Sinks) /\ Len(t) = bag.count /\ \A i \in 1..bag.count : t[i] = bag.fesv[i]
  BY <1>2 DEF Order
<1> HIDE DEF t
<1>4. Order(t, bag.count, bag.idx, bag.owner)
  <2>1. \A s \in Sinks : bag.owner[s] => bag.idx[s] \in 1..bag.count /\ t[bag.idx[s]] = s
    BY <1>2, <1>3 DEF Order
  <2>2. \A i \in 1..bag.count : bag.owner[t[i]] /\ bag.idx[t[i]] = i
    BY <1>2, <1>3, Zenon DEF Order
  <2>3. bag.count \in Nat /\ bag.count <= Len(t)
    BY <1>2, <1>3 DEF Order
  <2> QED BY <1>2, <1>3, <2>1, <2>2, <2>3 DEF Order
<1>5. /\ bag'.fesv = t /\ bag'.count = bag.count /\ bag'.active = bag.active
      /\ bag'.kernel = bag.kernel /\ bag'.idx = bag.idx /\ bag'.owner = bag.owner
      /\ bag'.interest = bag.interest /\ IsBag(bag')
  BY <1>1 DEF BagInv, BagPart, GoodBag, IsBag
<1>6. GoodBag(bag')
  BY <1>4, <1>5 DEF BagInv, BagPart, GoodBag
<1>7. BagPart'
  <2>1. GoodBag(bag)' <=> GoodBag(bag')
    BY DEF GoodBag, IsBag, Order, Owners, Waiting, Polled
  <2> QED BY <1>3, <1>5, <1>6, <2>1 DEF BagInv, BagPart, Paired, Trimmed
<1>8. RoundPart' /\ RoundTypes'
  BY <1>1, Zenon DEF BagInv, RoundPart, RoundTypes
<1> QED BY <1>7, <1>8 DEF BagInv

LEMMA BagNext == BagInv /\ [F!Next]_bagVars => BagInv'
<1> SUFFICES ASSUME BagInv, [F!Next]_bagVars PROVE BagInv'
  OBVIOUS
<1>0. F!Events = {"rw", "except"} /\ F!Clients = Sinks \ {3}
  BY TheStandin DEF F!Events
<1>1. CASE UNCHANGED bagVars
  BY <1>1, ZenonT(40) DEF bagVars, BagInv, BagPart, RoundPart, RoundTypes, GoodBag, IsBag, Order, Owners,
              Waiting, Polled, Paired, Trimmed, HoldsEach
<1>2. ASSUME NEW s \in F!Clients, NEW e \in SUBSET F!Events, F!Attach(s, e) \/ F!SetEvents(s, e)
      PROVE  BagInv'
  BY <1>0, <1>2, BagAttachInv, BagSetEventsInv
<1>3. CASE \/ \E s \in F!Clients : F!Detach(s) \/ F!Close(s)
           \/ \E ok \in BOOLEAN : F!HandlerReturns(ok)
  BY <1>3, BagLeaveInv
<1>4. ASSUME NEW ready \in SUBSET bag.kernel, NEW hup \in {{}, ready}, F!Select(ready, hup)
      PROVE  BagInv'
  BY <1>4, BagSelectInv
<1>5. ASSUME NEW report \in collected, NEW mask \in {F!All, {"rw"}}, F!TakeEvent(report, mask)
      PROVE  BagInv'
  BY <1>5, BagTakeInv
<1>6. CASE F!EndDispatch
  BY <1>6, BagEndInv
<1> QED BY <1>1, <1>2, <1>3, <1>4, <1>5, <1>6 DEF F!Next

LEMMA BagIsExact == BagInv => F!RegistryIsExact /\ F!CollectedAreAlive /\ F!TypeOK
<1> SUFFICES ASSUME BagInv PROVE F!RegistryIsExact /\ F!CollectedAreAlive /\ F!TypeOK
  OBVIOUS
<1>1. /\ bag.fesv \in Seq(Sinks) /\ bag.count \in Nat /\ bag.count <= MaxFds /\ MaxFds \in Nat
      /\ bag.count <= Len(bag.fesv)
      /\ bag.idx \in [Sinks -> Nat] /\ bag.owner \in [Sinks -> BOOLEAN]
      /\ \A s \in Sinks : bag.owner[s] => bag.idx[s] \in 1..bag.count /\ bag.fesv[bag.idx[s]] = s
      /\ \A s \in Sinks : ~bag.owner[s] => bag.idx[s] = 0
      /\ bag.count = Cardinality(Owners(bag.owner))
      /\ bag.interest \in [Sinks -> SUBSET {"rw", "except"}]
      /\ bag.active = Cardinality(Waiting(bag.owner, bag.interest))
      /\ bag.kernel = Polled(bag.owner, bag.interest)
  BY PlatformAssumption, Zenon DEF BagInv, BagPart, GoodBag, Order
<1>2. F!Owned = Owners(bag.owner)
  BY DEF F!Owned, Owners
<1>3. {s \in F!Owned : "rw" \in bag.interest[s]} = Waiting(bag.owner, bag.interest)
  BY DEF F!Owned, Waiting
<1>4. {s \in F!Owned \ F!NonPollable : bag.interest[s] # {}} = Polled(bag.owner, bag.interest)
  BY TheStandin DEF F!Owned, Polled
<1>5. \A X : F!Cardinality(X) = Cardinality(X)
  BY DEF F!Cardinality, Cardinality
<1>6. ~dispatching => Len(bag.fesv) = bag.count
  BY DEF BagInv, BagPart, Trimmed
<1>7. \A s \in F!Owned : bag.idx[s] \in 1..bag.count /\ bag.fesv[bag.idx[s]] = s
  BY <1>1 DEF F!Owned
<1>8. F!RegistryIsExact
  BY <1>1, <1>2, <1>3, <1>4, <1>5, <1>6, <1>7, Zenon DEF F!RegistryIsExact
<1>9. F!CollectedAreAlive
  <2>1. DOMAIN bag.fesv = 1..Len(bag.fesv)
    BY <1>1
  <2> QED BY <2>1 DEF BagInv, RoundPart, HoldsEach, F!CollectedAreAlive, F!Range
<1>10. F!TypeOK
  <2>1. bag.idx \in [Sinks -> 0..MaxFds]
    <3>1. ASSUME NEW s \in Sinks PROVE bag.idx[s] \in 0..MaxFds
      BY <1>1
    <3> QED BY <1>1, <3>1
  <2>2. bag.kernel \subseteq Sinks /\ bag.count \in 0..MaxFds
    BY <1>1 DEF Polled
  <2>3. F!Events = {"rw", "except"} /\ F!Clients = Sinks \ {3}
    BY TheStandin DEF F!Events
  <2> QED BY <1>1, <2>1, <2>2, <2>3 DEF F!TypeOK, BagInv, RoundTypes
<1> QED BY <1>8, <1>9, <1>10

-----------------------------------------------------------------------------
(* The connections of a server.                                            *)

OneEach(s) == \A i, j \in 1..Len(s) : i < j => s[i] # s[j]

LEMMA IsMember == \A s, x : x \in S!Members(s) <=> \E i \in 1..Len(s) : s[i] = x
BY DEF S!Members

\* What a filtered list of connections holds.
LEMMA FilteredConns ==
    ASSUME NEW s \in Seq(Conns), NEW keep, OneEach(s)
    PROVE  /\ S!Filter(s, keep) \in Seq(Conns)
           /\ OneEach(S!Filter(s, keep))
           /\ S!Members(S!Filter(s, keep)) = S!Members(s) \cap keep
<1> DEFINE t == Filter(s, keep)
           rel == {p \in Conns \X Conns : p[1] # p[2]}
<1>1. \A i, j \in 1..Len(s) : i < j => <<s[i], s[j]>> \in rel
  BY DEF OneEach
<1>2. /\ t \in Seq(Conns)
      /\ \A i \in 1..Len(t) : t[i] \in keep /\ \E j \in 1..Len(s) : s[j] = t[i]
      /\ \A j \in 1..Len(s) : s[j] \in keep => \E i \in 1..Len(t) : t[i] = s[j]
      /\ \A i, j \in 1..Len(t) : i < j => <<t[i], t[j]>> \in rel
  <2> HIDE DEF rel
  <2> QED BY <1>1, FilterFacts, ZenonT(40)
<1>3. S!Filter(s, keep) = t
  BY SameFilter
<1> HIDE DEF t
<1>4. OneEach(t)
  BY <1>2, Zenon DEF OneEach
<1>5. S!Members(t) = S!Members(s) \cap keep
  <2>1. ASSUME NEW x PROVE x \in S!Members(t) => x \in S!Members(s) \cap keep
    BY <1>2, IsMember
  <2>2. ASSUME NEW x, x \in S!Members(s) \cap keep PROVE x \in S!Members(t)
    <3>1. PICK j \in 1..Len(s) : s[j] = x
      BY <2>2, IsMember
    <3>2. \E i \in 1..Len(t) : t[i] = s[j]
      BY <1>2, <2>2, <3>1
    <3> QED BY <3>1, <3>2, IsMember
  <2> QED BY <2>1, <2>2
<1> QED BY <1>2, <1>3, <1>4, <1>5

\* The newest of a list and the oldest are its elements, each on one side.
LEMMA Halves ==
    ASSUME NEW s \in Seq(Conns), NEW n \in Nat, OneEach(s)
    PROVE  /\ S!Newest(s, n) \in Seq(Conns)
           /\ OneEach(S!Newest(s, n))
           /\ S!Members(S!Newest(s, n)) \cup S!Members(S!Oldest(s, n)) = S!Members(s)
           /\ S!Members(S!Newest(s, n)) \cap S!Members(S!Oldest(s, n)) = {}
           /\ S!Members(S!Oldest(s, n)) \subseteq Conns
<1>1. CASE Len(s) <= n
  BY <1>1 DEF S!Newest, S!Oldest, S!Members
<1>2. CASE Len(s) > n
  <2> DEFINE t == SubSeq(s, Len(s) - n + 1, Len(s))
             u == SubSeq(s, 1, Len(s) - n)
             k == Len(s) - n
  <2>1. S!Newest(s, n) = t /\ S!Oldest(s, n) = u
    BY <1>2 DEF S!Newest, S!Oldest
  <2>2. /\ t \in Seq(Conns) /\ Len(t) = n /\ \A i \in 1..n : t[i] = s[k + i]
        /\ u \in Seq(Conns) /\ Len(u) = k /\ \A i \in 1..k : u[i] = s[i]
        /\ k \in Nat /\ Len(s) = k + n /\ Len(s) \in Nat
    BY <1>2
  <2> HIDE DEF t, u, k
  <2>3. OneEach(t)
    BY <2>2 DEF OneEach
  <2>4. S!Members(t) \cup S!Members(u) = S!Members(s)
    <3>1. \A i \in 1..n : k + i \in 1..Len(s)
      BY <2>2
    <3>2. \A i \in 1..k : i \in 1..Len(s)
      BY <2>2
    <3>3. \A i \in 1..Len(s) : i \in 1..k \/ (i - k \in 1..n /\ k + (i - k) = i)
      BY <2>2
    <3>4. ASSUME NEW x PROVE x \in S!Members(t) \cup S!Members(u) => x \in S!Members(s)
      <4>1. CASE x \in S!Members(t)
        <5>1. PICK i \in 1..n : t[i] = x
          BY <2>2, <4>1, IsMember
        <5> QED BY <2>2, <3>1, <5>1, IsMember, Zenon
      <4>2. CASE x \in S!Members(u)
        <5>1. PICK i \in 1..k : u[i] = x
          BY <2>2, <4>2, IsMember
        <5> QED BY <2>2, <3>2, <5>1, IsMember
      <4> QED BY <4>1, <4>2
    <3>5. ASSUME NEW x PROVE x \in S!Members(s) => x \in S!Members(t) \cup S!Members(u)
      <4> SUFFICES ASSUME x \in S!Members(s) PROVE x \in S!Members(t) \cup S!Members(u)
        OBVIOUS
      <4>1. PICK i \in 1..Len(s) : s[i] = x
        BY IsMember
      <4>2. CASE i \in 1..k
        BY <2>2, <4>1, <4>2, IsMember, Zenon
      <4>3. CASE i - k \in 1..n /\ k + (i - k) = i
        <5>1. t[i - k] = x
          BY <2>2, <4>1, <4>3
        <5> QED BY <2>2, <4>3, <5>1, IsMember, Zenon
      <4> QED BY <3>3, <4>2, <4>3
    <3> QED BY <3>4, <3>5
  <2>5. S!Members(t) \cap S!Members(u) = {}
    <3> SUFFICES ASSUME NEW i \in 1..n, NEW j \in 1..k, t[i] = u[j] PROVE FALSE
      BY <2>2 DEF S!Members
    <3>1. k + i \in 1..Len(s) /\ j \in 1..Len(s) /\ j < k + i
      BY <2>2
    <3> QED BY <2>2, <3>1 DEF OneEach
  <2>6. S!Members(u) \subseteq Conns
    BY <2>2 DEF S!Members
  <2> QED BY <2>1, <2>2, <2>3, <2>4, <2>5, <2>6
<1> QED BY <1>1, <1>2

\* Two lists one after the other.
LEMMA Joined ==
    ASSUME NEW s \in Seq(Conns), NEW t \in Seq(Conns)
    PROVE  /\ s \o t \in Seq(Conns)
           /\ S!Members(s \o t) = S!Members(s) \cup S!Members(t)
           /\ OneEach(s \o t) <=> OneEach(s) /\ OneEach(t) /\ S!Members(s) \cap S!Members(t) = {}
           /\ S!IsInjective(s) <=> OneEach(s)
<1> DEFINE u == s \o t
<1>1. /\ u \in Seq(Conns) /\ Len(u) = Len(s) + Len(t) /\ Len(s) \in Nat /\ Len(t) \in Nat
      /\ \A i \in 1..Len(s) : u[i] = s[i]
      /\ \A i \in 1..Len(t) : u[Len(s) + i] = t[i]
  OBVIOUS
<1> HIDE DEF u
<1>2. /\ \A i \in 1..Len(s) : i \in 1..Len(u)
      /\ \A i \in 1..Len(t) : Len(s) + i \in 1..Len(u)
      /\ \A i \in 1..Len(u) : i \in 1..Len(s) \/ (i - Len(s) \in 1..Len(t) /\ Len(s) + (i - Len(s)) = i)
  BY <1>1
<1>3. S!Members(u) = S!Members(s) \cup S!Members(t)
  <2>1. ASSUME NEW x PROVE x \in S!Members(s) \cup S!Members(t) => x \in S!Members(u)
    <3>1. CASE x \in S!Members(s)
      BY <1>1, <1>2, <3>1, IsMember
    <3>2. CASE x \in S!Members(t)
      <4>1. PICK i \in 1..Len(t) : t[i] = x
        BY <3>2, IsMember
      <4> QED BY <1>1, <1>2, <4>1, IsMember, Zenon
    <3> QED BY <3>1, <3>2
  <2>2. ASSUME NEW x PROVE x \in S!Members(u) => x \in S!Members(s) \cup S!Members(t)
    <3> SUFFICES ASSUME x \in S!Members(u) PROVE x \in S!Members(s) \cup S!Members(t)
      OBVIOUS
    <3>1. PICK i \in 1..Len(u) : u[i] = x
      BY IsMember
    <3>2. CASE i \in 1..Len(s)
      BY <1>1, <3>1, <3>2, IsMember
    <3>3. CASE i - Len(s) \in 1..Len(t) /\ Len(s) + (i - Len(s)) = i
      <4>1. t[i - Len(s)] = x
        BY <1>1, <3>1, <3>3
      <4> QED BY <3>3, <4>1, IsMember
    <3> QED BY <1>2, <3>2, <3>3
  <2> QED BY <2>1, <2>2
<1>4. ASSUME OneEach(u)
      PROVE  OneEach(s) /\ OneEach(t) /\ S!Members(s) \cap S!Members(t) = {}
  <2>1. OneEach(s)
    BY <1>1, <1>2, <1>4 DEF OneEach
  <2>2. OneEach(t)
    <3> SUFFICES ASSUME NEW i \in 1..Len(t), NEW j \in 1..Len(t), i < j PROVE t[i] # t[j]
      BY DEF OneEach
    <3>1. Len(s) + i \in 1..Len(u) /\ Len(s) + j \in 1..Len(u) /\ Len(s) + i < Len(s) + j
      BY <1>1
    <3> QED BY <1>1, <1>4, <3>1 DEF OneEach
  <2>3. S!Members(s) \cap S!Members(t) = {}
    <3> SUFFICES ASSUME NEW i \in 1..Len(s), NEW j \in 1..Len(t), s[i] = t[j] PROVE FALSE
      BY DEF S!Members
    <3>1. i \in 1..Len(u) /\ Len(s) + j \in 1..Len(u) /\ i < Len(s) + j
      BY <1>1
    <3> QED BY <1>1, <1>4, <3>1 DEF OneEach
  <2> QED BY <2>1, <2>2, <2>3
<1>5. ASSUME OneEach(s), OneEach(t), S!Members(s) \cap S!Members(t) = {}
      PROVE  OneEach(u)
  <2> SUFFICES ASSUME NEW i \in 1..Len(u), NEW j \in 1..Len(u), i < j PROVE u[i] # u[j]
    BY DEF OneEach
  <2>1. CASE i \in 1..Len(s) /\ j \in 1..Len(s)
    BY <1>1, <1>5, <2>1 DEF OneEach
  <2>2. CASE i \in 1..Len(s) /\ j - Len(s) \in 1..Len(t)
    <3>1. Len(s) + (j - Len(s)) = j
      BY <1>1
    <3>2. u[i] = s[i] /\ u[j] = t[j - Len(s)]
      BY <1>1, <2>2, <3>1, Zenon
    <3>3. u[i] \in S!Members(s) /\ u[j] \in S!Members(t)
      BY <2>2, <3>2, IsMember
    <3> QED BY <1>5, <3>3
  <2>3. CASE i - Len(s) \in 1..Len(t) /\ j - Len(s) \in 1..Len(t)
    <3>1. Len(s) + (i - Len(s)) = i /\ Len(s) + (j - Len(s)) = j /\ i - Len(s) < j - Len(s)
      BY <1>1
    <3>2. u[i] = t[i - Len(s)] /\ u[j] = t[j - Len(s)]
      BY <1>1, <2>3, <3>1, Zenon
    <3> QED BY <1>5, <2>3, <3>1, <3>2, Zenon DEF OneEach
  <2>4. \/ i \in 1..Len(s) /\ j \in 1..Len(s)
        \/ i \in 1..Len(s) /\ j - Len(s) \in 1..Len(t)
        \/ i - Len(s) \in 1..Len(t) /\ j - Len(s) \in 1..Len(t)
    BY <1>1, <1>2
  <2> QED BY <2>1, <2>2, <2>3, <2>4
<1>6. S!IsInjective(s) <=> OneEach(s)
  <2>1. DOMAIN s = 1..Len(s) /\ Len(s) \in Nat
    OBVIOUS
  <2>2. \A i, j \in 1..Len(s) : i < j \/ j < i \/ i = j
    BY <2>1
  <2>3. \A i, j \in 1..Len(s) : i < j => i # j
    BY <2>1
  <2> QED BY <2>1, <2>2, <2>3 DEF S!IsInjective, OneEach
<1> QED BY <1>1, <1>3, <1>4, <1>5, <1>6 DEF u

Listed(l) == S!Members(l.conns) \cup S!Members(l.pend)

\* What pruning keeps of the lists: each connection is on one of them, once, the accepted
\* ones on conns, and the open ones are on one.
ListsGood(l) ==
    /\ l.conns \in Seq(Conns) /\ l.pend \in Seq(Conns)
    /\ OneEach(l.conns) /\ OneEach(l.pend)
    /\ S!Members(l.conns) \cap S!Members(l.pend) = {}
    /\ l.open \subseteq Listed(l)
    /\ S!Members(l.conns) \subseteq l.acc
    /\ S!Members(l.pend) \cap l.acc = {}
    /\ l.acc \subseteq Conns

LEMMA MembersAreConns == \A s \in Seq(Conns) : S!Members(s) \subseteq Conns
BY DEF S!Members

\* What matters of accepting those of a list that ask: they go to the end of conns.
LEMMA AcceptFacts ==
    ASSUME NEW l, l = [conns |-> l.conns, pend |-> l.pend, open |-> l.open, acc |-> l.acc],
           NEW s \in Seq(Conns), NEW refused, OneEach(s),
           l.conns \in Seq(Conns), OneEach(l.conns), S!Members(l.conns) \cap S!Members(s) = {}
    PROVE  LET n == S!Accept(l, s, refused)
           IN  /\ n = [conns |-> n.conns, pend |-> l.pend, open |-> n.open, acc |-> n.acc]
               /\ n.conns \in Seq(Conns) /\ OneEach(n.conns)
               /\ S!Members(n.conns) = S!Members(l.conns) \cup (S!Members(s) \cap asks')
               /\ n.acc = l.acc \cup (S!Members(s) \cap asks')
               /\ n.open = l.open \ ((S!Members(s) \cap asks') \cap refused)
               /\ l.conns # <<>> => n.conns # <<>>
<1> DEFINE new == S!Filter(s, asks')
           n == S!Accept(l, s, refused)
<1>1. new \in Seq(Conns) /\ OneEach(new) /\ S!Members(new) = S!Members(s) \cap asks'
  BY FilteredConns
<1>2. n = [l EXCEPT !.conns = @ \o new, !.acc = @ \cup S!Members(new),
                    !.open = @ \ (S!Members(new) \cap refused)]
  BY DEF S!Accept
<1> HIDE DEF new, n
<1>3. /\ n = [conns |-> n.conns, pend |-> l.pend, open |-> n.open, acc |-> n.acc]
      /\ n.conns = l.conns \o new
      /\ n.acc = l.acc \cup S!Members(new)
      /\ n.open = l.open \ (S!Members(new) \cap refused)
  BY <1>2, Zenon
<1>4. /\ l.conns \o new \in Seq(Conns)
      /\ S!Members(l.conns \o new) = S!Members(l.conns) \cup S!Members(new)
      /\ OneEach(l.conns \o new)
  <2>1. S!Members(l.conns) \cap S!Members(new) = {}
    BY <1>1
  <2> QED BY <1>1, <2>1, Joined
<1>5. l.conns # <<>> => l.conns \o new # <<>>
  BY <1>1
<1> QED BY <1>1, <1>3, <1>4, <1>5 DEF n

LEMMA PendingPruned ==
    ASSUME NEW l, l = [conns |-> l.conns, pend |-> l.pend, open |-> l.open, acc |-> l.acc],
           NEW refused, ListsGood(l), maxClients \in Nat
    PROVE  LET n == S!PrunePending(l, refused)
           IN  /\ n = [conns |-> n.conns, pend |-> n.pend, open |-> n.open, acc |-> n.acc]
               /\ ListsGood(n)
               /\ n.open \subseteq l.open
               /\ Listed(n) \subseteq Listed(l)
               /\ n.acc \subseteq l.acc \cup Listed(l)
               /\ l.conns # <<>> => n.conns # <<>>
<1> DEFINE still == S!Filter(l.pend, l.open)
           moved == S!Accept(l, still, refused)
           rest == S!Filter(still, Conns \ moved.acc)
           n == S!PrunePending(l, refused)
           newer == S!Newest(rest, maxClients)
           older == S!Oldest(rest, maxClients)
<1>1. still \in Seq(Conns) /\ OneEach(still) /\ S!Members(still) = S!Members(l.pend) \cap l.open
  BY FilteredConns DEF ListsGood
<1>2. /\ moved = [conns |-> moved.conns, pend |-> l.pend, open |-> moved.open, acc |-> moved.acc]
      /\ moved.conns \in Seq(Conns) /\ OneEach(moved.conns)
      /\ S!Members(moved.conns) = S!Members(l.conns) \cup (S!Members(still) \cap asks')
      /\ moved.acc = l.acc \cup (S!Members(still) \cap asks')
      /\ moved.open = l.open \ ((S!Members(still) \cap asks') \cap refused)
      /\ l.conns # <<>> => moved.conns # <<>>
  <2>1. l.conns \in Seq(Conns) /\ OneEach(l.conns) /\ S!Members(l.conns) \cap S!Members(still) = {}
    BY <1>1 DEF ListsGood
  <2> HIDE DEF still
  <2> QED BY <1>1, <2>1, AcceptFacts
<1>3. /\ rest \in Seq(Conns) /\ OneEach(rest)
      /\ S!Members(rest) = S!Members(still) \cap (Conns \ moved.acc)
  <2> HIDE DEF still, moved
  <2> QED BY <1>1, FilteredConns
<1>4. /\ newer \in Seq(Conns) /\ OneEach(newer)
      /\ S!Members(newer) \cup S!Members(older) = S!Members(rest)
      /\ S!Members(newer) \cap S!Members(older) = {}
  <2> HIDE DEF rest
  <2> QED BY <1>3, Halves
<1>5. n = [moved EXCEPT !.pend = newer, !.open = @ \ S!Members(older)]
  BY DEF S!PrunePending
<1> HIDE DEF n, still, moved, rest, newer, older
<1>6. /\ n = [conns |-> moved.conns, pend |-> newer, open |-> n.open, acc |-> moved.acc]
      /\ n.conns = moved.conns /\ n.pend = newer /\ n.acc = moved.acc
      /\ n.open = moved.open \ S!Members(older)
  BY <1>2, <1>5, Zenon
<1>7. /\ S!Members(still) \subseteq Conns
      /\ S!Members(newer) \subseteq S!Members(rest)
      /\ S!Members(l.pend) \subseteq Conns
  BY <1>1, <1>4, MembersAreConns DEF ListsGood
<1>8. ListsGood(n)
  <2>1. S!Members(n.conns) \cap S!Members(n.pend) = {}
    BY <1>1, <1>2, <1>3, <1>6, <1>7 DEF ListsGood
  <2>2. n.open \subseteq Listed(n)
    <3>1. ASSUME NEW c \in n.open PROVE c \in S!Members(n.conns) \cup S!Members(n.pend)
      <4>1. c \in l.open /\ c \notin S!Members(older)
        BY <1>2, <1>6
      <4>2. CASE c \in S!Members(l.conns)
        BY <1>2, <1>6, <4>2
      <4>3. CASE c \in S!Members(l.pend)
        <5>1. c \in S!Members(still) /\ c \notin l.acc /\ c \in Conns
          BY <1>1, <1>7, <4>1, <4>3 DEF ListsGood
        <5> QED BY <1>2, <1>3, <1>4, <1>6, <4>1, <5>1
      <4> QED BY <4>1, <4>2, <4>3 DEF ListsGood, Listed
    <3> QED BY <3>1 DEF Listed
  <2>3. S!Members(n.conns) \subseteq n.acc /\ n.acc \subseteq Conns
    BY <1>2, <1>6, <1>7 DEF ListsGood
  <2>4. S!Members(n.pend) \cap n.acc = {}
    BY <1>3, <1>6, <1>7
  <2> QED BY <1>2, <1>4, <1>6, <2>1, <2>2, <2>3, <2>4 DEF ListsGood
<1>9. n.open \subseteq l.open /\ Listed(n) \subseteq Listed(l) /\ n.acc \subseteq l.acc \cup Listed(l)
  BY <1>1, <1>2, <1>3, <1>6, <1>7 DEF Listed
<1> QED BY <1>2, <1>6, <1>8, <1>9 DEF n

LEMMA AcceptedPruned ==
    ASSUME NEW l, l = [conns |-> l.conns, pend |-> l.pend, open |-> l.open, acc |-> l.acc],
           ListsGood(l), maxClients \in Nat
    PROVE  LET n == S!PruneAccepted(l)
           IN  /\ ListsGood(n)
               /\ n.open \subseteq l.open
               /\ Listed(n) \subseteq Listed(l)
               /\ n.acc = l.acc
               /\ l.conns = <<>> => n.conns = <<>>
<1> DEFINE still == S!Filter(l.conns, l.open)
           newer == S!Newest(still, maxClients)
           older == S!Oldest(still, maxClients)
           n == S!PruneAccepted(l)
<1>1. still \in Seq(Conns) /\ OneEach(still) /\ S!Members(still) = S!Members(l.conns) \cap l.open
  BY FilteredConns DEF ListsGood
<1>2. /\ newer \in Seq(Conns) /\ OneEach(newer)
      /\ S!Members(newer) \cup S!Members(older) = S!Members(still)
      /\ S!Members(newer) \cap S!Members(older) = {}
  <2> HIDE DEF still
  <2> QED BY <1>1, Halves
<1>3. n = [l EXCEPT !.conns = newer, !.open = @ \ S!Members(older)]
  BY DEF S!PruneAccepted
<1> HIDE DEF n, still, newer, older
<1>4. n.conns = newer /\ n.pend = l.pend /\ n.acc = l.acc /\ n.open = l.open \ S!Members(older)
  BY <1>3
<1>5. ListsGood(n)
  <2>1. n.open \subseteq Listed(n)
    BY <1>1, <1>2, <1>4 DEF ListsGood, Listed
  <2> QED BY <1>1, <1>2, <1>4, <2>1 DEF ListsGood
<1>6. Listed(n) \subseteq Listed(l)
  BY <1>1, <1>2, <1>4 DEF Listed
<1>7. ASSUME l.conns = <<>> PROVE newer = <<>>
  <2>1. S!Members(l.conns) = {}
    BY <1>7 DEF S!Members
  <2>2. S!Members(newer) = {}
    BY <1>1, <1>2, <2>1
  <2> QED BY <1>2, <2>2, IsMember, Zenon
<1> QED BY <1>4, <1>5, <1>6, <1>7 DEF n

ServerLists == [conns |-> clients, pend |-> clientsPending, open |-> opened, acc |-> accepted]

\* The inductive invariant of the server.
ServerInv ==
    /\ listening \in BOOLEAN /\ maxClients \in 0..MaxLimit
    /\ asks \in SUBSET Conns /\ unseen \in SUBSET Conns
    /\ ListsGood(ServerLists)
    /\ S!AllDisconnectIsTold
    /\ (Listed(ServerLists) \cup accepted) \cap unseen = {}

LEMMA ServerInit == S!Init => ServerInv
<1> SUFFICES ASSUME S!Init PROVE ServerInv
  OBVIOUS
<1>1. S!Members(<<>>) = {}
  BY DEF S!Members
<1>2. ListsGood(ServerLists)
  BY <1>1 DEF S!Init, ListsGood, ServerLists, Listed, OneEach
<1>3. Listed(ServerLists) = {} /\ accepted = {}
  BY <1>1 DEF S!Init, ServerLists, Listed
<1>4. /\ listening \in BOOLEAN /\ maxClients \in 0..MaxLimit
      /\ asks \in SUBSET Conns /\ unseen \in SUBSET Conns
  <2>1. maxClients \in 1..MaxLimit /\ listening = FALSE /\ asks = {} /\ unseen = Conns
    BY DEF S!Init
  <2>2. MaxLimit \in Nat
    BY PlatformAssumption
  <2>3. maxClients \in 0..MaxLimit
    BY <2>1, <2>2
  <2> QED BY <2>1, <2>3, Zenon
<1>5. S!AllDisconnectIsTold
  BY DEF S!Init, S!AllDisconnectIsTold
<1> QED BY <1>2, <1>3, <1>4, <1>5 DEF ServerInv

\* A server_prune_connections, of whatever the handler has made of the lists.
LEMMA ServerPruned ==
    ASSUME NEW l, l = [conns |-> l.conns, pend |-> l.pend, open |-> l.open, acc |-> l.acc],
           NEW refused, ListsGood(l), ServerInv, clients # <<>> => l.conns # <<>>, S!Prune(l,
           refused)
    PROVE  /\ ListsGood(ServerLists)'
           /\ S!AllDisconnectIsTold'
           /\ (Listed(ServerLists) \cup accepted)' \subseteq Listed(l) \cup l.acc
<1> DEFINE half == S!PrunePending(l, refused)
           done == S!PruneAccepted(half)
<1>1. maxClients \in Nat
  BY PlatformAssumption DEF ServerInv
<1>2. /\ half = [conns |-> half.conns, pend |-> half.pend, open |-> half.open, acc |-> half.acc]
      /\ ListsGood(half)
      /\ half.open \subseteq l.open
      /\ Listed(half) \subseteq Listed(l)
      /\ half.acc \subseteq l.acc \cup Listed(l)
      /\ l.conns # <<>> => half.conns # <<>>
  BY <1>1, PendingPruned
<1>3. /\ ListsGood(done)
      /\ Listed(done) \subseteq Listed(half)
      /\ done.acc = half.acc
      /\ half.conns = <<>> => done.conns = <<>>
  <2> HIDE DEF half
  <2> QED BY <1>1, <1>2, AcceptedPruned
<1>4. /\ clients' = done.conns /\ clientsPending' = done.pend
      /\ opened' = done.open /\ accepted' = done.acc
      /\ owners' = IF ~(half.conns # <<>> /\ done.conns = <<>>)
                   THEN (IF half.conns # <<>> THEN "some" ELSE owners)
                   ELSE IF (IF half.conns # <<>> THEN "some" ELSE owners) = "some"
                        THEN "none" ELSE "told twice"
  BY Zenon DEF S!Prune, S!AllGone
<1> HIDE DEF half, done
<1>5. /\ ServerLists'.conns = done.conns /\ ServerLists'.pend = done.pend
      /\ ServerLists'.open = done.open /\ ServerLists'.acc = done.acc
  BY <1>4, Zenon DEF ServerLists
<1>6. ListsGood(ServerLists)'
  BY <1>3, <1>5 DEF ListsGood, Listed
<1>7. S!AllDisconnectIsTold'
  BY <1>2, <1>3, <1>4, Zenon DEF ServerInv, S!AllDisconnectIsTold
<1>8. (Listed(ServerLists) \cup accepted)' \subseteq Listed(l) \cup l.acc
  <2>1. Listed(ServerLists)' = Listed(done)
    BY <1>5 DEF Listed
  <2> QED BY <1>2, <1>3, <1>4, <2>1, Zenon
<1> QED BY <1>6, <1>7, <1>8

LEMMA ServerConnectInv ==
    ASSUME ServerInv, NEW c \in Conns, NEW ready \in BOOLEAN, NEW refused,
           S!Connect(c, ready, refused)
    PROVE  ServerInv'
<1> DEFINE l0 == [conns |-> clients, pend |-> clientsPending, open |-> opened \cup {c},
                  acc |-> accepted]
           l == IF ready THEN S!Accept(l0, <<c>>, refused) ELSE [l0 EXCEPT !.pend = Append(@, c)]
<1>1. /\ c \in unseen /\ unseen' = unseen \ {c} /\ UNCHANGED <<listening, maxClients>>
      /\ asks' = IF ready THEN asks \cup {c} ELSE asks
  BY DEF S!Connect
<1>2. S!Prune(l, refused)
  <2>1. [S!Now EXCEPT !.open = @ \cup {c}] = l0
    BY DEF S!Now
  <2>2. S!Prune(IF ready THEN S!Accept([S!Now EXCEPT !.open = @ \cup {c}], <<c>>, refused)
                ELSE [[S!Now EXCEPT !.open = @ \cup {c}] EXCEPT !.pend = Append(@, c)], refused)
    BY DEF S!Connect
  <2> HIDE DEF l0
  <2> QED BY <2>1, <2>2, Zenon
<1>3. /\ clients \in Seq(Conns) /\ clientsPending \in Seq(Conns)
      /\ OneEach(clients) /\ OneEach(clientsPending)
      /\ S!Members(clients) \cap S!Members(clientsPending) = {}
      /\ opened \subseteq S!Members(clients) \cup S!Members(clientsPending)
      /\ S!Members(clients) \subseteq accepted
      /\ S!Members(clientsPending) \cap accepted = {}
      /\ accepted \subseteq Conns
      /\ c \notin S!Members(clients) /\ c \notin S!Members(clientsPending) /\ c \notin accepted
  BY <1>1 DEF ServerInv, ListsGood, ServerLists, Listed
<1>4. <<c>> \in Seq(Conns) /\ OneEach(<<c>>) /\ S!Members(<<c>>) = {c}
  <2>1. <<c>> \in Seq(Conns) /\ OneEach(<<c>>) /\ Len(<<c>>) = 1 /\ <<c>>[1] = c
    BY DEF OneEach
  <2>2. \A i \in 1..1 : i = 1
    OBVIOUS
  <2>3. 1 \in 1..1
    OBVIOUS
  <2>4. \A x : x \in S!Members(<<c>>) <=> x = c
    BY <2>1, <2>2, <2>3, IsMember
  <2> QED BY <2>1, <2>4
<1>5. /\ l = [conns |-> l.conns, pend |-> l.pend, open |-> l.open, acc |-> l.acc]
      /\ ListsGood(l)
      /\ clients # <<>> => l.conns # <<>>
      /\ Listed(l) \cup l.acc \subseteq Listed(ServerLists) \cup accepted \cup {c}
  <2>1. CASE ready
    <3>1. /\ l = [conns |-> l.conns, pend |-> clientsPending, open |-> l.open, acc |-> l.acc]
          /\ l.conns \in Seq(Conns) /\ OneEach(l.conns)
          /\ S!Members(l.conns) = S!Members(clients) \cup (S!Members(<<c>>) \cap asks')
          /\ l.acc = accepted \cup (S!Members(<<c>>) \cap asks')
          /\ l.open = (opened \cup {c}) \ ((S!Members(<<c>>) \cap asks') \cap refused)
          /\ clients # <<>> => l.conns # <<>>
      <4>1. /\ l0 = [conns |-> l0.conns, pend |-> l0.pend, open |-> l0.open, acc |-> l0.acc]
            /\ l0.conns = clients /\ l0.pend = clientsPending /\ l0.open = opened \cup {c}
            /\ l0.acc = accepted
        OBVIOUS
      <4>2. l = S!Accept(l0, <<c>>, refused)
        BY <2>1
      <4>3. S!Members(l0.conns) \cap S!Members(<<c>>) = {}
        BY <1>3, <1>4, <4>1
      <4> DEFINE n == S!Accept(l0, <<c>>, refused)
      <4>4. /\ n = [conns |-> n.conns, pend |-> l0.pend, open |-> n.open, acc |-> n.acc]
            /\ n.conns \in Seq(Conns) /\ OneEach(n.conns)
            /\ S!Members(n.conns) = S!Members(l0.conns) \cup (S!Members(<<c>>) \cap asks')
            /\ n.acc = l0.acc \cup (S!Members(<<c>>) \cap asks')
            /\ n.open = l0.open \ ((S!Members(<<c>>) \cap asks') \cap refused)
            /\ l0.conns # <<>> => n.conns # <<>>
        <5> HIDE DEF l0, l
        <5>1. l0.conns \in Seq(Conns) /\ OneEach(l0.conns)
          BY <1>3, <4>1
        <5> QED BY <1>4, <4>1, <4>3, <5>1, AcceptFacts
      <4>5. l = n
        BY <4>2
      <4> HIDE DEF l0, l, n
      <4> QED BY <4>1, <4>4, <4>5
    <3> HIDE DEF l, l0
    <3>2. l.pend = clientsPending /\ c \in asks'
      BY <1>1, <2>1, <3>1
    <3>3. S!Members(<<c>>) \cap asks' = {c}
      BY <1>4, <3>2
    <3>4. S!Members(l.conns) = S!Members(clients) \cup {c} /\ l.acc = accepted \cup {c}
          /\ l.open \subseteq opened \cup {c}
      BY <3>1, <3>3
    <3>5. ListsGood(l)
      BY <1>3, <3>1, <3>2, <3>4 DEF ListsGood, Listed
    <3> QED BY <3>1, <3>2, <3>4, <3>5 DEF Listed, ServerLists
  <2>2. CASE ~ready
    <3>1. /\ l = [conns |-> clients, pend |-> Append(clientsPending, c), open |-> opened \cup {c},
                  acc |-> accepted]
      BY <2>2, Zenon
    <3> HIDE DEF l, l0
    <3>2. /\ Append(clientsPending, c) = clientsPending \o <<c>>
      BY <1>3
    <3>3. /\ l.pend \in Seq(Conns) /\ OneEach(l.pend)
          /\ S!Members(l.pend) = S!Members(clientsPending) \cup {c}
      <4>1. S!Members(clientsPending) \cap S!Members(<<c>>) = {}
        BY <1>3, <1>4
      <4>2. l.pend = clientsPending \o <<c>>
        BY <3>1, <3>2
      <4>3. /\ clientsPending \o <<c>> \in Seq(Conns)
            /\ OneEach(clientsPending \o <<c>>)
            /\ S!Members(clientsPending \o <<c>>) = S!Members(clientsPending) \cup S!Members(<<c>>)
        BY <1>3, <1>4, <4>1, Joined, Zenon
      <4> QED BY <1>4, <4>2, <4>3
    <3>4. l.conns = clients /\ l.acc = accepted /\ l.open = opened \cup {c}
      BY <3>1
    <3>5. ListsGood(l)
      BY <1>3, <3>3, <3>4 DEF ListsGood, Listed
    <3> QED BY <3>1, <3>3, <3>4, <3>5 DEF Listed, ServerLists
  <2> QED BY <2>1, <2>2, Zenon
<1> HIDE DEF l, l0
<1>6. /\ ListsGood(ServerLists)'
      /\ S!AllDisconnectIsTold'
      /\ (Listed(ServerLists) \cup accepted)' \subseteq Listed(l) \cup l.acc
  BY <1>2, <1>5, ServerPruned
<1>7. (Listed(ServerLists) \cup accepted)' \cap unseen' = {}
  BY <1>1, <1>5, <1>6 DEF ServerInv
<1> QED BY <1>1, <1>6, <1>7 DEF ServerInv

LEMMA ServerStopInv == ASSUME ServerInv, S!Stop PROVE ServerInv'
<1>1. /\ listening' = FALSE /\ clients' = <<>> /\ clientsPending' = <<>>
      /\ opened' = opened \ (S!Members(clients) \cup S!Members(clientsPending))
      /\ owners' = IF clients # <<>> THEN "none" ELSE owners
      /\ UNCHANGED <<maxClients, asks, accepted, unseen>>
  BY DEF S!Stop
<1>2. S!Members(<<>>) = {}
  BY DEF S!Members
<1>3. ListsGood(ServerLists)'
  BY <1>1, <1>2 DEF ServerInv, ListsGood, ServerLists, Listed, OneEach
<1>4. S!AllDisconnectIsTold'
  BY <1>1 DEF ServerInv, S!AllDisconnectIsTold
<1> QED BY <1>1, <1>2, <1>3, <1>4, Zenon DEF ServerInv, Listed, ServerLists

LEMMA ServerNext == ServerInv /\ [S!Next]_serverVars => ServerInv'
<1> SUFFICES ASSUME ServerInv, [S!Next]_serverVars PROVE ServerInv'
  OBVIOUS
<1>1. CASE UNCHANGED serverVars
  BY <1>1 DEF serverVars, ServerInv, ServerLists, ListsGood, Listed, S!AllDisconnectIsTold
<1>2. CASE S!Start \/ \E n \in 0..MaxLimit : S!SetMaxConnections(n)
  BY <1>2, Zenon DEF S!Start, S!SetMaxConnections, ServerInv, ServerLists, ListsGood, Listed,
              S!AllDisconnectIsTold
<1>3. CASE \E c \in Conns : S!ConnectFails(c) \/ S!AsksIn(c)
  BY <1>3 DEF S!ConnectFails, S!AsksIn, ServerInv, ServerLists, ListsGood, Listed,
              S!AllDisconnectIsTold
<1>4. CASE \E c \in Conns : S!Disconnects(c)
  BY <1>4 DEF S!Disconnects, ServerInv, ServerLists, ListsGood, Listed, S!AllDisconnectIsTold
<1>5. CASE \E c \in Conns, ready \in BOOLEAN, refused \in SUBSET Conns :
              S!Connect(c, ready, refused)
  BY <1>5, ServerConnectInv
<1>6. ASSUME NEW refused \in SUBSET Conns, S!Dispatch(refused) PROVE ServerInv'
  <2>1. asks' = asks /\ UNCHANGED <<listening, maxClients, unseen>> /\ S!Prune(S!Now, refused)
    BY <1>6 DEF S!Dispatch
  <2>2. S!Now = ServerLists /\ ServerLists.conns = clients
        /\ ServerLists.pend = clientsPending /\ ServerLists.open = opened
        /\ ServerLists.acc = accepted
    BY DEF S!Now, ServerLists
  <2>3. ServerLists = [conns |-> ServerLists.conns, pend |-> ServerLists.pend,
                       open |-> ServerLists.open, acc |-> ServerLists.acc]
    BY <2>2 DEF ServerLists
  <2>4. /\ ListsGood(ServerLists)'
        /\ S!AllDisconnectIsTold'
        /\ (Listed(ServerLists) \cup accepted)' \subseteq Listed(ServerLists) \cup ServerLists.acc
    <3>1. ListsGood(ServerLists) /\ (clients # <<>> => ServerLists.conns # <<>>)
      BY <2>2 DEF ServerInv
    <3>2. S!Prune(ServerLists, refused)
      BY <2>1, <2>2
    <3>4. PICK m : m = ServerLists
      OBVIOUS
    <3>5. m = [conns |-> m.conns, pend |-> m.pend, open |-> m.open, acc |-> m.acc]
          /\ ListsGood(m) /\ (clients # <<>> => m.conns # <<>>) /\ S!Prune(m, refused)
      BY <2>3, <3>1, <3>2, <3>4
    <3> QED BY <3>4, <3>5, ServerPruned, Zenon
  <2> QED BY <2>1, <2>2, <2>4 DEF ServerInv
<1>7. CASE S!Stop
  BY <1>7, ServerStopInv
<1> QED BY <1>1, <1>2, <1>3, <1>4, <1>5, <1>6, <1>7 DEF S!Next

LEMMA ServerIsExact == ServerInv => S!HeldOnce /\ S!AllDisconnectIsTold /\ S!TypeOK
<1> SUFFICES ASSUME ServerInv PROVE S!HeldOnce /\ S!AllDisconnectIsTold /\ S!TypeOK
  OBVIOUS
<1>1. /\ clients \in Seq(Conns) /\ clientsPending \in Seq(Conns)
      /\ OneEach(clients) /\ OneEach(clientsPending)
      /\ S!Members(clients) \cap S!Members(clientsPending) = {}
      /\ opened \subseteq S!Members(clients) \cup S!Members(clientsPending)
      /\ S!Members(clients) \subseteq accepted
      /\ S!Members(clientsPending) \cap accepted = {}
      /\ accepted \subseteq Conns
  BY DEF ServerInv, ListsGood, ServerLists, Listed
<1>2. S!IsInjective(clients \o clientsPending)
  <2>1. OneEach(clients \o clientsPending) /\ clients \o clientsPending \in Seq(Conns)
    BY <1>1, Joined
  <2> QED BY <1>1, <2>1, Joined, Zenon
<1>3. opened \subseteq Conns
  BY <1>1, MembersAreConns
<1> QED BY <1>1, <1>2, <1>3 DEF S!HeldOnce, S!TypeOK, S!AllDisconnectIsTold, ServerInv

-----------------------------------------------------------------------------
(* A signal and its slots.                                                 *)

SlotRecord == [id : Nat, f : Nat, gone : BOOLEAN]

\* The records of a signal: each refers to a function that was made, under an id of its own.
GoodRecords(rs, n, m) ==
    /\ rs \in Seq(SlotRecord)
    /\ \A i \in 1..Len(rs) : rs[i].id < n /\ rs[i].f \in 1..m
    /\ \A i, j \in 1..Len(rs) : i < j => rs[i].id # rs[j].id

\* A held function that is not empty is known to its handler, which lives.
GoodFunctions ==
    /\ alive \subseteq Handlers /\ owner \in Seq(Handlers) /\ Len(owner) <= MaxFunctions
    /\ valid \subseteq 1..Len(owner) /\ slots \subseteq 1..Len(owner)
    /\ invalidators \in [Handlers -> SUBSET (1..Len(owner))]
    /\ \A f \in G!Connected \cup slots :
          f \in valid => owner[f] \in alive /\ f \in invalidators[owner[f]]

\* How far an emission has come: what is behind it was called or has to go, and what is
\* before it was not called.
GoodEmission ==
    /\ it \in Nat /\ it <= Len(records) + 1 /\ called \subseteq 0..(next_id - 1)
    /\ calling \in BOOLEAN /\ pending_removal \in BOOLEAN
    /\ calling => it \in 1..Len(records) /\ records[it].id \in called
    /\ it = 0 => called = {}
    /\ \A i \in 1..Len(records) :
          /\ i < it => records[i].id \in called \/ records[i].gone \/ records[i].f \notin valid
          /\ i > it => records[i].id \notin called
          /\ i = it /\ ~calling => records[i].id \notin called

SignalInv ==
    /\ next_id \in 0..MaxIds
    /\ GoodRecords(records, next_id, Len(owner))
    /\ GoodFunctions
    /\ GoodEmission

LEMMA SignalInit == G!Init => SignalInv
<1> SUFFICES ASSUME G!Init PROVE SignalInv
  OBVIOUS
<1>1. /\ alive = Handlers /\ owner = <<>> /\ valid = {} /\ slots = {}
      /\ invalidators = [h \in Handlers |-> {}] /\ records = <<>> /\ next_id = 0
      /\ pending_removal = FALSE /\ it = 0 /\ calling = FALSE /\ called = {}
  BY DEF G!Init
<1>2. GoodRecords(records, next_id, Len(owner))
  BY <1>1 DEF GoodRecords
<1>3. GoodFunctions
  BY <1>1, PlatformAssumption DEF GoodFunctions, G!Connected
<1>4. GoodEmission
  <2>1. Len(records) = 0 /\ 1..Len(records) = {}
    BY <1>1
  <2>2. called \subseteq 0..(next_id - 1)
    BY <1>1
  <2>3. calling = FALSE /\ it = 0 /\ 0 \in Nat /\ 0 <= 0 + 1
    BY <1>1
  <2> QED BY <1>1, <2>1, <2>2, <2>3, Zenon DEF GoodEmission
<1> QED BY <1>1, <1>2, <1>3, <1>4, PlatformAssumption DEF SignalInv

LEMMA NewSlotInv ==
    ASSUME SignalInv, NEW h \in Handlers, h \in alive, G!NewSlot(h),
           UNCHANGED <<alive, records, next_id, pending_removal, it, calling, called>>
    PROVE  SignalInv'
<1> DEFINE n == Len(owner) + 1
           o == Append(owner, h)
<1>1. /\ Len(owner) < MaxFunctions /\ owner' = o /\ valid' = valid \cup {n}
      /\ slots' = slots \cup {n}
      /\ invalidators' = [invalidators EXCEPT ![h] = (@ \cup {n}) \cap ((slots \cup G!Connected) \cup {n})]
  BY DEF G!NewSlot, G!Register
<1>2. /\ owner \in Seq(Handlers) /\ Len(owner) \in Nat /\ n \in Nat
      /\ o \in Seq(Handlers) /\ Len(o) = n /\ o[n] = h
      /\ \A f \in 1..Len(owner) : o[f] = owner[f] /\ f # n /\ f \in 1..n
      /\ n \in 1..n /\ n \notin 1..Len(owner) /\ MaxFunctions \in Nat
  BY PlatformAssumption DEF SignalInv, GoodFunctions
<1> HIDE DEF n, o
<1>3. Len(owner') = n /\ \A x : x \in 1..Len(owner) => x \in 1..Len(owner')
  BY <1>1, <1>2
<1>4. GoodRecords(records, next_id, Len(owner))'
  BY <1>3 DEF SignalInv, GoodRecords
<1>5. GoodEmission'
  BY <1>1, <1>2, Zenon DEF SignalInv, GoodEmission, GoodRecords
<1>6. G!Connected' = G!Connected /\ G!Connected \subseteq 1..Len(owner)
  BY DEF G!Connected, SignalInv, GoodRecords
<1>7. /\ valid \subseteq 1..Len(owner) /\ slots \subseteq 1..Len(owner)
      /\ invalidators \in [Handlers -> SUBSET (1..Len(owner))] /\ alive \subseteq Handlers
      /\ \A f \in G!Connected \cup slots :
            f \in valid => owner[f] \in alive /\ f \in invalidators[owner[f]]
  BY DEF SignalInv, GoodFunctions
<1>8. /\ valid' \subseteq 1..Len(owner') /\ slots' \subseteq 1..Len(owner')
      /\ invalidators' \in [Handlers -> SUBSET (1..Len(owner'))]
      /\ Len(owner') <= MaxFunctions /\ owner' \in Seq(Handlers)
  <2>1. valid' \subseteq 1..n /\ slots' \subseteq 1..n
    BY <1>1, <1>2, <1>7
  <2>2. invalidators' \in [Handlers -> SUBSET (1..n)]
    <3>1. invalidators \in [Handlers -> SUBSET (1..n)]
      <4>1. SUBSET (1..Len(owner)) \subseteq SUBSET (1..n)
        BY <1>2
      <4> QED BY <1>7, <4>1
    <3>2. (invalidators[h] \cup {n}) \cap ((slots \cup G!Connected) \cup {n}) \in SUBSET (1..n)
      BY <1>2, <3>1
    <3> QED BY <1>1, <3>1, <3>2
  <2>3. n <= MaxFunctions
    BY <1>1, <1>2 DEF n
  <2> QED BY <1>1, <1>2, <1>3, <2>1, <2>2, <2>3
<1>9. ASSUME NEW f \in G!Connected \cup slots', f \in valid'
      PROVE  owner'[f] \in alive' /\ f \in invalidators'[owner'[f]]
  <2>1. CASE f = n
    BY <1>1, <1>2, <1>7, <2>1
  <2>2. CASE f # n
    <3>1. f \in G!Connected \cup slots /\ f \in valid /\ f \in 1..Len(owner)
      BY <1>1, <1>6, <1>7, <1>9, <2>2
    <3>2. owner'[f] = owner[f] /\ owner[f] \in alive /\ f \in invalidators[owner[f]]
      BY <1>1, <1>2, <1>7, <3>1
    <3>3. f \in invalidators'[owner[f]]
      BY <1>1, <1>7, <3>1, <3>2
    <3> QED BY <3>2, <3>3
  <2> QED BY <2>1, <2>2
<1>10. GoodFunctions'
  BY <1>6, <1>7, <1>8, <1>9 DEF GoodFunctions
<1> QED BY <1>4, <1>5, <1>10 DEF SignalInv

LEMMA SlotGoneInv ==
    ASSUME SignalInv, \/ \E f \in G!Function : G!DropSlot(f)
                      \/ \E h \in Handlers : G!DestroyHandler(h)
    PROVE  SignalInv'
<1>1. /\ slots' \subseteq slots /\ valid' \subseteq valid
      /\ UNCHANGED <<owner, records, next_id, pending_removal, it, calling, called>>
  BY DEF G!DropSlot, G!DestroyHandler
<1>2. GoodRecords(records, next_id, Len(owner))'
  BY <1>1 DEF SignalInv, GoodRecords
<1>3. GoodEmission'
  BY <1>1 DEF SignalInv, GoodEmission
<1>4. G!Connected' = G!Connected
  BY <1>1 DEF G!Connected
<1>5. CASE \E f \in G!Function : G!DropSlot(f)
  <2>1. UNCHANGED <<alive, valid, invalidators>>
    BY <1>5 DEF G!DropSlot
  <2>2. GoodFunctions'
    BY <1>1, <1>4, <2>1, Zenon DEF SignalInv, GoodFunctions
  <2> QED BY <1>1, <1>2, <1>3, <2>2 DEF SignalInv
<1>6. ASSUME NEW h \in Handlers, G!DestroyHandler(h) PROVE SignalInv'
  <2>1. /\ alive' = alive \ {h} /\ valid' = valid \ invalidators[h]
        /\ invalidators' = [invalidators EXCEPT ![h] = {}] /\ UNCHANGED slots
    BY <1>6 DEF G!DestroyHandler
  <2>2. GoodFunctions'
    BY <1>1, <1>4, <2>1, Zenon DEF SignalInv, GoodFunctions
  <2> QED BY <1>1, <1>2, <1>3, <2>2 DEF SignalInv
<1> QED BY <1>5, <1>6

LEMMA ConnectInv == ASSUME SignalInv, NEW f \in G!Function, G!Connect(f) PROVE SignalInv'
<1> DEFINE new == [id |-> next_id, f |-> f, gone |-> FALSE]
           rs == Append(records, new)
           n == Len(records) + 1
<1>1. /\ f \in slots \cap valid /\ next_id < MaxIds /\ records' = rs /\ next_id' = next_id + 1
      /\ it = 0 \/ calling
      /\ UNCHANGED <<alive, owner, valid, slots, invalidators, pending_removal, it, calling, called>>
  BY DEF G!Connect, G!ClientRuns
<1>2. /\ next_id \in Nat /\ next_id <= MaxIds /\ MaxIds \in Nat /\ records \in Seq(SlotRecord)
      /\ f \in 1..Len(owner) /\ f \in Nat /\ Len(records) \in Nat
      /\ \A i \in 1..Len(records) : records[i].id < next_id /\ records[i].id \in Nat
                                   /\ records[i].f \in 1..Len(owner)
      /\ \A i, j \in 1..Len(records) : i < j => records[i].id # records[j].id
  <2>1. /\ next_id \in 0..MaxIds /\ MaxIds \in Nat /\ records \in Seq(SlotRecord)
        /\ f \in slots /\ slots \subseteq 1..Len(owner) /\ owner \in Seq(Handlers)
        /\ \A i \in 1..Len(records) : records[i].id < next_id /\ records[i].f \in 1..Len(owner)
        /\ \A i, j \in 1..Len(records) : i < j => records[i].id # records[j].id
    BY <1>1, PlatformAssumption DEF SignalInv, GoodRecords, GoodFunctions
  <2>2. \A i \in 1..Len(records) : records[i].id \in Nat
    <3>1. \A i \in 1..Len(records) : records[i] \in SlotRecord
      BY <2>1
    <3> QED BY <3>1 DEF SlotRecord
  <2>3. Len(owner) \in Nat /\ Len(records) \in Nat
    BY <2>1
  <2>4. next_id \in Nat /\ next_id <= MaxIds
    BY <2>1
  <2>5. f \in 1..Len(owner) /\ f \in Nat
    BY <2>1, <2>3
  <2> QED BY <2>1, <2>2, <2>3, <2>4, <2>5, Zenon
<1>3. new \in SlotRecord /\ new.id = next_id /\ new.f = f /\ new.gone = FALSE
  BY <1>2 DEF SlotRecord
<1> HIDE DEF new
<1>4. /\ rs \in Seq(SlotRecord) /\ Len(rs) = n /\ rs[n] = new
      /\ \A i \in 1..Len(records) : rs[i] = records[i] /\ i \in 1..n /\ i < n
  BY <1>2, <1>3
<1>5. \A i \in 1..n : i \in 1..Len(records) \/ i = n
  BY <1>2
<1>6. n \in 1..n /\ n \in Nat
  BY <1>2
<1> HIDE DEF rs, n
<1>7. GoodRecords(rs, next_id + 1, Len(owner))
  <2>1. \A i \in 1..n : rs[i].id < next_id + 1 /\ rs[i].f \in 1..Len(owner)
    BY <1>2, <1>3, <1>4, <1>5
  <2>2. ASSUME NEW i \in 1..n, NEW j \in 1..n, i < j PROVE rs[i].id # rs[j].id
    <3>1. i \in 1..Len(records)
      BY <1>5, <1>6, <2>2
    <3>2. CASE j = n
      BY <1>2, <1>3, <1>4, <3>1, <3>2
    <3>3. CASE j \in 1..Len(records)
      BY <1>2, <1>4, <2>2, <3>1, <3>3
    <3> QED BY <1>5, <3>2, <3>3
  <2> QED BY <1>4, <2>1, <2>2 DEF GoodRecords
<1>8. GoodRecords(records, next_id, Len(owner))'
  BY <1>1, <1>7 DEF GoodRecords
<1>9. GoodFunctions'
  <2>1. ASSUME NEW g \in G!Connected' PROVE g \in G!Connected \cup slots
    <3>1. PICK i \in 1..n : g = rs[i].f
      BY <1>1, <1>4 DEF G!Connected
    <3>2. CASE i = n
      BY <1>1, <1>3, <1>4, <3>1, <3>2
    <3>3. CASE i \in 1..Len(records)
      BY <1>4, <3>1, <3>3 DEF G!Connected
    <3> QED BY <1>5, <3>2, <3>3
  <2> QED BY <1>1, <2>1 DEF SignalInv, GoodFunctions
<1>10. GoodEmission'
  <2>1. /\ it \in Nat /\ it <= Len(records) + 1 /\ called \subseteq 0..(next_id - 1)
        /\ calling => it \in 1..Len(records) /\ records[it].id \in called
        /\ it = 0 => called = {}
        /\ calling \in BOOLEAN /\ pending_removal \in BOOLEAN
        /\ \A i \in 1..Len(records) :
              /\ i < it => records[i].id \in called \/ records[i].gone \/ records[i].f \notin valid
              /\ i > it => records[i].id \notin called
              /\ i = it /\ ~calling => records[i].id \notin called
    BY DEF SignalInv, GoodEmission
  <2>2. it < n
    BY <1>1, <1>2, <2>1 DEF n
  <2>3. next_id \notin called /\ called \subseteq 0..(next_id + 1 - 1)
    BY <1>2, <2>1
  <2>4. \A i \in 1..n :
              /\ i < it => rs[i].id \in called \/ rs[i].gone \/ rs[i].f \notin valid
              /\ i > it => rs[i].id \notin called
              /\ i = it /\ ~calling => rs[i].id \notin called
    BY <1>3, <1>4, <1>5, <2>1, <2>2, <2>3
  <2>5. /\ it <= n + 1
        /\ calling => it \in 1..n /\ rs[it].id \in called
    BY <1>1, <1>4, <1>6, <2>1, <2>2
  <2>6. Len(records') = n /\ records' = rs /\ next_id' = next_id + 1
    BY <1>1, <1>4
  <2>7. UNCHANGED <<it, called, calling, pending_removal, valid>>
    BY <1>1
  <2>8. /\ (it \in Nat)' /\ (it <= Len(records) + 1)' /\ (called \subseteq 0..(next_id - 1))'
        /\ (calling \in BOOLEAN)' /\ (pending_removal \in BOOLEAN)' /\ (it = 0 => called = {})'
    <3>1. /\ it' \in Nat /\ it' <= Len(records') + 1 /\ calling' \in BOOLEAN
          /\ pending_removal' \in BOOLEAN
      BY <2>1, <2>5, <2>6, <2>7
    <3>2. called' \subseteq 0..(next_id' - 1)
      <4>1. next_id' - 1 = next_id /\ called' = called
        BY <1>2, <2>6, <2>7
      <4>2. \A c \in called : c \in 0..next_id
        BY <1>2, <2>1
      <4> QED BY <4>1, <4>2
    <3>3. it' = 0 => called' = {}
      BY <2>1, <2>7
    <3> QED BY <3>1, <3>2, <3>3
  <2>9. (calling => it \in 1..Len(records) /\ records[it].id \in called)'
    BY <2>5, <2>6, <2>7
  <2>10. (\A i \in 1..Len(records) :
              /\ i < it => records[i].id \in called \/ records[i].gone \/ records[i].f \notin valid
              /\ i > it => records[i].id \notin called
              /\ i = it /\ ~calling => records[i].id \notin called)'
    BY <2>4, <2>6, <2>7
  <2> QED BY <2>8, <2>9, <2>10 DEF GoodEmission
<1>11. next_id' \in 0..MaxIds
  BY <1>1, <1>2
<1> QED BY <1>8, <1>9, <1>10, <1>11 DEF SignalInv

ComesFrom(t, s) == \A i \in 1..Len(t) : \E j \in 1..Len(s) : s[j] = t[i]

\* What is removed keeps the order of what stays.
LEMMA LeaveInOrder ==
    ASSUME NEW rs, NEW n, NEW m, NEW keep, GoodRecords(rs, n, m)
    PROVE  /\ GoodRecords(Filter(rs, keep), n, m)
           /\ ComesFrom(Filter(rs, keep), rs)
<1> DEFINE rel == {p \in SlotRecord \X SlotRecord : p[1].id # p[2].id}
           fs == Filter(rs, keep)
<1>1. /\ rs \in Seq(SlotRecord)
      /\ \A i \in 1..Len(rs) : rs[i].id < n /\ rs[i].f \in 1..m
      /\ \A i, j \in 1..Len(rs) : i < j => rs[i].id # rs[j].id
  BY DEF GoodRecords
<1>2. \A i \in 1..Len(rs) : rs[i] \in SlotRecord
  BY <1>1
<1>3. \A a, b : <<a, b>> \in rel <=> a \in SlotRecord /\ b \in SlotRecord /\ a.id # b.id
  OBVIOUS
<1> HIDE DEF rel
<1>4. \A i, j \in 1..Len(rs) : i < j => <<rs[i], rs[j]>> \in rel
  BY <1>1, <1>2, <1>3
<1>5. /\ fs \in Seq(SlotRecord)
      /\ \A i \in 1..Len(fs) : fs[i] \in keep /\ \E j \in 1..Len(rs) : rs[j] = fs[i]
      /\ \A j \in 1..Len(rs) : rs[j] \in keep => \E i \in 1..Len(fs) : fs[i] = rs[j]
      /\ \A i, j \in 1..Len(fs) : i < j => <<fs[i], fs[j]>> \in rel
  <2>1. rs \in Seq(SlotRecord)
    BY <1>1
  <2> QED BY <1>4, <2>1, FilterFacts, ZenonT(40)
<1> HIDE DEF fs
<1>6. \A i \in 1..Len(fs) : fs[i].id < n /\ fs[i].f \in 1..m
  BY <1>1, <1>5
<1>7. \A i, j \in 1..Len(fs) : i < j => fs[i].id # fs[j].id
  BY <1>3, <1>5, Zenon
<1>8. GoodRecords(fs, n, m)
  BY <1>5, <1>6, <1>7 DEF GoodRecords
<1>9. ComesFrom(fs, rs)
  BY <1>5 DEF ComesFrom
<1> QED BY <1>8, <1>9 DEF fs

LEMMA RemoveAllInv == ASSUME SignalInv, NEW ids, G!RemoveAll(ids) PROVE SignalInv'
<1> DEFINE marked == [i \in 1..Len(records) |->
                         [records[i] EXCEPT !.gone = @ \/ records[i].id \in ids]]
           keep == G!Stay(marked)
<1>1. /\ records' = IF it > 0 THEN marked ELSE Filter(marked, keep)
      /\ it = 0 \/ calling
      /\ pending_removal' = (it > 0)
      /\ UNCHANGED <<alive, owner, valid, slots, invalidators, next_id, it, calling, called>>
  BY SameFilter DEF G!RemoveAll, G!ClientRuns, G!Reconciled, G!locked
<1>2. /\ next_id \in 0..MaxIds /\ records \in Seq(SlotRecord)
      /\ \A i \in 1..Len(records) : records[i].id < next_id /\ records[i].f \in 1..Len(owner)
      /\ \A i, j \in 1..Len(records) : i < j => records[i].id # records[j].id
  BY DEF SignalInv, GoodRecords
<1>3. \A i \in 1..Len(records) : records[i] \in SlotRecord
  BY <1>2
<1>4. ASSUME NEW i \in 1..Len(records)
      PROVE  /\ marked[i] \in SlotRecord /\ marked[i].id = records[i].id
             /\ marked[i].f = records[i].f /\ (records[i].gone => marked[i].gone)
  <2>1. marked[i] = [records[i] EXCEPT !.gone = @ \/ records[i].id \in ids]
    OBVIOUS
  <2> QED BY <1>3, <2>1, Zenon DEF SlotRecord
<1>5. marked \in Seq(SlotRecord) /\ Len(marked) = Len(records)
  <2>1. Len(records) \in Nat
    BY <1>2
  <2>2. \A i \in 1..Len(records) : marked[i] \in SlotRecord
    BY <1>4
  <2> QED BY <2>1, <2>2
<1> HIDE DEF marked, keep
<1>6. GoodRecords(marked, next_id, Len(owner))
  BY <1>2, <1>4, <1>5 DEF GoodRecords
<1>7. GoodRecords(records', next_id, Len(owner))
  BY <1>1, <1>6, LeaveInOrder
<1>8. GoodRecords(records, next_id, Len(owner))'
  BY <1>1, <1>7 DEF GoodRecords
<1>9. G!Connected' \subseteq G!Connected
  <2>1. ASSUME NEW i \in 1..Len(records')
        PROVE \E j \in 1..Len(records) : records'[i].f = records[j].f
    <3>1. \E j \in 1..Len(marked) : records'[i] = marked[j]
      <4>1. CASE it > 0
        BY <1>1, <4>1
      <4>2. CASE ~(it > 0)
        <5>1. records' = Filter(marked, keep)
          BY <1>1, <4>2
        <5>2. ComesFrom(Filter(marked, keep), marked)
          BY <1>6, LeaveInOrder
        <5> QED BY <5>1, <5>2 DEF ComesFrom
      <4> QED BY <4>1, <4>2
    <3> QED BY <1>4, <1>5, <3>1
  <2> QED BY <2>1 DEF G!Connected
<1>10. GoodFunctions'
  BY <1>1, <1>9 DEF SignalInv, GoodFunctions
<1>11. GoodEmission'
  <2>1. /\ it \in Nat /\ it <= Len(records) + 1 /\ called \subseteq 0..(next_id - 1)
        /\ calling => it \in 1..Len(records) /\ records[it].id \in called
        /\ it = 0 => called = {}
        /\ calling \in BOOLEAN
        /\ \A i \in 1..Len(records) :
              /\ i < it => records[i].id \in called \/ records[i].gone \/ records[i].f \notin valid
              /\ i > it => records[i].id \notin called
              /\ i = it /\ ~calling => records[i].id \notin called
    BY DEF SignalInv, GoodEmission
  <2>2. pending_removal' \in BOOLEAN
    BY <1>1
  <2>3. CASE it > 0
    <3>1. records' = marked /\ Len(records') = Len(records)
      BY <1>1, <1>5, <2>3
    <3> QED BY <1>1, <1>4, <2>1, <2>2, <2>3, <3>1 DEF GoodEmission
  <2>4. CASE it = 0
    <3>1. called' = {} /\ calling' = FALSE /\ it' = 0
      BY <1>1, <1>2, <2>1, <2>4
    <3>2. Len(records') \in Nat /\ \A i \in 1..Len(records') : ~(i < 0)
      BY <1>8 DEF GoodRecords
    <3>3. (called \subseteq 0..(next_id - 1))' /\ (it <= Len(records) + 1)'
      BY <3>1, <3>2
    <3> QED BY <2>2, <3>1, <3>2, <3>3, Zenon DEF GoodEmission
  <2> QED BY <2>1, <2>3, <2>4
<1>12. next_id' \in 0..MaxIds
  BY <1>1, <1>2
<1> QED BY <1>8, <1>10, <1>11, <1>12 DEF SignalInv

LEMMA EmitInv ==
    ASSUME SignalInv, G!Emit \/ G!Skip \/ G!Call \/ G!Return PROVE SignalInv'
<1>1. /\ next_id \in 0..MaxIds /\ records \in Seq(SlotRecord) /\ Len(records) \in Nat
      /\ \A i \in 1..Len(records) : records[i].id < next_id /\ records[i].f \in 1..Len(owner)
      /\ \A i, j \in 1..Len(records) : i < j => records[i].id # records[j].id
  BY DEF SignalInv, GoodRecords
<1>2. \A i \in 1..Len(records) : records[i] \in SlotRecord /\ records[i].id \in Nat
  <2>1. \A i \in 1..Len(records) : records[i] \in SlotRecord
    BY <1>1
  <2> QED BY <2>1 DEF SlotRecord
<1>3. /\ it \in Nat /\ it <= Len(records) + 1 /\ called \subseteq 0..(next_id - 1)
      /\ calling \in BOOLEAN /\ pending_removal \in BOOLEAN
      /\ calling => it \in 1..Len(records) /\ records[it].id \in called
      /\ it = 0 => called = {}
      /\ \A i \in 1..Len(records) :
            /\ i < it => records[i].id \in called \/ records[i].gone \/ records[i].f \notin valid
            /\ i > it => records[i].id \notin called
            /\ i = it /\ ~calling => records[i].id \notin called
  BY DEF SignalInv, GoodEmission
<1>4. ASSUME UNCHANGED <<alive, owner, valid, slots, invalidators, next_id>>,
             Len(records') = Len(records), records' \in Seq(SlotRecord),
             \A i \in 1..Len(records) : records'[i].id = records[i].id /\ records'[i].f = records[i].f,
             GoodEmission'
      PROVE  SignalInv'
  <2>1. GoodRecords(records, next_id, Len(owner))'
    BY <1>1, <1>4 DEF GoodRecords
  <2>2. G!Connected' = G!Connected
    BY <1>4 DEF G!Connected
  <2>3. GoodFunctions'
    BY <1>4, <2>2 DEF SignalInv, GoodFunctions
  <2> QED BY <1>1, <1>4, <2>1, <2>3 DEF SignalInv
<1>5. CASE G!Emit
  <2>1. /\ it = 0 /\ it' = 1
        /\ UNCHANGED <<alive, owner, valid, slots, invalidators, records, next_id,
                       pending_removal, calling, called>>
    BY <1>5 DEF G!Emit
  <2>2. calling = FALSE /\ called = {} /\ \A i \in 1..Len(records) : ~(i < 1)
    BY <1>1, <1>3, <2>1
  <2>3. GoodEmission'
    BY <1>1, <1>3, <2>1, <2>2 DEF GoodEmission
  <2> QED BY <1>1, <1>4, <2>1, <2>3
<1>6. CASE G!Skip
  <2>1. /\ it \in 1..Len(records) /\ ~calling /\ (records[it].gone \/ records[it].f \notin valid)
        /\ records' = [records EXCEPT ![it].gone = TRUE]
        /\ pending_removal' = TRUE /\ it' = it + 1
        /\ UNCHANGED <<alive, owner, valid, slots, invalidators, next_id, calling, called>>
    BY <1>6 DEF G!Skip, G!should_remove
  <2>2. /\ Len(records') = Len(records) /\ records' \in Seq(SlotRecord)
        /\ \A i \in 1..Len(records) : /\ records'[i].id = records[i].id /\ records'[i].f = records[i].f
                                      /\ records[i].gone => records'[i].gone
        /\ records'[it].gone
    <3> DEFINE r == [records[it] EXCEPT !.gone = TRUE]
    <3>1. r \in SlotRecord /\ r.id = records[it].id /\ r.f = records[it].f /\ r.gone = TRUE
      BY <1>2, <2>1, Zenon DEF SlotRecord
    <3>2. records' = [records EXCEPT ![it] = r]
      BY <2>1
    <3> HIDE DEF r
    <3> DEFINE n == Len(records)
               m == [i \in 1..n |-> IF i = it THEN r ELSE records[i]]
    <3>a. n \in Nat /\ \A i \in 1..n : m[i] \in SlotRecord
      BY <1>1, <1>2, <3>1
    <3>b. m \in Seq(SlotRecord) /\ Len(m) = n
      BY <3>a
    <3>c. records' = m
      <4>1. records = [i \in 1..n |-> records[i]]
        BY <1>1
      <4> QED BY <3>2, <4>1, Zenon
    <3>3. Len(records') = Len(records) /\ records' \in Seq(SlotRecord)
      BY <3>b, <3>c
    <3>4. \A i \in 1..Len(records) : records'[i] = IF i = it THEN r ELSE records[i]
      BY <3>c
    <3> QED BY <2>1, <3>1, <3>3, <3>4
  <2>3. GoodEmission'
    <3>1. (it \in Nat)' /\ (it <= Len(records) + 1)' /\ calling' = FALSE /\ (it = 0 => called = {})'
      BY <1>1, <1>3, <2>1, <2>2
    <3>2. \A i \in 1..Len(records) : (i < it + 1 <=> i < it \/ i = it) /\ (i > it + 1 => i > it)
             /\ (i = it + 1 => i > it)
      BY <1>1, <1>3
    <3>3. (\A i \in 1..Len(records) :
            /\ i < it => records[i].id \in called \/ records[i].gone \/ records[i].f \notin valid
            /\ i > it => records[i].id \notin called
            /\ i = it /\ ~calling => records[i].id \notin called)'
      BY <1>3, <2>1, <2>2, <3>2
    <3> QED BY <1>3, <2>1, <3>1, <3>3 DEF GoodEmission
  <2> QED BY <1>4, <2>1, <2>2, <2>3
<1>7. CASE G!Call
  <2>1. /\ it \in 1..Len(records) /\ ~calling /\ calling' = TRUE
        /\ called' = called \cup {records[it].id}
        /\ UNCHANGED <<alive, owner, valid, slots, invalidators, records, next_id,
                       pending_removal, it>>
    BY <1>7 DEF G!Call
  <2>2. records[it].id \in 0..(next_id - 1)
    BY <1>1, <1>2, <2>1
  <2>3. \A i \in 1..Len(records) : i > it => records[i].id # records[it].id
    BY <1>1, <2>1
  <2>4. /\ (called \subseteq 0..(next_id - 1))'
        /\ (calling => it \in 1..Len(records) /\ records[it].id \in called)' /\ ~(it = 0)'
    <3>1. called' \subseteq 0..(next_id - 1) /\ records[it].id \in called' /\ next_id' = next_id
      BY <1>3, <2>1, <2>2, Zenon
    <3>2. it' = it /\ records' = records /\ it # 0 /\ calling' = TRUE
      BY <2>1
    <3> QED BY <2>1, <3>1, <3>2
  <2>5. (\A i \in 1..Len(records) :
            /\ i < it => records[i].id \in called \/ records[i].gone \/ records[i].f \notin valid
            /\ i > it => records[i].id \notin called
            /\ i = it /\ ~calling => records[i].id \notin called)'
    BY <1>3, <2>1, <2>3
  <2>6. GoodEmission'
    BY <1>3, <2>1, <2>4, <2>5 DEF GoodEmission
  <2> QED BY <1>1, <1>4, <2>1, <2>6
<1>8. CASE G!Return
  <2>1. /\ calling /\ calling' = FALSE /\ it' = it + 1
        /\ UNCHANGED <<alive, owner, valid, slots, invalidators, records, next_id,
                       pending_removal, called>>
    BY <1>8 DEF G!Return
  <2>2. \A i \in 1..Len(records) : (i < it + 1 <=> i < it \/ i = it) /\ (i > it + 1 => i > it)
             /\ (i = it + 1 => i > it)
    BY <1>1, <1>3
  <2>3. (it \in Nat)' /\ (it <= Len(records) + 1)' /\ ~(it = 0)'
    BY <1>1, <1>3, <2>1
  <2>4. (\A i \in 1..Len(records) :
            /\ i < it => records[i].id \in called \/ records[i].gone \/ records[i].f \notin valid
            /\ i > it => records[i].id \notin called
            /\ i = it /\ ~calling => records[i].id \notin called)'
    BY <1>3, <2>1, <2>2
  <2>5. GoodEmission'
    BY <1>3, <2>1, <2>3, <2>4, Zenon DEF GoodEmission
  <2> QED BY <1>1, <1>4, <2>1, <2>5
<1> QED BY <1>5, <1>6, <1>7, <1>8

LEMMA EndEmitInv == ASSUME SignalInv, G!EndEmit PROVE SignalInv'
<1> DEFINE keep == G!Stay(records)
<1>1. /\ records' = IF pending_removal THEN Filter(records, keep) ELSE records
      /\ it' = 0 /\ pending_removal' = FALSE /\ called' = {} /\ ~calling
      /\ UNCHANGED <<alive, owner, valid, slots, invalidators, next_id, calling>>
  BY SameFilter DEF G!EndEmit
<1>2. GoodRecords(records, next_id, Len(owner)) /\ next_id \in 0..MaxIds /\ calling \in BOOLEAN
  BY DEF SignalInv, GoodEmission
<1> HIDE DEF keep
<1>3. GoodRecords(records', next_id, Len(owner))
  BY <1>1, <1>2, LeaveInOrder
<1>4. GoodRecords(records, next_id, Len(owner))'
  BY <1>1, <1>3 DEF GoodRecords
<1>5. G!Connected' \subseteq G!Connected
  <2>1. ASSUME NEW i \in 1..Len(records') PROVE \E j \in 1..Len(records) : records'[i] = records[j]
    <3>1. CASE ~pending_removal
      BY <1>1, <3>1
    <3>2. CASE pending_removal
      <4>1. records' = Filter(records, keep)
        BY <1>1, <3>2
      <4>2. ComesFrom(Filter(records, keep), records)
        BY <1>2, LeaveInOrder
      <4> QED BY <4>1, <4>2 DEF ComesFrom
    <3> QED BY <3>1, <3>2
  <2> QED BY <2>1 DEF G!Connected
<1>6. GoodFunctions'
  BY <1>1, <1>5 DEF SignalInv, GoodFunctions
<1>7. GoodEmission'
  <2>1. called' = {} /\ calling' = FALSE /\ it' = 0 /\ pending_removal' = FALSE
    BY <1>1, <1>2
  <2>2. Len(records') \in Nat /\ \A i \in 1..Len(records') : ~(i < 0)
    BY <1>4 DEF GoodRecords
  <2>3. (called \subseteq 0..(next_id - 1))' /\ (it <= Len(records) + 1)'
    BY <2>1, <2>2
  <2> QED BY <2>1, <2>2, <2>3, Zenon DEF GoodEmission
<1> QED BY <1>1, <1>2, <1>4, <1>6, <1>7 DEF SignalInv

LEMMA SignalNext == SignalInv /\ [G!Next]_signalVars => SignalInv'
<1> SUFFICES ASSUME SignalInv, [G!Next]_signalVars PROVE SignalInv'
  OBVIOUS
<1>1. ASSUME NEW h \in Handlers, G!MakeSlot(h) PROVE SignalInv'
  <2>1. /\ h \in alive /\ G!NewSlot(h)
        /\ UNCHANGED <<alive, records, next_id, pending_removal, it, calling, called>>
    BY <1>1 DEF G!MakeSlot
  <2> QED BY <2>1, NewSlotInv
<1>2. ASSUME NEW f \in G!Function, G!DeriveSlot(f) PROVE SignalInv'
  <2>1. /\ f \in slots /\ f \in valid /\ G!NewSlot(owner[f])
        /\ UNCHANGED <<alive, records, next_id, pending_removal, it, calling, called>>
    BY <1>2 DEF G!DeriveSlot
  <2>2. owner[f] \in alive /\ owner[f] \in Handlers
    BY <2>1 DEF SignalInv, GoodFunctions
  <2>3. PICK h \in Handlers : h = owner[f]
    BY <2>2
  <2> QED BY <2>1, <2>2, <2>3, NewSlotInv
<1>3. CASE UNCHANGED signalVars
  <2>1. UNCHANGED <<alive, owner, valid, slots, invalidators, records, next_id, pending_removal,
                    it, calling, called>>
    BY <1>3 DEF signalVars
  <2>2. G!Connected' = G!Connected
    BY <2>1 DEF G!Connected
  <2>3. GoodFunctions'
    BY <2>1, <2>2 DEF SignalInv, GoodFunctions
  <2> QED BY <2>1, <2>3 DEF SignalInv, GoodRecords, GoodEmission
<1>4. CASE G!Next
  <2>1. \/ \E h \in Handlers : G!MakeSlot(h)
        \/ \E h \in Handlers : G!DestroyHandler(h)
        \/ \E f \in G!Function : G!DeriveSlot(f)
        \/ \E f \in G!Function : G!DropSlot(f)
        \/ \E f \in G!Function : G!Connect(f)
        \/ \E ids : G!RemoveAll(ids)
        \/ G!Emit \/ G!Skip \/ G!Call \/ G!Return
        \/ G!EndEmit
    BY <1>4 DEF G!Next, G!Disconnect, G!Clear
  <2> QED BY <1>1, <1>2, <2>1, SlotGoneInv, ConnectInv, RemoveAllInv, EmitInv, EndEmitInv
<1> QED BY <1>3, <1>4

LEMMA SignalIsKept == SignalInv => G!NeverCallsTheDead /\ G!TypeOK /\ G!EachIsCalledOnce
<1> SUFFICES ASSUME SignalInv PROVE G!NeverCallsTheDead /\ G!TypeOK /\ G!EachIsCalledOnce
  OBVIOUS
<1>1. /\ next_id \in 0..MaxIds /\ MaxIds \in Nat
      /\ records \in Seq(SlotRecord) /\ Len(records) \in Nat
      /\ \A i \in 1..Len(records) : records[i].id < next_id /\ records[i].f \in 1..Len(owner)
      /\ it \in Nat /\ it <= Len(records) + 1 /\ called \subseteq 0..(next_id - 1)
      /\ calling \in BOOLEAN /\ pending_removal \in BOOLEAN
      /\ \A i \in 1..Len(records) :
            /\ i < it => records[i].id \in called \/ records[i].gone \/ records[i].f \notin valid
            /\ i = it /\ ~calling => records[i].id \notin called
  BY PlatformAssumption DEF SignalInv, GoodRecords, GoodEmission
<1>2. G!NeverCallsTheDead
  BY DEF SignalInv, GoodFunctions, G!NeverCallsTheDead
<1>3. G!EachIsCalledOnce
  <2>1. ASSUME G!Call PROVE records[it].id \notin called
    BY <1>1, <2>1 DEF G!Call
  <2>2. ASSUME G!EndEmit, NEW i \in 1..Len(records), ~G!should_remove(records[i])
        PROVE  records[i].id \in called
    <3>1. i < it
      BY <1>1, <2>2 DEF G!EndEmit
    <3> QED BY <1>1, <2>2, <3>1 DEF G!should_remove
  <2> QED BY <2>1, <2>2 DEF G!EachIsCalledOnce
<1>4. G!TypeOK
  <2>1. \A i \in 1..Len(records) :
           records[i] \in [id : 0..(MaxIds - 1), f : 1..Len(owner), gone : BOOLEAN]
    <3>1. \A i \in 1..Len(records) : records[i] \in SlotRecord
      BY <1>1
    <3> SUFFICES ASSUME NEW i \in 1..Len(records)
                 PROVE  records[i] \in [id : 0..(MaxIds - 1), f : 1..Len(owner), gone : BOOLEAN]
      OBVIOUS
    <3>2. records[i].id \in 0..(MaxIds - 1) /\ records[i].f \in 1..Len(owner)
      BY <1>1, <3>1 DEF SlotRecord
    <3> QED BY <3>1, <3>2 DEF SlotRecord
  <2>2. called \subseteq 0..(MaxIds - 1) /\ it \in 0..(Len(records) + 1)
    BY <1>1
  <2>3. /\ alive \subseteq Handlers /\ owner \in Seq(Handlers) /\ Len(owner) <= MaxFunctions
        /\ valid \subseteq 1..Len(owner) /\ slots \subseteq 1..Len(owner)
        /\ invalidators \in [Handlers -> SUBSET (1..Len(owner))]
    BY DEF SignalInv, GoodFunctions
  <2> QED BY <1>1, <2>1, <2>2, <2>3 DEF G!TypeOK, G!Function
<1> QED BY <1>2, <1>3, <1>4

-----------------------------------------------------------------------------
(* The layout of a shard.                                                  *)

\* The free space next to an element is cut without a rest into at most two chunks.
CutUp(f, n) ==
    IF n = 0 THEN {} ELSE IF n = 1 THEN {<<1, f>>} ELSE IF n = 2 THEN {<<2, f>>}
    ELSE {<<1, f>>, <<2, f + 1>>}

Suits(f, n) == n = 0 \/ (n = 1 /\ f % 2 = 1) \/ (n = 2 /\ f % 4 = 2) \/ (n = 3 /\ f % 4 = 1)

LEMMA CarveFacts ==
    ASSUME NEW f \in Nat, NEW n \in 0..3, Suits(f, n)
    PROVE  Y!Carve(f, n).left = 0 /\ Y!Carve(f, n).chunks = CutUp(f, n)
<1> DEFINE Cut(c, power) ==
             IF power > c.left \/ (c.at \div power) % 2 = 0 THEN c
             ELSE [at |-> c.at + power, left |-> c.left - power,
                   chunks |-> c.chunks \cup {<<power, c.at>>}]
           c0 == [at |-> f, left |-> n, chunks |-> {}]
           c1 == Cut(c0, 1)
           c2 == Cut(c1, 2)
           c3 == Cut(c2, 4)
           c4 == Cut(c3, 8)
           c5 == Cut(c4, 16)
           Body(g, i) == IF i = 0 THEN c0 ELSE Cut(g[i - 1], Y!Powers[i])
           g0 == [i \in 0..5 |-> IF i = 0 THEN c0 ELSE IF i = 1 THEN c1 ELSE IF i = 2 THEN c2
                                 ELSE IF i = 3 THEN c3 ELSE IF i = 4 THEN c4 ELSE c5]
           carved == CHOOSE g : g = [i \in 0..Len(Y!Powers) |-> Body(g, i)]
<1>1. /\ Y!Powers[1] = 1 /\ Y!Powers[2] = 2 /\ Y!Powers[3] = 4 /\ Y!Powers[4] = 8
      /\ Y!Powers[5] = 16 /\ Len(Y!Powers) = 5
  BY DEF Y!Powers
<1>2. \A g : /\ Body(g, 0) = c0 /\ Body(g, 1) = Cut(g[0], 1) /\ Body(g, 2) = Cut(g[1], 2)
             /\ Body(g, 3) = Cut(g[2], 4) /\ Body(g, 4) = Cut(g[3], 8)
             /\ Body(g, 5) = Cut(g[4], 16)
  <2> HIDE DEF Cut, c0
  <2> QED BY <1>1
<1>3. g0 = [i \in 0..5 |-> Body(g0, i)]
  <2>1. /\ g0[0] = c0 /\ g0[1] = c1 /\ g0[2] = c2 /\ g0[3] = c3 /\ g0[4] = c4 /\ g0[5] = c5
        /\ g0 = [i \in 0..5 |-> g0[i]]
    <3> HIDE DEF c0, c1, c2, c3, c4, c5
    <3> QED OBVIOUS
  <2>2. /\ Body(g0, 0) = c0 /\ Body(g0, 1) = c1 /\ Body(g0, 2) = c2 /\ Body(g0, 3) = c3
        /\ Body(g0, 4) = c4 /\ Body(g0, 5) = c5
    <3> HIDE DEF Body, g0, Cut, c0
    <3> QED BY <1>2, <2>1
  <2> HIDE DEF Body, g0, Cut, c0, c1, c2, c3, c4, c5
  <2>3. \A i \in 0..5 : i = 0 \/ i = 1 \/ i = 2 \/ i = 3 \/ i = 4 \/ i = 5
    OBVIOUS
  <2>4. \A i \in 0..5 : g0[i] = Body(g0, i)
    BY <2>1, <2>2, <2>3
  <2> QED BY <2>1, <2>4
<1>4. carved = [i \in 0..5 |-> Body(carved, i)]
  <2>1. g0 = [i \in 0..Len(Y!Powers) |-> Body(g0, i)]
    <3> HIDE DEF Body, g0
    <3> QED BY <1>1, <1>3
  <2> HIDE DEF Body, g0
  <2>2. carved = [i \in 0..Len(Y!Powers) |-> Body(carved, i)]
    BY <2>1, Zenon
  <2> HIDE DEF carved
  <2> QED BY <1>1, <2>2
<1>5. Y!Carve(f, n) = [chunks |-> carved[5].chunks, left |-> carved[5].left]
  <2>1. Y!Carve(f, n) = [chunks |-> carved[Len(Y!Powers)].chunks, left |-> carved[Len(Y!Powers)].left]
    <3> HIDE DEF g0, c1, c2, c3, c4, c5
    <3> QED BY Zenon DEF Y!Carve
  <2> HIDE DEF carved, Body, Cut, g0, c0, c1, c2, c3, c4, c5
  <2> QED BY <1>1, <2>1
<1> HIDE DEF carved
<1>6. carved[5] = c5
  <2> HIDE DEF Body, Cut, c0
  <2>1. carved[0] = c0 /\ carved[1] = Cut(carved[0], 1) /\ carved[2] = Cut(carved[1], 2)
        /\ carved[3] = Cut(carved[2], 4) /\ carved[4] = Cut(carved[3], 8)
        /\ carved[5] = Cut(carved[4], 16)
    BY <1>2, <1>4
  <2> QED BY <2>1
<1>7. /\ \A c, power : power > c.left \/ (c.at \div power) % 2 = 0 => Cut(c, power) = c
      /\ \A c, power : ~(power > c.left \/ (c.at \div power) % 2 = 0)
                       => Cut(c, power) = [at |-> c.at + power, left |-> c.left - power,
                                           chunks |-> c.chunks \cup {<<power, c.at>>}]
  <2> HIDE DEF Body, g0, c0, c1, c2, c3, c4, c5
  <2> QED BY Zenon
<1>8. c0.at = f /\ c0.left = n /\ c0.chunks = {}
  <2> HIDE DEF Body, Cut, g0, c1, c2, c3, c4, c5
  <2> QED OBVIOUS
<1> HIDE DEF Cut, c0
<1>9. ASSUME NEW c, c.left = 0 PROVE Cut(c, 1) = c /\ Cut(c, 2) = c /\ Cut(c, 4) = c
                                    /\ Cut(c, 8) = c /\ Cut(c, 16) = c
  BY <1>7, <1>9
<1>10. c5.left = 0 /\ c5.chunks = CutUp(f, n)
  <2>1. CASE n = 0
    <3>1. c5 = c0
      BY <1>8, <1>9, <2>1
    <3> HIDE DEF c5
    <3> QED BY <1>8, <2>1, <3>1 DEF CutUp
  <2>2. CASE n = 1 /\ f % 2 = 1
    <3>1. ~(1 > c0.left \/ (c0.at \div 1) % 2 = 0)
      BY <1>8, <2>2
    <3>2. c1 = [at |-> c0.at + 1, left |-> c0.left - 1, chunks |-> c0.chunks \cup {<<1, c0.at>>}]
      BY <1>7, <3>1
    <3> HIDE DEF c1
    <3>3. c1.left = 0 /\ c1.chunks = {<<1, f>>}
      BY <1>8, <2>2, <3>2
    <3>4. c5 = c1
      BY <1>9, <3>3
    <3> HIDE DEF c5
    <3> QED BY <2>2, <3>3, <3>4 DEF CutUp
  <2>3. CASE n = 2 /\ f % 4 = 2
    <3>1. (c0.at \div 1) % 2 = 0 /\ ~(2 > c0.left \/ (c0.at \div 2) % 2 = 0)
      <4>1. f \div 1 = f /\ f % 2 = 0 /\ (f \div 2) % 2 = 1
        BY <2>3
      <4> QED BY <1>8, <2>3, <4>1
    <3>2. c1 = c0
      BY <1>7, <3>1
    <3> HIDE DEF c1
    <3>3. c2 = [at |-> c0.at + 2, left |-> c0.left - 2, chunks |-> c0.chunks \cup {<<2, c0.at>>}]
      BY <1>7, <3>1, <3>2
    <3> HIDE DEF c2
    <3>4. c2.left = 0 /\ c2.chunks = {<<2, f>>}
      BY <1>8, <2>3, <3>3
    <3>5. c5 = c2
      BY <1>9, <3>4
    <3> HIDE DEF c5
    <3> QED BY <2>3, <3>4, <3>5 DEF CutUp
  <2>4. CASE n = 3 /\ f % 4 = 1
    <3>1. ~(1 > c0.left \/ (c0.at \div 1) % 2 = 0)
      <4>1. f \div 1 = f /\ f % 2 = 1
        BY <2>4
      <4> QED BY <1>8, <2>4, <4>1
    <3>2. c1 = [at |-> c0.at + 1, left |-> c0.left - 1, chunks |-> c0.chunks \cup {<<1, c0.at>>}]
      BY <1>7, <3>1
    <3> HIDE DEF c1
    <3>3. c1.at = f + 1 /\ c1.left = 2 /\ c1.chunks = {<<1, f>>}
      BY <1>8, <2>4, <3>2
    <3>4. ~(2 > c1.left \/ (c1.at \div 2) % 2 = 0)
      <4>1. ((f + 1) \div 2) % 2 = 1
        BY <2>4
      <4> QED BY <3>3, <4>1
    <3>5. c2 = [at |-> c1.at + 2, left |-> c1.left - 2, chunks |-> c1.chunks \cup {<<2, c1.at>>}]
      BY <1>7, <3>4
    <3> HIDE DEF c2
    <3>6. c2.left = 0 /\ c2.chunks = {<<1, f>>, <<2, f + 1>>}
      BY <3>3, <3>5
    <3>7. c5 = c2
      BY <1>9, <3>6
    <3> HIDE DEF c5
    <3> QED BY <2>4, <3>6, <3>7 DEF CutUp
  <2> QED BY <2>1, <2>2, <2>3, <2>4 DEF Suits
<1>11. Y!Carve(f, n).left = carved[5].left /\ Y!Carve(f, n).chunks = carved[5].chunks
  BY <1>5
<1> HIDE DEF c5
<1> QED BY <1>6, <1>10, <1>11

MCKinds == {<<1, 1>>, <<2, 2>>, <<4, 4>>, <<3, 1>>, <<12, 1>>, <<17, 1>>}

\* Arithmetic of the three alignments.
LEMMA RoundUp ==
    ASSUME NEW n \in Nat
    PROVE  /\ ((n + 1 - 1) \div 1) * 1 = n
           /\ LET u == ((n + 2 - 1) \div 2) * 2
              IN  u \in Nat /\ n <= u /\ u - n \in 0..3 /\ u % 2 = 0 /\ Suits(n, u - n)
           /\ LET u == ((n + 4 - 1) \div 4) * 4
              IN  u \in Nat /\ n <= u /\ u - n \in 0..3 /\ u % 4 = 0 /\ Suits(n, u - n)
<1>1. ((n + 1 - 1) \div 1) * 1 = n
  OBVIOUS
<1>2. LET u == ((n + 2 - 1) \div 2) * 2
      IN  u \in Nat /\ n <= u /\ u - n \in 0..3 /\ u % 2 = 0 /\ Suits(n, u - n)
  BY DEF Suits
<1>3. LET u == ((n + 4 - 1) \div 4) * 4
      IN  u \in Nat /\ n <= u /\ u - n \in 0..3 /\ u % 4 = 0 /\ Suits(n, u - n)
  BY DEF Suits
<1> QED BY <1>1, <1>2, <1>3

LEMMA AlignedUpFacts ==
    ASSUME NEW k \in MCKinds, shard_size \in Nat
    PROVE  LET u == Y!AlignedUp(k)
           IN  /\ u \in Nat /\ shard_size <= u /\ u - shard_size \in 0..3
               /\ u % k[2] = 0 /\ Suits(shard_size, u - shard_size)
<1> DEFINE u == Y!AlignedUp(k)
<1>1. CASE k[2] = 1
  <2>1. u = shard_size
    BY <1>1, RoundUp DEF Y!AlignedUp
  <2> HIDE DEF u
  <2>2. u % 1 = 0 /\ u - shard_size = 0
    BY <2>1
  <2> QED BY <1>1, <2>1, <2>2 DEF Suits, u
<1>2. CASE k[2] = 2
  BY <1>2, RoundUp DEF Y!AlignedUp
<1>3. CASE k[2] = 4
  BY <1>3, RoundUp DEF Y!AlignedUp
<1> QED BY <1>1, <1>2, <1>3 DEF MCKinds

Apart(o, n, p, m) == o + n <= p \/ p + m <= o

IsElement(e) == e.off \in Nat /\ e.len \in 1..17 /\ e.align \in {1, 2, 4} /\ e.off % e.align = 0
IsChunk(c) == c \in {1, 2} \X Nat /\ c[2] % c[1] = 0

\* Elements and holes that do not overlap, below limit.
Sound(E1, L1, limit) ==
    /\ IsFiniteSet(E1) /\ IsFiniteSet(L1)
    /\ \A e \in E1 : IsElement(e) /\ e.off + e.len <= limit
    /\ \A c \in L1 : IsChunk(c) /\ c[2] + c[1] <= limit
    /\ \A e, f \in E1 : e = f \/ Apart(e.off, e.len, f.off, f.len)
    /\ \A c, d \in L1 : c = d \/ Apart(c[2], c[1], d[2], d[1])
    /\ \A e \in E1, c \in L1 : Apart(e.off, e.len, c[2], c[1])

LayoutInv ==
    /\ shard_size \in 0..MaxOffset
    /\ wasted \subseteq placed
    /\ aborted \in {"no", "wrapped"}
    /\ Sound(placed, free_list, MaxOffset)
    /\ aborted = "no" => Sound(placed, free_list, shard_size)

\* An element and holes next to it, in a range that is free up to limit.
LEMMA AddSound ==
    ASSUME NEW E1, NEW L1, NEW limit \in Nat, NEW above \in Nat, limit <= above,
           Sound(E1, L1, limit),
           NEW new, IsElement(new), NEW C1, IsFiniteSet(C1), \A c \in C1 : IsChunk(c),
           NEW from \in Nat, NEW to \in Nat, to <= above,
           from <= new.off, new.off + new.len <= to,
           \A c \in C1 : from <= c[2] /\ c[2] + c[1] <= to,
           \A c \in C1 : Apart(new.off, new.len, c[2], c[1]),
           \A c, d \in C1 : c = d \/ Apart(c[2], c[1], d[2], d[1]),
           \A e \in E1 : Apart(e.off, e.len, from, to - from),
           \A c \in L1 : Apart(c[2], c[1], from, to - from)
    PROVE  Sound(E1 \cup {new}, L1 \cup C1, above)
<1>1. IsFiniteSet(E1 \cup {new}) /\ IsFiniteSet(L1 \cup C1)
  BY FS_AddElement, FS_Union, Zenon DEF Sound
<1>2. ASSUME NEW o \in Nat, NEW n \in Nat, Apart(o, n, from, to - from),
             NEW p \in Nat, NEW m \in Nat, from <= p, p + m <= to
      PROVE  Apart(o, n, p, m) /\ Apart(p, m, o, n)
  BY <1>2 DEF Apart
<1>3. /\ \A e \in E1 : e.off \in Nat /\ e.len \in Nat
      /\ \A c \in L1 : c[1] \in Nat /\ c[2] \in Nat
      /\ \A c \in C1 : c[1] \in Nat /\ c[2] \in Nat
      /\ new.off \in Nat /\ new.len \in Nat
  BY DEF Sound, IsElement, IsChunk
<1>4. /\ \A e \in E1 : /\ Apart(e.off, e.len, new.off, new.len) /\ Apart(new.off, new.len, e.off, e.len)
                        /\ \A c \in C1 : Apart(e.off, e.len, c[2], c[1])
      /\ \A c \in L1 : /\ Apart(new.off, new.len, c[2], c[1])
                        /\ \A d \in C1 : Apart(c[2], c[1], d[2], d[1]) /\ Apart(d[2], d[1], c[2], c[1])
  BY <1>2, <1>3
<1>5. \A e \in E1 \cup {new} : IsElement(e) /\ e.off + e.len <= above
  BY <1>3 DEF Sound
<1>6. \A c \in L1 \cup C1 : IsChunk(c) /\ c[2] + c[1] <= above
  BY <1>3 DEF Sound
<1>7. \A e, f \in E1 \cup {new} : e = f \/ Apart(e.off, e.len, f.off, f.len)
  BY <1>4 DEF Sound
<1>8. \A c, d \in L1 \cup C1 : c = d \/ Apart(c[2], c[1], d[2], d[1])
  BY <1>4 DEF Sound
<1>9. \A e \in E1 \cup {new}, c \in L1 \cup C1 : Apart(e.off, e.len, c[2], c[1])
  BY <1>4 DEF Sound
<1> QED BY <1>1, <1>5, <1>6, <1>7, <1>8, <1>9 DEF Sound

LEMMA CutUpFacts ==
    ASSUME NEW f \in Nat, NEW n \in 0..3, Suits(f, n)
    PROVE  /\ IsFiniteSet(CutUp(f, n))
           /\ \A c \in CutUp(f, n) : IsChunk(c) /\ f <= c[2] /\ c[2] + c[1] <= f + n
           /\ \A c, d \in CutUp(f, n) : c = d \/ Apart(c[2], c[1], d[2], d[1])
<1>1. IsFiniteSet({}) /\ \A a, b : IsFiniteSet({a}) /\ IsFiniteSet({a, b})
  <2>1. IsFiniteSet({}) /\ \A a : IsFiniteSet({a})
    BY FS_EmptySet, FS_Singleton, Zenon
  <2>2. ASSUME NEW a, NEW b PROVE IsFiniteSet({a, b})
    <3>1. {a, b} = {a} \cup {b}
      OBVIOUS
    <3> QED BY <2>1, <3>1, FS_AddElement, ZenonT(40)
  <2> QED BY <2>1, <2>2, Zenon
<1>2. CASE n = 0
  BY <1>1, <1>2 DEF CutUp
<1>3. CASE n = 1 /\ f % 2 = 1
  <2>1. f % 1 = 0
    OBVIOUS
  <2> QED BY <1>1, <1>3, <2>1 DEF CutUp, IsChunk
<1>4. CASE n = 2 /\ f % 4 = 2
  <2>1. f % 2 = 0
    BY <1>4
  <2> DEFINE d0 == <<2, f>>
  <2>2. CutUp(f, n) = {d0} /\ IsChunk(d0) /\ d0[1] = 2 /\ d0[2] = f
    BY <1>4, <2>1 DEF CutUp, IsChunk
  <2> HIDE DEF d0
  <2>3. IsFiniteSet(CutUp(f, n))
    BY <1>1, <2>2, Zenon
  <2> QED BY <1>4, <2>2, <2>3
<1>5. CASE n = 3 /\ f % 4 = 1
  <2>1. f % 1 = 0 /\ (f + 1) % 2 = 0
    BY <1>5
  <2> DEFINE c0 == <<1, f>>
             d0 == <<2, f + 1>>
  <2>2. /\ IsChunk(c0) /\ c0[1] = 1 /\ c0[2] = f
        /\ IsChunk(d0) /\ d0[1] = 2 /\ d0[2] = f + 1
        /\ CutUp(f, n) = {c0, d0}
    BY <1>5, <2>1 DEF CutUp, IsChunk
  <2> HIDE DEF c0, d0
  <2>3. Apart(c0[2], c0[1], d0[2], d0[1]) /\ Apart(d0[2], d0[1], c0[2], c0[1])
    BY <2>2 DEF Apart
  <2>4. \A c \in {c0, d0} : f <= c[2] /\ c[2] + c[1] <= f + 3
    BY <2>2
  <2>5. \A c, d \in {c0, d0} : c = d \/ Apart(c[2], c[1], d[2], d[1])
    BY <2>3
  <2> QED BY <1>1, <1>5, <2>2, <2>4, <2>5, Zenon
<1> QED BY <1>2, <1>3, <1>4, <1>5 DEF Suits

\* allocate_element, once it has decided where: what is stored is sound again.
LEMMA PlaceSound ==
    ASSUME LayoutInv, NEW k \in MCKinds, NEW off \in Nat, off % k[2] = 0,
           NEW f \in Nat, NEW n \in 0..3, Suits(f, n),
           NEW list, NEW limit \in Nat, NEW above \in Nat, limit <= above,
           Sound(placed, list, limit), NEW taken \in BOOLEAN,
           Y!Place(k, off, f, n, list, taken),
           f + n = off \/ f = off + k[1],
           NEW from \in Nat, NEW to \in Nat, to <= above, from <= off, off + k[1] <= to,
           from <= f, f + n <= to,
           \A e \in placed : Apart(e.off, e.len, from, to - from),
           \A c \in list : Apart(c[2], c[1], from, to - from)
    PROVE  /\ UNCHANGED aborted /\ wasted' \subseteq placed'
           /\ Sound(placed', free_list', above)
<1> DEFINE new == [off |-> off, len |-> k[1], align |-> k[2]]
           C1 == CutUp(f, n)
<1>1. Y!Carve(f, n).left = 0 /\ Y!Carve(f, n).chunks = C1 /\ ~(n >= MaxAlignment)
  BY CarveFacts, PlatformAssumption
<1>2. /\ free_list' = list \cup C1 /\ placed' = placed \cup {new}
      /\ wasted' = (IF taken THEN wasted \cup {new} ELSE wasted) /\ UNCHANGED aborted
  <2> HIDE DEF C1
  <2> QED BY <1>1 DEF Y!Place
<1>3. k[1] \in 1..17 /\ k[2] \in {1, 2, 4}
  BY DEF MCKinds
<1>4. new.off = off /\ new.len = k[1] /\ new.align = k[2]
  OBVIOUS
<1> HIDE DEF new, C1
<1>5. IsElement(new)
  BY <1>3, <1>4 DEF IsElement
<1>6. /\ IsFiniteSet(C1)
      /\ \A c \in C1 : IsChunk(c) /\ f <= c[2] /\ c[2] + c[1] <= f + n
      /\ \A c, d \in C1 : c = d \/ Apart(c[2], c[1], d[2], d[1])
  BY CutUpFacts DEF C1
<1>7. \A c \in C1 : /\ from <= c[2] /\ c[2] + c[1] <= to
                    /\ Apart(new.off, new.len, c[2], c[1])
  <2> SUFFICES ASSUME NEW c \in C1
               PROVE  from <= c[2] /\ c[2] + c[1] <= to /\ Apart(new.off, new.len, c[2], c[1])
    OBVIOUS
  <2>1. c[1] \in Nat /\ c[2] \in Nat /\ f <= c[2] /\ c[2] + c[1] <= f + n
    BY <1>6 DEF IsChunk
  <2> QED BY <1>3, <1>4, <2>1 DEF Apart
<1>8. from <= new.off /\ new.off + new.len <= to
  BY <1>4
<1>9. Sound(placed \cup {new}, list \cup C1, above)
  BY <1>5, <1>6, <1>7, <1>8, AddSound, Zenon
<1> QED BY <1>2, <1>9 DEF LayoutInv

LEMMA LayoutInit == Y!Init => LayoutInv
<1>1. IsFiniteSet({})
  BY FS_EmptySet
<1> QED BY <1>1, PlatformAssumption DEF Y!Init, LayoutInv, Sound

LEMMA LooserSound ==
    ASSUME NEW E1, NEW L1, NEW limit \in Nat, NEW above \in Nat, limit <= above, Sound(E1, L1,
           limit)
    PROVE  Sound(E1, L1, above)
<1>1. ASSUME NEW e \in E1 PROVE IsElement(e) /\ e.off + e.len <= above
  BY DEF Sound, IsElement
<1>2. ASSUME NEW c \in L1 PROVE IsChunk(c) /\ c[2] + c[1] <= above
  BY DEF Sound, IsChunk
<1> QED BY <1>1, <1>2 DEF Sound

LEMMA LayoutGrowInv == ASSUME LayoutInv, NEW k \in MCKinds, NEW taken \in BOOLEAN, Y!Grow(k, taken)
                       PROVE  LayoutInv'
<1> DEFINE u == Y!AlignedUp(k)
           n == u - shard_size
<1>1. shard_size \in Nat /\ shard_size <= MaxOffset /\ MaxOffset \in Nat
      /\ k[1] \in 1..17 /\ k[1] <= MaxOffset
      /\ 4 <= MaxOffset /\ Sound(placed, free_list, shard_size) /\ aborted = "no"
      /\ Sound(placed, free_list, MaxOffset) /\ wasted \subseteq placed
  <2>1. aborted = "no" /\ k[1] <= MaxOffset
    BY DEF Y!Grow, Y!HasRoom
  <2>2. k[1] \in 1..17
    BY DEF MCKinds
  <2> QED BY <2>1, <2>2, PlatformAssumption DEF LayoutInv
<1>2. u \in Nat /\ shard_size <= u /\ n \in 0..3 /\ u % k[2] = 0 /\ Suits(shard_size, n)
  BY <1>1, AlignedUpFacts
<1>3. CASE aborted' = "wrapped" /\ UNCHANGED <<free_list, placed, wasted>>
  <2>1. shard_size' = (u + k[1]) % (MaxOffset + 1)
    BY DEF Y!Grow, Y!Width
  <2> HIDE DEF u, n
  <2>2. (u + k[1]) % (MaxOffset + 1) \in 0..MaxOffset
    BY <1>1, <1>2
  <2>3. shard_size' \in 0..MaxOffset
    BY <1>1, <2>1, <2>2
  <2> QED BY <1>1, <1>3, <2>3 DEF LayoutInv
<1>4. CASE /\ shard_size' = (u + k[1]) % (MaxOffset + 1) /\ ~(u >= shard_size')
           /\ Y!Place(k, u, shard_size, n, free_list, taken)
  <2> HIDE DEF u, n
  <2>1. shard_size' = u + k[1] /\ u + k[1] <= MaxOffset
    <3> PICK w : w = u + k[1]
      OBVIOUS
    <3>0. w \in Nat
      BY <1>1, <1>2
    <3>1. w % (MaxOffset + 1) \in 0..MaxOffset
      BY <1>1, <3>0
    <3>2. w >= MaxOffset + 1 => w % (MaxOffset + 1) <= w - (MaxOffset + 1)
      BY <1>1, <3>0
    <3>3. w < MaxOffset + 1 => w % (MaxOffset + 1) = w
      BY <1>1, <3>0
    <3> QED BY <1>1, <1>2, <1>4, <3>0, <3>1, <3>2, <3>3
  <2>2. /\ \A e \in placed : Apart(e.off, e.len, shard_size, (u + k[1]) - shard_size)
        /\ \A c \in free_list : Apart(c[2], c[1], shard_size, (u + k[1]) - shard_size)
    BY <1>1 DEF Sound, Apart
  <2>3. shard_size + n = u /\ shard_size + n <= u + k[1] /\ shard_size <= u + k[1]
    BY <1>1, <1>2 DEF n
  <2>4. /\ UNCHANGED aborted /\ wasted' \subseteq placed'
        /\ Sound(placed', free_list', u + k[1])
    <3> DEFINE to == u + k[1]
    <3>1. to \in Nat /\ shard_size <= to /\ to <= to
      BY <1>1, <1>2
    <3> HIDE DEF to
    <3>2. /\ \A e \in placed : Apart(e.off, e.len, shard_size, to - shard_size)
          /\ \A c \in free_list : Apart(c[2], c[1], shard_size, to - shard_size)
          /\ u + k[1] <= to
      BY <2>2, <3>1 DEF to
    <3>3. Sound(placed', free_list', to) /\ UNCHANGED aborted /\ wasted' \subseteq placed'
      <4>1. /\ u \in Nat /\ u % k[2] = 0 /\ n \in 0..3 /\ shard_size \in Nat
            /\ Suits(shard_size, n) /\ Sound(placed, free_list, shard_size)
            /\ Y!Place(k, u, shard_size, n, free_list, taken)
        BY <1>1, <1>2, <1>4
      <4>2. /\ shard_size + n = u /\ shard_size <= u /\ shard_size <= shard_size
            /\ shard_size + n <= to
        BY <1>1, <1>2, <2>3 DEF to
      <4> QED BY <3>1, <3>2, <4>1, <4>2, PlaceSound, Zenon
    <3> QED BY <3>3 DEF to
  <2>5. Sound(placed', free_list', MaxOffset)
    BY <1>1, <1>2, <2>1, <2>4, LooserSound
  <2>6. shard_size' \in 0..MaxOffset
    BY <1>1, <1>2, <2>1
  <2>7. Sound(placed, free_list, shard_size)' /\ Sound(placed, free_list, MaxOffset)'
    BY <2>1, <2>4, <2>5 DEF Sound
  <2> QED BY <1>1, <2>4, <2>6, <2>7 DEF LayoutInv
<1> QED BY <1>3, <1>4 DEF Y!Grow, Y!Width

LEMMA LayoutReuseInv ==
    ASSUME LayoutInv, NEW k \in MCKinds, NEW c \in free_list, NEW taken \in BOOLEAN,
           Y!Reuse(k, c, taken)
    PROVE  LayoutInv'
<1> DEFINE list == free_list \ {c}
           f == c[2] + k[1]
           n == c[1] - k[1]
           to == c[2] + c[1]
<1>1. /\ shard_size \in Nat /\ shard_size <= MaxOffset /\ MaxOffset \in Nat
      /\ Sound(placed, free_list, shard_size) /\ aborted = "no"
      /\ UNCHANGED shard_size
      /\ c[1] >= k[1]
      /\ Y!Place(k, c[2], f, n, list, taken)
  BY PlatformAssumption DEF LayoutInv, Y!Reuse, Y!Fitting
<1>2. /\ c[1] \in {1, 2} /\ c[2] \in Nat /\ c[2] % c[1] = 0 /\ c[2] + c[1] <= shard_size
  BY <1>1 DEF Sound, IsChunk
<1>3. k = <<1, 1>> \/ k = <<2, 2>>
  BY <1>1, <1>2 DEF MCKinds
<1>4. k[1] \in {1, 2} /\ k[2] = k[1]
  BY <1>3
<1>5. f \in Nat /\ n \in 0..3 /\ to \in Nat /\ f = c[2] + k[1] /\ f + n <= to /\ c[2] <= f
      /\ to <= shard_size /\ c[2] + k[1] <= to
  BY <1>1, <1>2, <1>4
<1>6. Suits(f, n) /\ c[2] % k[2] = 0
  <2>1. c[2] % 1 = 0
    BY <1>2
  <2>2. CASE c[1] = k[1]
    BY <1>2, <1>4, <2>2 DEF Suits
  <2>3. CASE c[1] = 2 /\ k[1] = 1
    <3>1. (c[2] + 1) % 2 = 1
      BY <1>2, <2>3
    <3> QED BY <1>4, <2>1, <2>3, <3>1 DEF Suits
  <2> QED BY <1>1, <1>2, <1>4, <2>2, <2>3
<1>7. Sound(placed, list, shard_size)
  <2>1. IsFiniteSet(list)
    BY <1>1, FS_Subset DEF Sound
  <2> QED BY <1>1, <2>1 DEF Sound
<1>8. /\ \A e \in placed : Apart(e.off, e.len, c[2], to - c[2])
      /\ \A d \in list : Apart(d[2], d[1], c[2], to - c[2])
  <2>1. to - c[2] = c[1]
    BY <1>2
  <2> HIDE DEF to
  <2> QED BY <1>1, <2>1 DEF Sound
<1> HIDE DEF list, f, n, to
<1>9. /\ UNCHANGED aborted /\ wasted' \subseteq placed'
      /\ Sound(placed', free_list', shard_size)
  <2> PICK p : p = c[2]
    OBVIOUS
  <2>1. /\ p \in Nat /\ p % k[2] = 0 /\ f = p + k[1] /\ p <= f /\ p + k[1] <= to /\ p <= p
        /\ Y!Place(k, p, f, n, list, taken)
        /\ \A e \in placed : Apart(e.off, e.len, p, to - p)
        /\ \A d \in list : Apart(d[2], d[1], p, to - p)
    BY <1>1, <1>2, <1>5, <1>6, <1>8
  <2>2. shard_size <= shard_size
    BY <1>1
  <2> QED BY <1>1, <1>5, <1>6, <1>7, <2>1, <2>2, PlaceSound
<1>10. Sound(placed', free_list', MaxOffset)
  BY <1>1, <1>9, LooserSound
<1>11. Sound(placed, free_list, shard_size)' /\ Sound(placed, free_list, MaxOffset)'
  BY <1>1, <1>9, <1>10 DEF Sound
<1> QED BY <1>1, <1>9, <1>11 DEF LayoutInv

LEMMA LayoutNext == LayoutInv /\ [Y!Next]_layoutVars => LayoutInv'
<1> SUFFICES ASSUME LayoutInv, [Y!Next]_layoutVars PROVE LayoutInv'
  OBVIOUS
<1>1. CASE UNCHANGED layoutVars
  BY <1>1 DEF layoutVars, LayoutInv, Sound
<1>2. ASSUME NEW k \in MCKinds, NEW taken \in BOOLEAN, Y!Grow(k, taken) PROVE LayoutInv'
  BY <1>2, LayoutGrowInv
<1>3. ASSUME NEW k \in MCKinds, NEW taken \in BOOLEAN, NEW c \in free_list, Y!Reuse(k, c, taken)
      PROVE  LayoutInv'
  BY <1>3, LayoutReuseInv
<1> QED BY <1>1, <1>2, <1>3 DEF Y!Next, MCKinds

\* As many spans as elements, and as holes.
LEMMA SpansCount ==
    ASSUME NEW X, IsFiniteSet(X), NEW h, \A a, b \in X : h[a] = h[b] => a = b
    PROVE  IsFiniteSet({h[a] : a \in X}) /\ Cardinality({h[a] : a \in X}) = Cardinality(X)
<1> DEFINE Z == {h[a] : a \in X}
           g == [a \in X |-> h[a]]
<1>1. g \in [X -> Z] /\ \A z \in Z : \E a \in X : g[a] = z
  OBVIOUS
<1>2. g \in Surjection(X, Z)
  BY <1>1 DEF Surjection
<1>3. g \in Injection(X, Z)
  <2>1. \A a, b \in X : g[a] = g[b] => a = b
    OBVIOUS
  <2> HIDE DEF g
  <2> QED BY <1>1, <2>1 DEF Injection, IsInjective
<1> QED BY <1>2, <1>3, FS_Surjection

LEMMA LayoutIsFine == LayoutInv => Y!LayoutIsSound /\ Y!TypeOK
<1> SUFFICES ASSUME LayoutInv PROVE Y!LayoutIsSound /\ Y!TypeOK
  OBVIOUS
<1>1. Sound(placed, free_list, MaxOffset) /\ MaxOffset \in Nat /\ shard_size \in Nat
  BY PlatformAssumption DEF LayoutInv
<1> DEFINE ES == {Y!Bytes(e.off, e.len) : e \in placed}
           LS == {Y!Bytes(c[2], c[1]) : c \in free_list}
           he == [e \in placed |-> Y!Bytes(e.off, e.len)]
           hc == [c \in free_list |-> Y!Bytes(c[2], c[1])]
<1>2. \A e \in placed : e.off \in Nat /\ e.len \in Nat /\ e.len > 0
  BY <1>1 DEF Sound, IsElement
<1>3. \A c \in free_list : c[1] \in Nat /\ c[2] \in Nat /\ c[1] > 0
  BY <1>1 DEF Sound, IsChunk
<1>4. ASSUME NEW o \in Nat, NEW n \in Nat, n > 0, NEW p \in Nat, NEW m \in Nat, m > 0,
             Apart(o, n, p, m)
      PROVE  Y!Bytes(o, n) \cap Y!Bytes(p, m) = {} /\ Y!Bytes(o, n) # Y!Bytes(p, m)
  <2>1. o \in Y!Bytes(o, n)
    BY <1>4 DEF Y!Bytes
  <2>2. Y!Bytes(o, n) \cap Y!Bytes(p, m) = {}
    BY <1>4 DEF Y!Bytes, Apart
  <2> QED BY <2>1, <2>2
<1>5. \A e, f \in placed : e = f \/ (/\ Y!Bytes(e.off, e.len) \cap Y!Bytes(f.off, f.len) = {}
                                  /\ Y!Bytes(e.off, e.len) # Y!Bytes(f.off, f.len))
  BY <1>1, <1>2, <1>4 DEF Sound
<1>6. \A c, d \in free_list : c = d \/ (/\ Y!Bytes(c[2], c[1]) \cap Y!Bytes(d[2], d[1]) = {}
                                     /\ Y!Bytes(c[2], c[1]) # Y!Bytes(d[2], d[1]))
  BY <1>1, <1>3, <1>4 DEF Sound
<1>7. \A e \in placed, c \in free_list : /\ Y!Bytes(e.off, e.len) \cap Y!Bytes(c[2], c[1]) = {}
                                       /\ Y!Bytes(e.off, e.len) # Y!Bytes(c[2], c[1])
  BY <1>1, <1>2, <1>3, <1>4, Zenon DEF Sound
<1>8. \A s, t \in ES \cup LS : s = t \/ s \cap t = {}
  BY <1>5, <1>6, <1>7, SMTT(30)
<1>9. IsFiniteSet(ES) /\ Cardinality(ES) = Cardinality(placed)
  <2>1. ES = {he[e] : e \in placed} /\ \A e, f \in placed : he[e] = he[f] => e = f
    BY <1>5
  <2>2. IsFiniteSet(placed)
    BY <1>1 DEF Sound
  <2> HIDE DEF ES, he
  <2> QED BY <2>1, <2>2, SpansCount
<1>10. IsFiniteSet(LS) /\ Cardinality(LS) = Cardinality(free_list)
  <2>1. LS = {hc[c] : c \in free_list} /\ \A c, d \in free_list : hc[c] = hc[d] => c = d
    BY <1>6
  <2>2. IsFiniteSet(free_list)
    BY <1>1 DEF Sound
  <2> HIDE DEF LS, hc
  <2> QED BY <2>1, <2>2, SpansCount
<1>11. ES \cap LS = {}
  BY <1>7
<1>12. Cardinality(ES \cup LS) = Cardinality(placed) + Cardinality(free_list)
  <2> HIDE DEF ES, LS
  <2>1. Cardinality(ES \cup LS) = Cardinality(ES) + Cardinality(LS) - Cardinality(ES \cap LS)
    BY <1>9, <1>10, FS_Union
  <2>2. Cardinality(ES) \in Nat /\ Cardinality(LS) \in Nat /\ Cardinality(ES \cap LS) = 0
    BY <1>9, <1>10, <1>11, FS_CardinalityType, FS_EmptySet
  <2> QED BY <1>9, <1>10, <2>1, <2>2
<1>13. \A e \in placed : e.off % e.align = 0
  BY <1>1 DEF Sound, IsElement
<1>14. aborted = "no" => \A s \in ES \cup LS : s \subseteq 0..(shard_size - 1)
  <2> SUFFICES ASSUME Sound(placed, free_list, shard_size)
               PROVE  \A s \in ES \cup LS : s \subseteq 0..(shard_size - 1)
    BY DEF LayoutInv
  <2>1. ASSUME NEW o \in Nat, NEW n \in Nat, o + n <= shard_size
        PROVE  Y!Bytes(o, n) \subseteq 0..(shard_size - 1)
    BY <1>1, <2>1 DEF Y!Bytes
  <2>2. \A e \in placed : Y!Bytes(e.off, e.len) \subseteq 0..(shard_size - 1)
    BY <1>2, <2>1 DEF Sound
  <2>3. \A c \in free_list : Y!Bytes(c[2], c[1]) \subseteq 0..(shard_size - 1)
    BY <1>3, <2>1 DEF Sound
  <2> QED BY <2>2, <2>3
<1>15. \A X : Y!Cardinality(X) = Cardinality(X)
  BY DEF Y!Cardinality, Cardinality
<1>16. Y!LayoutIsSound
  <2> HIDE DEF he, hc
  <2>1. aborted # "bad chunk"
    BY Zenon DEF LayoutInv
  <2> QED BY <1>8, <1>12, <1>13, <1>14, <1>15, <2>1, Zenon DEF Y!LayoutIsSound
<1>17. Y!TypeOK
  <2>1. \A c \in free_list : c \in (1..MaxAlignment) \X (0..MaxOffset)
    <3> SUFFICES ASSUME NEW c \in free_list PROVE c \in (1..MaxAlignment) \X (0..MaxOffset)
      OBVIOUS
    <3>1. c \in {1, 2} \X Nat /\ c[2] + c[1] <= MaxOffset
      BY <1>1 DEF Sound, IsChunk
    <3>2. c[1] \in 1..MaxAlignment /\ c[2] \in 0..MaxOffset /\ c = <<c[1], c[2]>>
      BY <1>1, <3>1, PlatformAssumption
    <3> QED BY <3>2
  <2> QED BY <2>1, Zenon DEF Y!TypeOK, LayoutInv
<1> QED BY <1>16, <1>17

-----------------------------------------------------------------------------
(* Commands for the elements of a slate.                                   *)

ElementOf(c) == c.name[1]

\* What the slate can hold of an element.
Allowed(e) == C!Holds[MCType[e]]

LastType == [what : {"init", "write", "one", "batch"}, cmds : Seq(MCCommands), success : BOOLEAN,
             result : BOOLEAN]

\* Each element of the slate has what it can hold.
CommandInv ==
    /\ names \in SUBSET (MCElements \X {"relative", "full"})
    /\ values \in [MCElements -> Int]
    /\ \A e \in MCElements : values[e] \in Allowed(e)
    /\ last \in LastType

\* What is held is within the bounds, or not finite, and stored as it is.
LEMMA HeldFacts ==
    /\ \A e \in MCElements : \A v \in Allowed(e) : v \in Int /\ C!Stored(e, v) = v
    /\ \A e \in MCElements : \A v \in C!Bounds[MCType[e]] :
          /\ C!Stored(e, v) \in Allowed(e)
          /\ C!Stored(e, v) \in C!Bounds[MCType[e]]
    /\ \A e \in MCElements : 0 \in Allowed(e)
<1>1. /\ MCType["mode"] = "uint32" /\ MCType["gain"] = "float" /\ MCType["limit"] = "int64"
      /\ MCElements = {"mode", "gain", "limit"}
  BY DEF MCType, MCElements
<1>2. /\ C!Holds["uint32"] = 0..3 /\ C!Holds["float"] = 0..3 \cup {5} /\ C!Holds["int64"] = -3..5
      /\ C!Bounds["uint32"] = -2..3 /\ C!Bounds["float"] = 0..3 /\ C!Bounds["int64"] = -3..5
  BY DEF C!Holds, C!Bounds, C!Inputs, C!Infinite
<1>3. \A v : /\ C!Stored("mode", v) = v % 4
             /\ C!Stored("gain", v) = v /\ C!Stored("limit", v) = v
  BY <1>1 DEF C!Stored
<1>4. \A v \in -2..3 : v % 4 \in 0..3
  OBVIOUS
<1>5. \A v \in 0..3 : v % 4 = v
  OBVIOUS
<1> QED BY <1>1, <1>2, <1>3, <1>4, <1>5 DEF Allowed

LEMMA SettableFacts ==
    ASSUME NEW e \in MCElements, NEW v, NEW old, C!Settable(e, v, old)
    PROVE  C!Stored(e, v) \in Int /\ C!Stored(e, v) \in Allowed(e)
<1>1. v \in C!Bounds[MCType[e]]
  BY DEF C!Settable
<1> QED BY <1>1, HeldFacts

LEMMA AcceptedFacts ==
    ASSUME CommandInv, NEW c \in MCCommands, NEW vals, C!Accepted(c, vals)
    PROVE  /\ ElementOf(c) \in MCElements /\ C!Stored(ElementOf(c), c.value) \in Int
           /\ C!Stored(ElementOf(c), c.value) \in Allowed(ElementOf(c))
           /\ C!Settable(ElementOf(c), c.value, vals[ElementOf(c)])
<1>1. /\ c.name \in names
      /\ C!Settable(ElementOf(c), c.value, vals[ElementOf(c)])
  BY DEF C!Accepted, ElementOf
<1>2. ElementOf(c) \in MCElements
  BY <1>1 DEF CommandInv, ElementOf
<1> QED BY <1>1, <1>2, SettableFacts

\* What a batch has set after m of its commands, and what it has saved.
HasSet(vals, batch, m) ==
    /\ vals \in [MCElements -> Int]
    /\ \A i \in 1..m :
          /\ vals[ElementOf(batch[i])] = C!Stored(ElementOf(batch[i]), batch[i].value)
          /\ C!Settable(ElementOf(batch[i]), batch[i].value, values[ElementOf(batch[i])])
    /\ \A e \in MCElements : (\A i \in 1..m : ElementOf(batch[i]) # e) => vals[e] = values[e]

HasSaved(saved, batch, m) ==
    /\ saved \in Seq(Int) /\ Len(saved) = m
    /\ \A i \in 1..m : ElementOf(batch[i]) \in MCElements /\ saved[i] = values[ElementOf(batch[i])]

StateType == [ok : BOOLEAN, saved : Seq(Int), values : [MCElements -> Int]]

\* A command of a batch, in any state of it.
ApplyOne(c, s) ==
    IF s.ok /\ C!Accepted(c, s.values)
    THEN [ok |-> TRUE, saved |-> Append(s.saved, s.values[c.name[1]]),
          values |-> [s.values EXCEPT ![c.name[1]] = C!Stored(c.name[1], c.value)]]
    ELSE [s EXCEPT !.ok = FALSE]

LEMMA ApplyOneType ==
    ASSUME CommandInv, NEW c \in MCCommands, NEW s \in StateType PROVE ApplyOne(c, s) \in StateType
<1>1. s.ok \in BOOLEAN /\ s.saved \in Seq(Int) /\ s.values \in [MCElements -> Int]
  BY DEF StateType
<1>2. CASE s.ok /\ C!Accepted(c, s.values)
  <2> DEFINE v == C!Stored(c.name[1], c.value)
             e == c.name[1]
             p == s.saved
             w == s.values
  <2>1. e \in MCElements /\ v \in Int
    BY <1>2, AcceptedFacts DEF ElementOf
  <2>2. ApplyOne(c, s) = [ok |-> TRUE, saved |-> Append(p, w[e]), values |-> [w EXCEPT ![e] = v]]
    BY <1>2 DEF ApplyOne
  <2>3. p \in Seq(Int) /\ w \in [MCElements -> Int]
    BY <1>1
  <2> HIDE DEF v, e, p, w
  <2>4. Append(p, w[e]) \in Seq(Int) /\ [w EXCEPT ![e] = v] \in [MCElements -> Int]
    BY <2>1, <2>3
  <2> QED BY <2>2, <2>4 DEF StateType
<1>3. CASE ~(s.ok /\ C!Accepted(c, s.values))
  BY <1>1, <1>3, Zenon DEF ApplyOne, StateType
<1> QED BY <1>2, <1>3

LEMMA AppliedSteps ==
    ASSUME CommandInv, NEW batch \in Seq(MCCommands)
    PROVE  \E f \in [0..Len(batch) -> StateType] :
              /\ f[0] = [ok |-> TRUE, saved |-> <<>>, values |-> values]
              /\ \A i \in 1..Len(batch) : f[i] = ApplyOne(batch[i], f[i - 1])
              /\ C!Applied(batch) = f[Len(batch)]
<1> DEFINE n == Len(batch)
           base == [ok |-> TRUE, saved |-> <<>>, values |-> values]
           step == [i \in 1..n |-> [s \in StateType |-> ApplyOne(batch[i], s)]]
           Body(f, i) ==
             IF i = 0 THEN base
             ELSE IF f[i - 1].ok /\ C!Accepted(batch[i], f[i - 1].values)
                  THEN [ok |-> TRUE, saved |-> Append(f[i - 1].saved, f[i - 1].values[batch[i].name[1]]),
                        values |-> [f[i - 1].values EXCEPT ![batch[i].name[1]] =
                                       C!Stored(batch[i].name[1], batch[i].value)]]
                  ELSE [f[i - 1] EXCEPT !.ok = FALSE]
           after == CHOOSE f : f = [i \in 0..n |-> Body(f, i)]
<1>0. n \in Nat /\ \A i \in 1..n : batch[i] \in MCCommands
  OBVIOUS
<1>1. step \in [1..n -> [StateType -> StateType]]
  BY <1>0, ApplyOneType
<1>2. base \in StateType
  <2>1. <<>> \in Seq(Int) /\ values \in [MCElements -> Int]
    BY DEF CommandInv
  <2> QED BY <2>1 DEF StateType
<1>3. PICK f \in [0..n -> StateType] : Follows(f, n, base, step)
  <2> HIDE DEF step, n, base
  <2> QED BY <1>0, <1>1, <1>2, Recursion, Zenon
<1>4. ASSUME NEW g, NEW i \in 1..n PROVE Body(g, i) = ApplyOne(batch[i], g[i - 1])
  <2>1. i # 0
    BY <1>0
  <2> QED BY <2>1, Zenon DEF ApplyOne
<1> HIDE DEF base
<1>5. ASSUME NEW i \in 0..n PROVE f[i] = Body(f, i)
  <2>1. CASE i = 0
    <3>1. f[0] = base
      BY <1>3 DEF Follows
    <3> QED BY <2>1, <3>1
  <2>2. CASE i \in 1..n
    <3>1. i - 1 \in 0..n /\ f[i - 1] \in StateType
      BY <1>0, <2>2
    <3>2. step[i][f[i - 1]] = ApplyOne(batch[i], f[i - 1])
      BY <2>2, <3>1
    <3>3. f[i] = step[i][f[i - 1]]
      BY <1>3, <2>2 DEF Follows
    <3> HIDE DEF Body, step
    <3> QED BY <1>4, <2>2, <3>2, <3>3
  <2>3. i = 0 \/ i \in 1..n
    BY <1>0
  <2> QED BY <2>1, <2>2, <2>3
<1>6. f = [i \in 0..n |-> Body(f, i)]
  <2> HIDE DEF Body
  <2> QED BY <1>5
<1>7. after = [i \in 0..n |-> Body(after, i)]
  <2> HIDE DEF Body
  <2> QED BY <1>6, Zenon
<1>8. after[0] = base /\ \A i \in 1..n : after[i] = ApplyOne(batch[i], after[i - 1])
  <2> HIDE DEF after
  <2>1. after[0] = base
    BY <1>0, <1>7
  <2>2. ASSUME NEW i \in 1..n PROVE after[i] = ApplyOne(batch[i], after[i - 1])
    <3> HIDE DEF Body
    <3>1. i \in 0..n
      BY <1>0
    <3>2. after[i] = Body(after, i)
      BY <1>7, <3>1, Zenon
    <3> QED BY <1>4, <3>2
  <2> QED BY <2>1, <2>2
<1>9. 0..n \subseteq {i \in 0..n : after[i] \in StateType}
  <2> HIDE DEF after, Body
  <2>1. after[0] \in StateType
    BY <1>2, <1>8
  <2>2. ASSUME NEW i \in 1..n, after[i - 1] \in StateType PROVE after[i] \in StateType
    BY <1>0, <1>8, <2>2, ApplyOneType
  <2> DEFINE Holds == {i \in 0..n : after[i] \in StateType}
  <2>3. 0 \in Holds /\ \A i \in 1..n : i - 1 \in Holds => i \in Holds
    BY <1>0, <2>1, <2>2
  <2> HIDE DEF Holds, n
  <2> QED BY <1>0, <2>3, UpTo, Zenon DEF Holds
<1>10. after \in [0..n -> StateType]
  <2> HIDE DEF after, Body
  <2> QED BY <1>7, <1>9
<1>11. C!Applied(batch) = after[Len(batch)]
  BY DEF C!Applied, base
<1> QED
  <2> HIDE DEF after
  <2> QED BY <1>8, <1>10, <1>11 DEF base

UndoType == [values : [MCElements -> Int], ok : BOOLEAN]

\* One value that was saved, set again, unless that is refused.
CanUndo(e, x, r) == C!validate_element(e) /\ C!Settable(e, x, r.values[e])

UndoOne(e, x, r) ==
    IF CanUndo(e, x, r) THEN [r EXCEPT !.values[e] = C!Stored(e, x)] ELSE [r EXCEPT !.ok = FALSE]

LEMMA UndoOneType ==
    ASSUME NEW e \in MCElements, NEW x \in Int, NEW r \in UndoType
    PROVE  UndoOne(e, x, r) \in UndoType
<1>1. r.ok \in BOOLEAN /\ r.values \in [MCElements -> Int]
  BY DEF UndoType
<1>2. CASE CanUndo(e, x, r)
  <2> DEFINE w == r.values
             v == C!Stored(e, x)
             w2 == [w EXCEPT ![e] = v]
  <2>1. v \in Int
    BY <1>2, SettableFacts DEF CanUndo
  <2>2. UndoOne(e, x, r) = [values |-> w2, ok |-> r.ok]
    BY <1>2 DEF UndoOne, UndoType
  <2> HIDE DEF v
  <2>3. w2 \in [MCElements -> Int]
    BY <1>1, <2>1
  <2> HIDE DEF w2
  <2> QED BY <1>1, <2>2, <2>3 DEF UndoType
<1>3. CASE ~CanUndo(e, x, r)
  BY <1>1, <1>3, Zenon DEF UndoOne, UndoType
<1> QED BY <1>2, <1>3

LEMMA RolledBackSteps ==
    ASSUME NEW batch, NEW s \in StateType, NEW m \in Nat, Len(s.saved) = m,
           \A i \in 1..m : ElementOf(batch[i]) \in MCElements
    PROVE  \E f \in [0..m -> UndoType] :
              /\ f[0] = [values |-> s.values, ok |-> TRUE]
              /\ \A i \in 1..m : f[i] = UndoOne(ElementOf(batch[i]), s.saved[i], f[i - 1])
              /\ C!RolledBack(s, batch) = f[m]
<1> DEFINE saved == s.saved
           base == [values |-> s.values, ok |-> TRUE]
           step == [i \in 1..m |-> [r \in UndoType |-> UndoOne(ElementOf(batch[i]), saved[i], r)]]
           Body(f, i) ==
             IF i = 0 THEN base
             ELSE IF /\ C!validate_element(batch[i].name[1])
                     /\ C!Settable(batch[i].name[1], s.saved[i], f[i - 1].values[batch[i].name[1]])
                  THEN [f[i - 1] EXCEPT !.values[batch[i].name[1]] =
                                            C!Stored(batch[i].name[1], s.saved[i])]
                  ELSE [f[i - 1] EXCEPT !.ok = FALSE]
           undone == CHOOSE f : f = [i \in 0..Len(s.saved) |-> Body(f, i)]
<1>0. s.values \in [MCElements -> Int] /\ saved \in Seq(Int) /\ Len(saved) = m
  BY DEF StateType
<1>1. \A i \in 1..m : saved[i] \in Int
  BY <1>0
<1>2. step \in [1..m -> [UndoType -> UndoType]]
  <2> HIDE DEF saved
  <2> QED BY <1>1, UndoOneType
<1>3. base \in UndoType
  BY <1>0 DEF UndoType
<1>4. PICK f \in [0..m -> UndoType] : Follows(f, m, base, step)
  <2> HIDE DEF step, base
  <2> QED BY <1>2, <1>3, Recursion
<1>5. ASSUME NEW g, NEW i \in 1..m PROVE Body(g, i) = UndoOne(ElementOf(batch[i]), saved[i],
             g[i - 1])
  <2>1. i # 0
    OBVIOUS
  <2> QED BY <2>1, Zenon DEF UndoOne, CanUndo, ElementOf
<1> HIDE DEF base
<1>6. ASSUME NEW i \in 0..m PROVE f[i] = Body(f, i)
  <2>1. CASE i = 0
    <3>1. f[0] = base
      BY <1>4 DEF Follows
    <3> QED BY <2>1, <3>1
  <2>2. CASE i \in 1..m
    <3>1. i - 1 \in 0..m /\ f[i - 1] \in UndoType
      BY <2>2
    <3>2. step[i][f[i - 1]] = UndoOne(ElementOf(batch[i]), saved[i], f[i - 1])
      BY <2>2, <3>1
    <3>3. f[i] = step[i][f[i - 1]]
      BY <1>4, <2>2 DEF Follows
    <3> HIDE DEF Body, step, saved
    <3> QED BY <1>5, <2>2, <3>2, <3>3
  <2> QED BY <2>1, <2>2
<1>7. f = [i \in 0..m |-> Body(f, i)]
  <2> HIDE DEF Body
  <2> QED BY <1>6
<1>8. undone = [i \in 0..m |-> Body(undone, i)]
  <2> HIDE DEF Body
  <2>1. 0..Len(s.saved) = 0..m
    BY <1>0
  <2> QED BY <1>7, <2>1
<1>9. /\ undone[0] = base
      /\ \A i \in 1..m : undone[i] = UndoOne(ElementOf(batch[i]), saved[i], undone[i - 1])
  <2> HIDE DEF undone
  <2>1. undone[0] = base
    BY <1>8
  <2>2. ASSUME NEW i \in 1..m
        PROVE  undone[i] = UndoOne(ElementOf(batch[i]), saved[i], undone[i - 1])
    <3> HIDE DEF Body, saved
    <3>1. undone[i] = Body(undone, i)
      BY <1>8
    <3> QED BY <1>5, <3>1
  <2> QED BY <2>1, <2>2
<1>10. 0..m \subseteq {i \in 0..m : undone[i] \in UndoType}
  <2> HIDE DEF undone, Body, saved
  <2>1. undone[0] \in UndoType
    BY <1>3, <1>9
  <2>2. ASSUME NEW i \in 1..m, undone[i - 1] \in UndoType PROVE undone[i] \in UndoType
    BY <1>1, <1>9, <2>2, UndoOneType
  <2> DEFINE Holds == {i \in 0..m : undone[i] \in UndoType}
  <2>3. 0 \in Holds /\ \A i \in 1..m : i - 1 \in Holds => i \in Holds
    BY <2>1, <2>2
  <2> HIDE DEF Holds
  <2> QED BY <2>3, UpTo, Zenon DEF Holds
<1>11. undone \in [0..m -> UndoType]
  <2> HIDE DEF undone, Body
  <2> QED BY <1>8, <1>10
<1>12. C!RolledBack(s, batch) = undone[m]
  <2>1. C!RolledBack(s, batch) = undone[Len(s.saved)]
    BY DEF C!RolledBack, base
  <2> QED BY <2>1
<1> QED
  <2> HIDE DEF undone
  <2> QED BY <1>9, <1>11, <1>12, Zenon DEF base

\* Every prefix of a batch for different elements has set what it was asked to, and saved
\* what was there before.
LEMMA AppliedFacts ==
    ASSUME CommandInv, NEW batch \in Seq(MCCommands), C!Distinct(batch)
    PROVE  /\ C!Applied(batch) \in StateType
           /\ \E m \in 0..Len(batch) :
                 /\ HasSet(C!Applied(batch).values, batch, m)
                 /\ HasSaved(C!Applied(batch).saved, batch, m)
                 /\ C!Applied(batch).ok => m = Len(batch)
<1> DEFINE n == Len(batch)
           Good(s, k) == \E m \in 0..k : /\ HasSet(s.values, batch, m) /\ HasSaved(s.saved, batch, m)
                                         /\ s.ok => m = k
<1>0. /\ n \in Nat /\ \A i \in 1..n : batch[i] \in MCCommands
      /\ \A i, j \in 1..n : i # j => ElementOf(batch[i]) # ElementOf(batch[j])
  BY DEF C!Distinct, ElementOf
<1>1. PICK f \in [0..n -> StateType] :
              /\ f[0] = [ok |-> TRUE, saved |-> <<>>, values |-> values]
              /\ \A i \in 1..n : f[i] = ApplyOne(batch[i], f[i - 1])
              /\ C!Applied(batch) = f[n]
  BY AppliedSteps
<1>2. Good(f[0], 0)
  <2>1. HasSet(f[0].values, batch, 0) /\ HasSaved(f[0].saved, batch, 0)
    BY <1>1 DEF HasSet, HasSaved, CommandInv
  <2>2. 0 \in 0..0
    OBVIOUS
  <2> QED BY <2>1, <2>2
<1>3. ASSUME NEW k \in 1..n, Good(f[k - 1], k - 1) PROVE Good(f[k], k)
  <2> DEFINE s == f[k - 1]
             c == batch[k]
             e == ElementOf(c)
             v == C!Stored(e, c.value)
  <2>1. /\ s \in StateType /\ f[k] = ApplyOne(c, s) /\ c \in MCCommands /\ k \in Nat
        /\ s.saved \in Seq(Int) /\ s.values \in [MCElements -> Int]
    <3>1. k - 1 \in 0..n /\ k \in Nat
      BY <1>0
    <3>2. s \in StateType /\ f[k] = ApplyOne(c, s) /\ c \in MCCommands
      BY <1>0, <1>1, <3>1
    <3> QED BY <3>1, <3>2 DEF StateType
  <2>2. PICK m \in 0..(k - 1) : /\ HasSet(s.values, batch, m) /\ HasSaved(s.saved, batch, m)
                                /\ s.ok => m = k - 1
    BY <1>3
  <2> HIDE DEF s, c
  <2>3. CASE ~(s.ok /\ C!Accepted(c, s.values))
    <3>1. f[k].ok = FALSE /\ f[k].values = s.values /\ f[k].saved = s.saved
      BY <2>1, <2>3 DEF ApplyOne, StateType
    <3>2. m \in 0..k
      BY <2>1
    <3> QED BY <2>2, <3>1, <3>2
  <2>4. CASE s.ok /\ C!Accepted(c, s.values)
    <3> DEFINE w == s.values
               p == s.saved
    <3>1. e \in MCElements /\ v \in Int /\ m = k - 1 /\ C!Settable(e, c.value, w[e])
      BY <2>1, <2>2, <2>4, AcceptedFacts
    <3>2. /\ f[k].ok = TRUE /\ f[k].saved = Append(p, w[e])
          /\ f[k].values = [w EXCEPT ![e] = v]
      BY <2>1, <2>4 DEF ApplyOne, ElementOf
    <3>3. /\ w \in [MCElements -> Int] /\ p \in Seq(Int) /\ Len(p) = m
          /\ \A i \in 1..m :
                /\ w[ElementOf(batch[i])] = C!Stored(ElementOf(batch[i]), batch[i].value)
                /\ C!Settable(ElementOf(batch[i]), batch[i].value, values[ElementOf(batch[i])])
          /\ \A x \in MCElements : (\A i \in 1..m : ElementOf(batch[i]) # x) => w[x] = values[x]
          /\ \A i \in 1..m : ElementOf(batch[i]) \in MCElements /\ p[i] = values[ElementOf(batch[i])]
      BY <2>1, <2>2 DEF HasSet, HasSaved
    <3> HIDE DEF w, p
    <3>4. \A i \in 1..m : ElementOf(batch[i]) # e /\ i \in 1..k /\ i # k
      BY <1>0, <3>1 DEF c
    <3>5. w[e] = values[e]
      BY <3>1, <3>3, <3>4
    <3>6. k \in 1..k /\ batch[k] = c /\ \A i \in 1..k : i \in 1..m \/ i = k
      BY <2>1, <3>1 DEF c
    <3> HIDE DEF v, e
    <3>7. HasSet(f[k].values, batch, k)
      <4> DEFINE u == [w EXCEPT ![e] = v]
      <4>1. u \in [MCElements -> Int] /\ u[e] = v /\ \A x \in MCElements : x # e => u[x] = w[x]
        BY <3>1, <3>3
      <4> HIDE DEF u
      <4>2. ASSUME NEW i \in 1..k
            PROVE  /\ u[ElementOf(batch[i])] = C!Stored(ElementOf(batch[i]), batch[i].value)
                   /\ C!Settable(ElementOf(batch[i]), batch[i].value, values[ElementOf(batch[i])])
        <5>1. CASE i = k
          BY <3>1, <3>5, <3>6, <4>1, <5>1 DEF e, v
        <5>2. CASE i \in 1..m
          BY <3>3, <3>4, <4>1, <5>2
        <5> QED BY <3>6, <5>1, <5>2
      <4>3. ASSUME NEW x \in MCElements, \A i \in 1..k : ElementOf(batch[i]) # x
            PROVE  u[x] = values[x]
        <5>1. x # e /\ \A i \in 1..m : ElementOf(batch[i]) # x
          BY <3>4, <3>6, <4>3 DEF e
        <5> QED BY <3>3, <4>1, <5>1
      <4>4. f[k].values = u
        BY <3>2 DEF u
      <4> QED BY <4>1, <4>2, <4>3, <4>4 DEF HasSet
    <3>8. HasSaved(f[k].saved, batch, k)
      <4> DEFINE q == Append(p, w[e])
      <4>1. w[e] \in Int
        BY <3>1, <3>3
      <4>2. q \in Seq(Int) /\ Len(q) = k /\ q[k] = w[e] /\ \A i \in 1..m : q[i] = p[i]
        BY <2>1, <3>1, <3>3, <4>1
      <4> HIDE DEF q
      <4>3. ASSUME NEW i \in 1..k
            PROVE  ElementOf(batch[i]) \in MCElements /\ q[i] = values[ElementOf(batch[i])]
        <5>1. CASE i = k
          BY <3>1, <3>5, <3>6, <4>2, <5>1 DEF e
        <5>2. CASE i \in 1..m
          BY <3>3, <4>2, <5>2
        <5> QED BY <3>6, <5>1, <5>2
      <4>4. f[k].saved = q
        BY <3>2 DEF q
      <4> QED BY <4>2, <4>3, <4>4 DEF HasSaved
    <3>9. k \in 0..k
      BY <2>1
    <3> QED BY <3>7, <3>8, <3>9
  <2> QED BY <2>3, <2>4
<1>4. Good(f[n], n)
  <2> DEFINE Holds == {k \in 0..n : Good(f[k], k)}
  <2>1. 0 \in Holds /\ \A k \in 1..n : k - 1 \in Holds => k \in Holds
    BY <1>0, <1>2, <1>3
  <2> HIDE DEF Holds
  <2>2. 0..n \subseteq Holds
    BY <1>0, <2>1, UpTo, Zenon
  <2> QED BY <1>0, <2>2 DEF Holds
<1> QED BY <1>0, <1>1, <1>4

\* A batch that failed is taken back, but for the elements whose old value is refused.
Refused(s, batch, i) ==
    ~C!Settable(ElementOf(batch[i]), values[ElementOf(batch[i])], s.values[ElementOf(batch[i])])

Undone(vals, ok, s, batch, m, k) ==
    /\ \A e \in MCElements : (\A i \in 1..m : ElementOf(batch[i]) # e) => vals[e] = values[e]
    /\ \A i \in 1..m :
          /\ i <= k /\ ~Refused(s, batch, i) =>
                vals[ElementOf(batch[i])] = values[ElementOf(batch[i])]
          /\ i > k \/ Refused(s, batch, i) =>
                vals[ElementOf(batch[i])] = s.values[ElementOf(batch[i])]
    /\ ok => \A i \in 1..m : i <= k => ~Refused(s, batch, i)
    /\ ~ok => \E i \in 1..m : i <= k /\ Refused(s, batch, i)

LEMMA UndoneFacts ==
    ASSUME CommandInv, NEW batch \in Seq(MCCommands), C!Distinct(batch), NEW s \in StateType,
           NEW m \in 0..Len(batch), HasSet(s.values, batch, m), HasSaved(s.saved, batch, m)
    PROVE  Undone(C!RolledBack(s, batch).values, C!RolledBack(s, batch).ok, s, batch, m, m)
<1>0. /\ m \in Nat /\ s.saved \in Seq(Int) /\ Len(s.saved) = m
      /\ \A i \in 1..m : ElementOf(batch[i]) \in MCElements
                         /\ s.saved[i] = values[ElementOf(batch[i])]
                         /\ C!validate_element(ElementOf(batch[i]))
      /\ values \in [MCElements -> Int]
      /\ \A i, j \in 1..m : i # j => ElementOf(batch[i]) # ElementOf(batch[j])
  BY DEF HasSaved, C!Distinct, ElementOf, CommandInv
<1>1. PICK f \in [0..m -> UndoType] :
              /\ f[0] = [values |-> s.values, ok |-> TRUE]
              /\ \A i \in 1..m : f[i] = UndoOne(ElementOf(batch[i]), s.saved[i], f[i - 1])
              /\ C!RolledBack(s, batch) = f[m]
  <2>1. m \in Nat /\ Len(s.saved) = m /\ \A i \in 1..m : ElementOf(batch[i]) \in MCElements
    BY <1>0, Zenon
  <2> QED BY <2>1, RolledBackSteps, Zenon
<1> DEFINE Good(r, k) == Undone(r.values, r.ok, s, batch, m, k)
<1>2. Good(f[0], 0)
  <2>1. \A e \in MCElements : (\A i \in 1..m : ElementOf(batch[i]) # e) => s.values[e] = values[e]
    BY DEF HasSet
  <2>2. \A i \in 1..m : ~(i <= 0)
    BY <1>0
  <2>3. f[0].values = s.values /\ f[0].ok = TRUE
    BY <1>1
  <2> QED BY <2>1, <2>2, <2>3, Zenon DEF Undone
<1>3. ASSUME NEW k \in 1..m, Good(f[k - 1], k - 1) PROVE Good(f[k], k)
  <2> DEFINE r == f[k - 1]
             w == r.values
             e == ElementOf(batch[k])
             free == ~Refused(s, batch, k)
  <2>1. r \in UndoType /\ w \in [MCElements -> Int] /\ e \in MCElements
    <3>1. r \in UndoType
      OBVIOUS
    <3>2. e \in MCElements
      BY <1>0
    <3> HIDE DEF r, e
    <3> QED BY <3>1, <3>2 DEF UndoType
  <2>2. Undone(w, r.ok, s, batch, m, k - 1)
    BY <1>3, Zenon
  <2>3. w[e] = s.values[e]
    <3>1. k > k - 1
      BY <1>0
    <3> QED BY <2>2, <3>1, Zenon DEF Undone
  <2>4. /\ free => f[k] = [r EXCEPT !.values[e] = C!Stored(e, values[e])]
        /\ ~free => f[k] = [r EXCEPT !.ok = FALSE]
    <3>1. free <=> CanUndo(e, values[e], r)
      BY <1>0, <2>3, Zenon DEF Refused, CanUndo
    <3>2. f[k] = UndoOne(e, values[e], r)
      BY <1>0, <1>1, Zenon
    <3> HIDE DEF free, e, r
    <3> QED BY <3>1, <3>2, Zenon DEF UndoOne
  <2>5. C!Stored(e, values[e]) = values[e]
    BY <2>1, HeldFacts, Zenon DEF CommandInv
  <2>6. /\ free => f[k].values = [w EXCEPT ![e] = values[e]] /\ f[k].ok = r.ok
        /\ ~free => f[k].values = w /\ f[k].ok = FALSE
    <3> HIDE DEF r, e, free
    <3> QED BY <2>1, <2>4, <2>5 DEF UndoType
  <2> DEFINE u == f[k].values
  <2>7. /\ free => u[e] = values[e]
        /\ ~free => u[e] = w[e]
        /\ \A x \in MCElements : x # e => u[x] = w[x]
    <3> HIDE DEF e, w, r, free
    <3> QED BY <2>1, <2>6
  <2>8. /\ \A i \in 1..m : i # k => (ElementOf(batch[i]) # e /\ ElementOf(batch[i]) \in MCElements)
        /\ \A i \in 1..m : (i <= k <=> i <= k - 1 \/ i = k) /\ (i > k => i > k - 1)
        /\ ElementOf(batch[k]) = e /\ k \in 1..m
    BY <1>0
  <2> HIDE DEF w, r, u, e
  <2>9. ASSUME NEW x \in MCElements, \A i \in 1..m : ElementOf(batch[i]) # x
        PROVE  u[x] = values[x]
    BY <2>2, <2>7, <2>8, <2>9, Zenon DEF Undone
  <2>10. ASSUME NEW i \in 1..m
         PROVE  /\ i <= k /\ ~Refused(s, batch, i) =>
                      u[ElementOf(batch[i])] = values[ElementOf(batch[i])]
                /\ i > k \/ Refused(s, batch, i) =>
                      u[ElementOf(batch[i])] = s.values[ElementOf(batch[i])]
    <3>1. CASE i = k
      <4>1. ~(i > k)
        BY <1>0, <3>1
      <4> QED BY <2>3, <2>7, <2>8, <3>1, <4>1, Zenon
    <3>2. CASE i # k
      <4>1. u[ElementOf(batch[i])] = w[ElementOf(batch[i])]
        BY <2>7, <2>8, <3>2, Zenon
      <4> QED BY <2>2, <2>8, <3>2, <4>1, Zenon DEF Undone
    <3> QED BY <3>1, <3>2
  <2>11. ASSUME f[k].ok PROVE \A i \in 1..m : i <= k => ~Refused(s, batch, i)
    <3>1. free
      BY <2>6, <2>11, Zenon
    <3>2. r.ok
      BY <2>6, <2>11, <3>1, Zenon
    <3> QED BY <2>2, <2>8, <3>1, <3>2, Zenon DEF Undone
  <2>12. ASSUME ~f[k].ok PROVE \E i \in 1..m : i <= k /\ Refused(s, batch, i)
    <3>1. CASE ~free
      BY <2>8, <3>1, Zenon
    <3>2. CASE free
      <4>1. ~r.ok
        BY <2>6, <2>12, <3>2, Zenon
      <4> QED BY <2>2, <2>8, <4>1, Zenon DEF Undone
    <3> QED BY <3>1, <3>2
  <2> QED BY <2>9, <2>10, <2>11, <2>12, Zenon DEF Undone, u
<1>4. Good(f[m], m)
  <2> HIDE DEF Good
  <2> DEFINE Reaches == {k \in 0..m : Good(f[k], k)}
  <2>1. 0 \in Reaches /\ \A k \in 1..m : k - 1 \in Reaches => k \in Reaches
    BY <1>0, <1>2, <1>3
  <2> HIDE DEF Reaches
  <2>2. 0..m \subseteq Reaches
    BY <1>0, <2>1, UpTo, Zenon
  <2> QED BY <1>0, <2>2 DEF Reaches
<1> QED BY <1>1, <1>4, Zenon

\* Whatever the batch, what it has set and what it has saved are values of those elements.
OnlyAllowed(s, batch) ==
    /\ \A e \in MCElements : s.values[e] \in Allowed(e)
    /\ \A i \in 1..Len(s.saved) : ElementOf(batch[i]) \in MCElements
                                  /\ s.saved[i] \in Allowed(ElementOf(batch[i]))

LEMMA AppliedSound ==
    ASSUME CommandInv, NEW batch \in Seq(MCCommands)
    PROVE  C!Applied(batch) \in StateType /\ OnlyAllowed(C!Applied(batch), batch)
<1> DEFINE n == Len(batch)
           Good(s, k) == OnlyAllowed(s, batch) /\ Len(s.saved) <= k /\ (s.ok => Len(s.saved) = k)
<1>0. n \in Nat /\ \A i \in 1..n : batch[i] \in MCCommands
  OBVIOUS
<1>1. PICK f \in [0..n -> StateType] :
              /\ f[0] = [ok |-> TRUE, saved |-> <<>>, values |-> values]
              /\ \A i \in 1..n : f[i] = ApplyOne(batch[i], f[i - 1])
              /\ C!Applied(batch) = f[n]
  BY AppliedSteps
<1>2. Good(f[0], 0)
  BY <1>1 DEF OnlyAllowed, CommandInv
<1>3. ASSUME NEW k \in 1..n, Good(f[k - 1], k - 1) PROVE Good(f[k], k)
  <2> DEFINE s == f[k - 1]
             c == batch[k]
             e == ElementOf(c)
             v == C!Stored(e, c.value)
             w == s.values
             p == s.saved
  <2>1. /\ s \in StateType /\ f[k] = ApplyOne(c, s) /\ c \in MCCommands /\ k \in Nat
        /\ p \in Seq(Int) /\ w \in [MCElements -> Int]
    <3>1. k - 1 \in 0..n
      BY <1>0
    <3> QED BY <1>0, <1>1, <3>1 DEF StateType
  <2>2. /\ \A x \in MCElements : w[x] \in Allowed(x)
        /\ \A i \in 1..Len(p) : ElementOf(batch[i]) \in MCElements
                                /\ p[i] \in Allowed(ElementOf(batch[i]))
        /\ Len(p) <= k - 1 /\ (s.ok => Len(p) = k - 1)
    BY <1>3 DEF OnlyAllowed
  <2> HIDE DEF s, c
  <2>3. CASE ~(s.ok /\ C!Accepted(c, s.values))
    <3>1. f[k].ok = FALSE /\ f[k].values = w /\ f[k].saved = p
      BY <2>1, <2>3 DEF ApplyOne, StateType
    <3>2. Len(p) \in Nat /\ Len(p) <= k
      BY <2>1, <2>2
    <3> HIDE DEF w, p
    <3> QED BY <2>2, <3>1, <3>2 DEF OnlyAllowed
  <2>4. CASE s.ok /\ C!Accepted(c, s.values)
    <3>1. e \in MCElements /\ v \in Int /\ v \in Allowed(e) /\ Len(p) = k - 1
      BY <2>1, <2>2, <2>4, AcceptedFacts
    <3>2. /\ f[k].ok = TRUE /\ f[k].saved = Append(p, w[e])
          /\ f[k].values = [w EXCEPT ![e] = v]
      BY <2>1, <2>4 DEF ApplyOne, ElementOf
    <3> DEFINE q == Append(p, w[e])
    <3>3. w[e] \in Int /\ batch[k] = c
      BY <2>1, <3>1 DEF c
    <3> HIDE DEF w, p
    <3>4. Len(q) = k /\ q[k] = w[e] /\ \A i \in 1..Len(p) : q[i] = p[i]
      BY <2>1, <3>1, <3>3
    <3>5. \A i \in 1..k : i \in 1..Len(p) \/ i = k
      BY <2>1, <3>1
    <3>6. f[k].saved = q
      BY <3>2
    <3>7. \A x \in MCElements : f[k].values[x] \in Allowed(x)
      <4> HIDE DEF v, e
      <4> QED BY <2>1, <2>2, <3>1, <3>2
    <3> HIDE DEF q
    <3>8. ASSUME NEW i \in 1..k
          PROVE  ElementOf(batch[i]) \in MCElements /\ q[i] \in Allowed(ElementOf(batch[i]))
      <4>1. CASE i = k
        BY <2>2, <3>1, <3>3, <3>4, <4>1
      <4>2. CASE i \in 1..Len(p)
        BY <2>2, <3>4, <4>2
      <4> QED BY <3>5, <4>1, <4>2
    <3> QED BY <2>1, <3>2, <3>4, <3>6, <3>7, <3>8 DEF OnlyAllowed
  <2> QED BY <2>3, <2>4
<1>4. Good(f[n], n)
  <2> HIDE DEF Good
  <2> DEFINE Holds == {k \in 0..n : Good(f[k], k)}
  <2>1. 0 \in Holds /\ \A k \in 1..n : k - 1 \in Holds => k \in Holds
    BY <1>0, <1>2, <1>3
  <2> HIDE DEF Holds
  <2>2. 0..n \subseteq Holds
    BY <1>0, <2>1, UpTo, Zenon
  <2> QED BY <1>0, <2>2 DEF Holds
<1> QED BY <1>0, <1>1, <1>4

LEMMA RolledBackSound ==
    ASSUME NEW batch, NEW s \in StateType, OnlyAllowed(s, batch)
    PROVE  /\ C!RolledBack(s, batch) \in UndoType
           /\ \A e \in MCElements : C!RolledBack(s, batch).values[e] \in Allowed(e)
<1> DEFINE m == Len(s.saved)
           Good(r) == \A e \in MCElements : r.values[e] \in Allowed(e)
<1>0. s.saved \in Seq(Int) /\ m \in Nat
  BY DEF StateType
<1>1. PICK f \in [0..m -> UndoType] :
              /\ f[0] = [values |-> s.values, ok |-> TRUE]
              /\ \A i \in 1..m : f[i] = UndoOne(ElementOf(batch[i]), s.saved[i], f[i - 1])
              /\ C!RolledBack(s, batch) = f[m]
  <2>1. \A i \in 1..m : ElementOf(batch[i]) \in MCElements
    BY DEF OnlyAllowed
  <2> QED BY <1>0, <2>1, RolledBackSteps, Zenon
<1>2. Good(f[0])
  BY <1>1 DEF OnlyAllowed
<1>3. ASSUME NEW k \in 1..m, Good(f[k - 1]) PROVE Good(f[k])
  <2> DEFINE r == f[k - 1]
             w == r.values
             e == ElementOf(batch[k])
             x == s.saved[k]
  <2>1. r \in UndoType /\ w \in [MCElements -> Int] /\ e \in MCElements /\ x \in Allowed(e)
    BY <1>0 DEF UndoType, OnlyAllowed
  <2>2. f[k] = UndoOne(e, x, r)
    BY <1>1
  <2>3. Good(r)
    BY <1>3
  <2>4. f[k].values = w \/ f[k].values = [w EXCEPT ![e] = x]
    <3>1. C!Stored(e, x) = x
      BY <2>1, HeldFacts, Zenon
    <3> HIDE DEF r, e, x
    <3> QED BY <2>1, <2>2, <3>1 DEF UndoOne, UndoType
  <2> HIDE DEF w, e, x
  <2>5. \A y \in MCElements : w[y] \in Allowed(y)
    BY <2>3 DEF w
  <2> QED BY <2>1, <2>4, <2>5, Zenon
<1>4. Good(f[m])
  <2> HIDE DEF Good
  <2> DEFINE Holds == {k \in 0..m : Good(f[k])}
  <2>1. 0 \in Holds /\ \A k \in 1..m : k - 1 \in Holds => k \in Holds
    BY <1>0, <1>2, <1>3
  <2> HIDE DEF Holds
  <2>2. 0..m \subseteq Holds
    BY <1>0, <2>1, UpTo, Zenon
  <2> QED BY <1>0, <2>2 DEF Holds
<1> QED BY <1>0, <1>1, <1>4

LEMMA CommandInit == C!Init => CommandInv
<1> SUFFICES ASSUME C!Init PROVE CommandInv
  OBVIOUS
<1>1. /\ names \in SUBSET (MCElements \X {"relative", "full"})
      /\ values \in [MCElements -> {0}]
      /\ last = [what |-> "init", cmds |-> <<>>, success |-> TRUE, result |-> TRUE]
  BY DEF C!Init
<1>2. \A e \in MCElements : 0 \in Allowed(e)
  BY HeldFacts
<1>3. \A e \in MCElements : values[e] = 0
  BY <1>1
<1> QED BY <1>1, <1>2, <1>3 DEF CommandInv, LastType

LEMMA WriteInv ==
    ASSUME CommandInv, NEW e \in MCElements, NEW v \in Allowed(e), C!Write(e, v) PROVE CommandInv'
<1>1. /\ values' = [values EXCEPT ![e] = v] /\ names' = names
      /\ last' = [what |-> "write", cmds |-> <<>>, success |-> TRUE, result |-> TRUE]
  BY DEF C!Write
<1>2. last' \in LastType
  BY <1>1 DEF LastType
<1>3. v \in Int
  BY HeldFacts, Zenon
<1>4. values' \in [MCElements -> Int]
  BY <1>1, <1>3 DEF CommandInv
<1>5. ASSUME NEW x \in MCElements PROVE values'[x] \in Allowed(x)
  <2>1. CASE x = e
    BY <1>1, <2>1 DEF CommandInv
  <2>2. CASE x # e
    <3>1. values'[x] = values[x]
      BY <1>1, <2>2 DEF CommandInv
    <3> QED BY <3>1 DEF CommandInv
  <2> QED BY <2>1, <2>2
<1>6. (\A x \in MCElements : values[x] \in Allowed(x))'
  BY <1>5 DEF Allowed, C!Holds, C!Inputs, C!Big, C!Infinite
<1> QED BY <1>1, <1>2, <1>4, <1>6, Zenon DEF CommandInv

LEMMA SetOneInv == ASSUME CommandInv, NEW c \in MCCommands, C!SetOne(c) PROVE CommandInv'
<1>1. PICK ok \in BOOLEAN :
        /\ ok => C!Accepted(c, values)
        /\ values' = IF ok THEN [values EXCEPT ![ElementOf(c)] = C!Stored(ElementOf(c), c.value)]
                     ELSE values
        /\ last' = [what |-> "one", cmds |-> <<c>>, success |-> ok, result |-> TRUE]
        /\ names' = names
  <2> DEFINE ok == C!Accepted(c, values) /\ C!validate_element(c.name[1])
  <2>1. /\ values' = IF ok THEN [values EXCEPT ![ElementOf(c)] = C!Stored(ElementOf(c), c.value)]
                     ELSE values
        /\ last' = [what |-> "one", cmds |-> <<c>>, success |-> ok, result |-> TRUE]
        /\ names' = names
    BY DEF C!SetOne, ElementOf
  <2>2. ok \in BOOLEAN /\ (ok => C!Accepted(c, values))
    BY DEF C!Accepted, C!validate_element
  <2> HIDE DEF ok
  <2> QED BY <2>1, <2>2, Zenon
<1>2. last' \in LastType
  BY <1>1 DEF LastType
<1>3. values' \in [MCElements -> Int] /\ \A e \in MCElements : values'[e] \in Allowed(e)
  <2> DEFINE v == C!Stored(ElementOf(c), c.value)
             x == ElementOf(c)
  <2>1. ok => x \in MCElements /\ v \in Int /\ v \in Allowed(x)
    BY <1>1, AcceptedFacts
  <2>2. values' = IF ok THEN [values EXCEPT ![x] = v] ELSE values
    BY <1>1
  <2> HIDE DEF v, x
  <2> QED BY <2>1, <2>2 DEF CommandInv
<1>4. (\A e \in MCElements : values[e] \in Allowed(e))'
  BY <1>3 DEF Allowed
<1> QED BY <1>1, <1>2, <1>3, <1>4 DEF CommandInv

LEMMA SetMultiInv ==
    ASSUME CommandInv, NEW batch \in Seq(MCCommands), C!SetMulti(batch) PROVE CommandInv'
<1> DEFINE s == C!Applied(batch)
           r == C!RolledBack(s, batch)
<1>1. s \in StateType /\ OnlyAllowed(s, batch)
  BY AppliedSound
<1>2. r \in UndoType /\ \A e \in MCElements : r.values[e] \in Allowed(e)
  BY <1>1, RolledBackSound
<1>3. /\ values' = IF s.ok THEN s.values ELSE r.values
      /\ last' = [what |-> "batch", cmds |-> batch, success |-> s.ok,
                  result |-> IF s.ok THEN TRUE ELSE r.ok]
      /\ names' = names
  BY DEF C!SetMulti
<1> HIDE DEF s, r
<1>4. /\ s.ok \in BOOLEAN /\ r.ok \in BOOLEAN
      /\ s.values \in [MCElements -> Int] /\ r.values \in [MCElements -> Int]
      /\ \A e \in MCElements : s.values[e] \in Allowed(e)
  BY <1>1, <1>2 DEF StateType, UndoType, OnlyAllowed
<1>5. last' \in LastType
  BY <1>3, <1>4, Zenon DEF LastType
<1>6. values' \in [MCElements -> Int] /\ \A e \in MCElements : values'[e] \in Allowed(e)
  BY <1>2, <1>3, <1>4
<1>7. (\A e \in MCElements : values[e] \in Allowed(e))'
  BY <1>6 DEF Allowed
<1> QED BY <1>3, <1>5, <1>6, <1>7 DEF CommandInv

\* A step writes an element, or sends one command or a batch.
LEMMA CommandSteps ==
    ASSUME [C!Next]_commandVars
    PROVE  \/ \E e \in MCElements : \E v \in Allowed(e) : C!Write(e, v)
           \/ \E c \in MCCommands : C!SetOne(c)
           \/ \E batch \in Seq(MCCommands) : C!SetMulti(batch)
           \/ UNCHANGED commandVars
<1>1. \A n \in 0..MaxBatch : [1..n -> MCCommands] \subseteq Seq(MCCommands)
  OBVIOUS
<1> QED BY <1>1 DEF C!Next, Allowed

LEMMA CommandNext == CommandInv /\ [C!Next]_commandVars => CommandInv'
<1> SUFFICES ASSUME CommandInv, [C!Next]_commandVars PROVE CommandInv'
  OBVIOUS
<1>1. CASE UNCHANGED commandVars
  <2>1. (\A e \in MCElements : values[e] \in Allowed(e))'
    BY <1>1 DEF CommandInv, commandVars, Allowed
  <2> QED BY <1>1, <2>1 DEF CommandInv, commandVars
<1> QED BY <1>1, CommandSteps, WriteInv, SetOneInv, SetMultiInv

\* What such a batch leaves, and what it answers.
AllOrNothing(batch, ok, result) ==
    /\ \A e \in MCElements : values'[e] # values[e] => C!Commanded(batch, e)
    /\ IF ok
       THEN /\ result
            /\ \A i \in 1..Len(batch) :
                  values'[batch[i].name[1]] = C!Stored(batch[i].name[1], batch[i].value)
       ELSE /\ result <=> values' = values
            /\ \A e \in MCElements :
                  values'[e] # values[e] => ~C!Settable(e, values[e], values'[e])

\* A value that was set, and is the old one, can be set again.
LEMMA SameIsSettable ==
    ASSUME NEW e \in MCElements, NEW v, NEW old, C!Settable(e, v, old), C!Stored(e, v) = old
    PROVE  C!Settable(e, old, old)
<1>1. v \in C!Bounds[MCType[e]] /\ <<old, C!Stored(e, v)>> \notin MCRejected[e]
  BY Zenon DEF C!Settable
<1>2. old \in C!Bounds[MCType[e]] /\ C!Stored(e, old) = old
  BY <1>1, HeldFacts
<1> QED BY <1>1, <1>2, Zenon DEF C!Settable

\* One that failed.
LEMMA TakenBack ==
    ASSUME CommandInv, NEW batch \in Seq(MCCommands), NEW s \in StateType,
           NEW m \in 0..Len(batch), HasSet(s.values, batch, m), NEW result \in BOOLEAN,
           Undone(values', result, s, batch, m, m), values' \in [MCElements -> Int],
           \A i \in 1..m : ElementOf(batch[i]) \in MCElements
    PROVE  AllOrNothing(batch, FALSE, result)
<1>0. m \in Nat /\ Len(batch) \in Nat /\ \A i \in 1..m : i <= m /\ i \in 1..Len(batch)
  OBVIOUS
<1>1. values \in [MCElements -> Int]
  BY DEF CommandInv
<1>2. ASSUME NEW e \in MCElements, values'[e] # values[e]
      PROVE  \E i \in 1..m : /\ ElementOf(batch[i]) = e /\ Refused(s, batch, i)
                             /\ values'[e] = s.values[e]
  <2>1. PICK i \in 1..m : ElementOf(batch[i]) = e
    BY <1>2, Zenon DEF Undone
  <2>2. Refused(s, batch, i)
    BY <1>0, <1>2, <2>1, Zenon DEF Undone
  <2> QED BY <2>1, <2>2, Zenon DEF Undone
<1>3. \A e \in MCElements : values'[e] # values[e] => C!Commanded(batch, e)
  BY <1>0, <1>2, Zenon DEF C!Commanded, ElementOf
<1>4. \A e \in MCElements : values'[e] # values[e] => ~C!Settable(e, values[e], values'[e])
  BY <1>2, Zenon DEF Refused
<1>5. ASSUME result PROVE values' = values
  <2>1. \A e \in MCElements : values'[e] = values[e]
    BY <1>0, <1>2, <1>5, Zenon DEF Undone
  <2> QED BY <1>1, <2>1
<1>6. ASSUME ~result, values' = values PROVE FALSE
  <2>1. PICK i \in 1..m : Refused(s, batch, i)
    BY <1>6, Zenon DEF Undone
  <2> DEFINE e == ElementOf(batch[i])
             v == batch[i].value
  <2>2. e \in MCElements /\ s.values[e] = values[e]
    BY <1>6, <2>1, Zenon DEF Undone
  <2>3. s.values[e] = C!Stored(e, v) /\ C!Settable(e, v, values[e])
    BY Zenon DEF HasSet
  <2> HIDE DEF v
  <2>4. C!Settable(e, values[e], values[e])
    BY <2>2, <2>3, SameIsSettable, Zenon
  <2> QED BY <2>1, <2>2, <2>4, Zenon DEF Refused
<1> QED BY <1>3, <1>4, <1>5, <1>6, Zenon DEF AllOrNothing

LEMMA CommandsAreAtomic ==
    ASSUME CommandInv, [C!Next]_commandVars
    PROVE  C!DistinctBatchIsAtomic \/ UNCHANGED commandVars
<1>0. C!DistinctBatchIsAtomic
         <=> (last'.what = "batch" /\ C!Distinct(last'.cmds)
              => AllOrNothing(last'.cmds, last'.success, last'.result))
  BY Zenon DEF C!DistinctBatchIsAtomic, AllOrNothing
<1>1. ASSUME NEW c \in MCCommands, C!SetOne(c) PROVE C!DistinctBatchIsAtomic
  <2>1. last'.what = "one"
    BY <1>1 DEF C!SetOne
  <2> QED BY <1>0, <2>1
<1>2. ASSUME NEW e \in MCElements, NEW v \in Allowed(e), C!Write(e, v) PROVE C!DistinctBatchIsAtomic
  <2>1. last'.what = "write"
    BY <1>2 DEF C!Write
  <2> QED BY <1>0, <2>1
<1>3. ASSUME NEW batch \in Seq(MCCommands), C!SetMulti(batch) PROVE C!DistinctBatchIsAtomic
  <2> DEFINE s == C!Applied(batch)
             r == C!RolledBack(s, batch)
  <2>1. /\ values' = IF s.ok THEN s.values ELSE r.values
        /\ last' = [what |-> "batch", cmds |-> batch, success |-> s.ok,
                    result |-> IF s.ok THEN TRUE ELSE r.ok]
    BY <1>3 DEF C!SetMulti
  <2>2. last'.cmds = batch /\ last'.success = s.ok /\ last'.result = IF s.ok THEN TRUE ELSE r.ok
    <3> HIDE DEF s, r
    <3> QED BY <2>1
  <2> SUFFICES ASSUME C!Distinct(batch) PROVE AllOrNothing(batch, s.ok, last'.result)
    <3> HIDE DEF s, r
    <3> QED BY <1>0, <2>2, Zenon
  <2>3. PICK m \in 0..Len(batch) :
           /\ HasSet(s.values, batch, m) /\ HasSaved(s.saved, batch, m)
           /\ s.ok => m = Len(batch)
    BY AppliedFacts
  <2>4. s \in StateType
    BY AppliedFacts
  <2>5. s.ok \in BOOLEAN
    BY <2>4 DEF StateType
  <2>6. \A i \in 1..m : ElementOf(batch[i]) \in MCElements
    BY <2>3, Zenon DEF HasSaved
  <2>7. CASE s.ok
    <3>1. values' = s.values /\ last'.result = TRUE /\ m = Len(batch)
      BY <2>1, <2>2, <2>3, <2>7, Zenon
    <3>2. \A i \in 1..Len(batch) :
             values'[batch[i].name[1]] = C!Stored(batch[i].name[1], batch[i].value)
      BY <2>3, <3>1, Zenon DEF HasSet, ElementOf
    <3>3. \A e \in MCElements : values'[e] # values[e] => C!Commanded(batch, e)
      BY <2>3, <3>1, Zenon DEF HasSet, C!Commanded, ElementOf
    <3> QED BY <2>7, <3>1, <3>2, <3>3, Zenon DEF AllOrNothing
  <2>8. CASE ~s.ok
    <3>1. values' = r.values /\ last'.result = r.ok
      BY <2>1, <2>2, <2>8, Zenon
    <3>2. Undone(r.values, r.ok, s, batch, m, m)
      <4> HIDE DEF s
      <4> QED BY <2>3, <2>4, UndoneFacts, Zenon
    <3>3. r.ok \in BOOLEAN /\ r.values \in [MCElements -> Int]
      <4>1. OnlyAllowed(s, batch)
        BY AppliedSound
      <4>2. r \in UndoType
        <5> HIDE DEF s
        <5> QED BY <2>4, <4>1, RolledBackSound
      <4> HIDE DEF s, r
      <4> QED BY <4>2 DEF UndoType
    <3>4. Undone(values', r.ok, s, batch, m, m)
      BY <3>1, <3>2, Zenon
    <3>5. values' \in [MCElements -> Int]
      BY <3>1, <3>3, Zenon
    <3> HIDE DEF s, r
    <3>6. AllOrNothing(batch, FALSE, r.ok)
      BY <2>3, <2>4, <2>6, <3>3, <3>4, <3>5, TakenBack, Zenon
    <3> QED BY <2>5, <2>8, <3>1, <3>6, Zenon
  <2> QED BY <2>7, <2>8
<1> QED BY <1>1, <1>2, <1>3, CommandSteps

LEMMA CommandTypes == CommandInv => C!TypeOK
BY DEF CommandInv, C!TypeOK, Allowed, LastType, C!Stored

-----------------------------------------------------------------------------
(* What the variables hold.                                                *)

\* A UDP connection: what UdpInv does not say of its types.
UdpTypes == udpEvents \subseteq {"read", "write"} /\ stray \in BOOLEAN

LEMMA UdpTypesInit == U!Init => UdpTypes
BY DEF U!Init, UdpTypes

LEMMA UdpTypesNext == UdpTypes /\ [U!Next]_udpVars => UdpTypes'
<1> SUFFICES ASSUME UdpTypes, [U!Next]_udpVars PROVE UdpTypes'
  OBVIOUS
<1>1. ASSUME U!Commit PROVE UdpTypes'
  BY <1>1 DEF U!Commit, UdpTypes
<1>2. ASSUME NEW n \in U!Amounts, U!Pop(n) PROVE UdpTypes'
  BY <1>2 DEF U!Pop, UdpTypes
<1>3. ASSUME NEW offered \in U!Amounts, NEW good \in U!Amounts, NEW taken \in U!Amounts,
             U!FdRead(offered, good, taken)
      PROVE  UdpTypes'
  BY <1>3 DEF U!FdRead, UdpTypes
<1>4. ASSUME NEW told \in BOOLEAN, U!FdCloses(told), stray' = stray PROVE UdpTypes'
  BY <1>4 DEF U!FdCloses, U!CloseNow, UdpTypes
<1>5. ASSUME NEW n \in U!Amounts, NEW idle \in BOOLEAN, NEW told \in BOOLEAN, U!FdWrite(n, idle,
             told)
      PROVE  UdpTypes'
  BY <1>4, <1>5 DEF U!FdWrite, UdpTypes
<1>6. ASSUME NEW n \in U!Amounts, NEW told \in BOOLEAN, U!ClearUnwritten(n, told) PROVE UdpTypes'
  BY <1>4, <1>6 DEF U!ClearUnwritten, UdpTypes
<1>7. ASSUME NEW told \in BOOLEAN, U!FdBreaks(told) \/ U!ConnectFails(told) PROVE UdpTypes'
  BY <1>4, <1>7 DEF U!FdBreaks, U!ConnectFails
<1>8. ASSUME NEW told \in BOOLEAN, U!HandleTimer(told) PROVE UdpTypes'
  BY <1>8 DEF U!HandleTimer, U!AssignFd, U!CloseNow, UdpTypes
<1>9. ASSUME NEW remote \in BOOLEAN, NEW connected \in BOOLEAN, NEW told \in BOOLEAN,
             U!Open(remote, connected, told)
      PROVE  UdpTypes'
  BY <1>9 DEF U!Open, U!AssignFd, UdpTypes
<1>10. ASSUME NEW remote \in BOOLEAN, NEW connected \in BOOLEAN, U!OpenFails(remote, connected)
       PROVE  UdpTypes'
  <2>1. stray' = stray \/ stray' = (stray \/ (udpFes /\ groups.doubled = {}))
    BY <1>10 DEF U!OpenFails
  <2>2. stray' \in BOOLEAN
    BY <2>1, Zenon DEF UdpTypes
  <2> QED BY <1>10, <2>2 DEF U!OpenFails, U!chan, UdpTypes
<1>11. ASSUME NEW close \in BOOLEAN, NEW told \in BOOLEAN, U!Disconnect(close, told) PROVE UdpTypes'
  BY <1>11 DEF U!Disconnect, U!ChannelClose, UdpTypes
<1>12. ASSUME NEW g \in Groups, NEW ok \in BOOLEAN, U!Join(g, ok) \/ U!Leave(g) PROVE UdpTypes'
  BY <1>12 DEF U!Join, U!Leave, U!chan, UdpTypes
<1>14. ASSUME NEW told \in BOOLEAN, U!StrayCloses(told) PROVE UdpTypes'
  BY <1>14 DEF U!StrayCloses, U!ChannelClose, UdpTypes
<1>13. CASE UNCHANGED udpVars
  BY <1>13 DEF udpVars, UdpTypes
<1> QED BY <1>1, <1>2, <1>3, <1>5, <1>6, <1>7, <1>8, <1>9, <1>10, <1>11, <1>12, <1>13,
           <1>14, Zenon DEF U!Next

LEMMA UdpIsTyped == UdpInv /\ UdpTypes => U!TypeOK
BY DEF UdpInv, UdpTypes, U!TypeOK, ModeType, ConnType, GroupsType

\* A download: the states of its transfer, and its bounds.
CurlTypes ==
    /\ status \in {"idle", "in_progress", "success", "failed"}
    /\ handle \in {"none", "added", "orphan"}
    /\ retryPending \in BOOLEAN /\ fileOpen \in BOOLEAN
    /\ fresh \in BOOLEAN /\ missed \in BOOLEAN /\ stuck \in BOOLEAN
    /\ retries \in 0..MaxRetries /\ (retryPending => retries < MaxRetries)
    /\ now <= FileSize /\ counted <= FileSize /\ sent <= FileSize /\ received <= FileSize
    /\ resume < Wrap
    /\ lost \in -1..(FileSize - 1)

LEMMA CurlTypesInit == D!Init => CurlTypes
<1> SUFFICES ASSUME D!Init PROVE CurlTypes
  OBVIOUS
<1>1. FileSize \in Nat /\ Wrap \in Nat \ {0} /\ MaxRetries \in Nat
  BY PlatformAssumption
<1>2. /\ 0 \in 0..MaxRetries /\ 0 <= FileSize /\ 0 < Wrap /\ -1 \in -1..(FileSize - 1)
  BY <1>1
<1> QED BY <1>2, Zenon DEF D!Init, CurlTypes

LEMMA CurlTypesNext == CurlInv /\ CurlTypes /\ [D!Next]_curlVars => CurlTypes'
<1> SUFFICES ASSUME CurlInv, CurlTypes, [D!Next]_curlVars PROVE CurlTypes'
  OBVIOUS
<1>1. CurlInv'
  BY CurlNext
<1>2. /\ {cursor, received, now, counted, sent, resume} \subseteq Nat /\ cursor <= FileSize
      /\ cursor' \in Nat /\ cursor' <= FileSize /\ lost \in Int
  BY <1>1 DEF CurlInv
<1>3. FileSize \in Nat /\ Wrap \in Nat \ {0} /\ MaxRetries \in Nat
  BY PlatformAssumption
<1>4. ASSUME NEW at \in Nat, at <= FileSize, D!SetUp(at)
      PROVE  /\ handle' = "added" /\ now' <= FileSize /\ counted' <= FileSize /\ sent' <= FileSize
             /\ resume' < Wrap /\ lost' \in -1..(FileSize - 1)
  BY <1>3, <1>4 DEF D!SetUp
<1>5. ASSUME D!SetUpFails
      PROVE  /\ handle' \in {"none", "added", "orphan"} /\ now' <= FileSize /\ counted' <= FileSize
             /\ sent' <= FileSize
             /\ resume' < Wrap /\ lost' \in -1..(FileSize - 1)
  BY <1>5 DEF D!SetUpFails, D!transfer, CurlTypes
<1>6. ASSUME NEW u \in Urls, D!DownloadFile(u) PROVE CurlTypes'
  <2>1. cursor' = 0 /\ received' = 0 /\ fileOpen' = TRUE
    BY <1>6 DEF D!DownloadFile, D!Start
  <2>2. \/ D!SetUp(cursor') /\ status' = "in_progress" /\ fresh' = TRUE
        \/ D!SetUpFails /\ status' = status /\ fresh' = FALSE
    BY <1>6 DEF D!DownloadFile
  <2>3. retryPending' = retryPending /\ retries' = retries /\ stuck' = stuck /\ missed' = FALSE
    BY <1>6 DEF D!DownloadFile
  <2>4. /\ handle' \in {"none", "added", "orphan"} /\ now' <= FileSize /\ counted' <= FileSize
        /\ sent' <= FileSize
        /\ resume' < Wrap /\ lost' \in -1..(FileSize - 1)
    BY <1>2, <1>4, <1>5, <2>2
  <2>5. received' <= FileSize
    BY <1>3, <2>1
  <2>6. status' \in {"idle", "in_progress", "success", "failed"} /\ fresh' \in BOOLEAN
    BY <2>2 DEF CurlTypes
  <2> QED BY <2>1, <2>3, <2>4, <2>5, <2>6, Zenon DEF CurlTypes
<1>7. ASSUME D!Dispatch PROVE CurlTypes'
  <2>1. retries' = retries + 1 /\ retryPending' = FALSE /\ retries' \in 0..MaxRetries
    BY <1>3, <1>7 DEF D!Dispatch, CurlTypes
  <2>2. \/ D!SetUp(cursor) /\ stuck' = stuck
        \/ D!SetUpFails /\ stuck' = TRUE
    BY <1>7 DEF D!Dispatch
  <2>3. /\ status' = status /\ fileOpen' = fileOpen /\ received' = received /\ fresh' = fresh
        /\ missed' = missed
    BY <1>7 DEF D!Dispatch, D!content
  <2>4. /\ handle' \in {"none", "added", "orphan"} /\ now' <= FileSize /\ counted' <= FileSize
        /\ sent' <= FileSize
        /\ resume' < Wrap /\ lost' \in -1..(FileSize - 1)
    BY <1>2, <1>4, <1>5, <2>2
  <2> QED BY <2>1, <2>2, <2>3, <2>4 DEF CurlTypes
<1>8. ASSUME D!Write \/ D!Progress PROVE CurlTypes'
  <2>1. handle = "added" /\ handle' = "added"
    BY <1>8 DEF D!Write, D!Progress
  <2>2. resume' + now' <= cursor' /\ counted' <= now' /\ sent' <= FileSize
    BY <1>1, <2>1 DEF CurlInv, TransferInv
  <2>3. {resume', now', counted', received'} \subseteq Nat /\ (received' = received \/ received' = resume' + now')
    BY <1>1, <1>8 DEF CurlInv, D!Write, D!Progress
  <2>4. now' <= FileSize /\ counted' <= FileSize /\ received' <= FileSize
    BY <1>2, <1>3, <2>2, <2>3 DEF CurlTypes
  <2> QED BY <1>8, <2>1, <2>2, <2>4 DEF D!Write, D!Progress, D!content, D!history, CurlTypes
<1>9. ASSUME D!Lose PROVE CurlTypes'
  <2>1. handle = "added" /\ handle' = "added"
    BY <1>9 DEF D!Lose
  <2>2. sent' <= FileSize /\ (lost' # -1 => lost' \in Nat /\ lost' < FileSize)
    BY <1>1, <2>1 DEF CurlInv, TransferInv
  <2>3. lost' \in -1..(FileSize - 1)
    BY <1>3, <2>2
  <2> QED BY <1>9, <2>2, <2>3 DEF D!Lose, D!content, D!history, CurlTypes
<1>10. ASSUME D!Retry
       PROVE  (retryPending' = TRUE /\ status' = status /\ retries < MaxRetries)
              \/ (status' = "failed" /\ retryPending' = retryPending)
  BY <1>10 DEF D!Retry
<1>11. ASSUME D!Complete PROVE CurlTypes'
  <2>1. /\ handle' = "none" /\ retries' = retries /\ fileOpen' = fileOpen
        /\ now' = now /\ counted' = counted /\ sent' = sent /\ resume' = resume /\ lost' = lost
        /\ fresh' = fresh /\ stuck' = stuck
    BY <1>11 DEF D!Complete, D!transfer
  <2>2. received' = received \/ received' = cursor'
    BY <1>11 DEF D!Complete
  <2>3. \/ status' \in {"success", "failed"} /\ retryPending' = retryPending
        \/ D!Retry
    BY <1>11 DEF D!Complete
  <2>4. received' <= FileSize
    BY <1>2, <2>2 DEF CurlTypes
  <2>5. status' \in {"idle", "in_progress", "success", "failed"} /\ retryPending' \in BOOLEAN
        /\ (retryPending' => retries < MaxRetries)
    <3>1. CASE status' \in {"success", "failed"} /\ retryPending' = retryPending
      BY <3>1, Zenon DEF CurlTypes
    <3>2. CASE D!Retry
      <4>1. \/ retryPending' = TRUE /\ status' = status /\ retries < MaxRetries
            \/ status' = "failed" /\ retryPending' = retryPending
        BY <1>10, <3>2
      <4>2. status' \in {"idle", "in_progress", "success", "failed"}
        BY <4>1 DEF CurlTypes
      <4>3. retryPending' \in BOOLEAN /\ (retryPending' => retries < MaxRetries)
        <5>1. CASE retryPending' = TRUE /\ retries < MaxRetries
          BY <5>1
        <5>2. CASE retryPending' = retryPending
          BY <5>2, Zenon DEF CurlTypes
        <5> QED BY <4>1, <5>1, <5>2
      <4> QED BY <4>2, <4>3
    <3> QED BY <2>3, <3>1, <3>2
  <2>6. handle' \in {"none", "added", "orphan"}
    BY <2>1
  <2>7. missed' \in BOOLEAN
    BY <1>11, Zenon DEF D!Complete, CurlTypes
  <2> QED BY <2>1, <2>4, <2>5, <2>6, <2>7, Zenon DEF CurlTypes
<1>12. ASSUME D!CancelDownload PROVE CurlTypes'
  BY <1>12 DEF D!CancelDownload, D!content, D!transfer, CurlTypes
<1>13. ASSUME D!MoveTempFile PROVE CurlTypes'
  BY <1>13 DEF D!MoveTempFile, D!transfer, CurlTypes
<1>14. CASE UNCHANGED curlVars
  BY <1>14 DEF curlVars, CurlTypes
<1> QED BY <1>6, <1>7, <1>8, <1>9, <1>11, <1>12, <1>13, <1>14, Zenon DEF D!Next

LEMMA CurlIsTyped == CurlInv /\ CurlTypes => D!TypeOK
<1> SUFFICES ASSUME CurlInv, CurlTypes PROVE D!TypeOK
  OBVIOUS
<1>1. {cursor, now, counted, sent, received} \subseteq 0..FileSize /\ resume \in 0..(Wrap - 1)
  BY PlatformAssumption, SMTT(30) DEF CurlInv, CurlTypes
<1>2. file \in [0..(FileSize - 1) -> (Urls \X (0..(FileSize - 1))) \cup {D!Hole}]
  BY Zenon DEF CurlInv, FileType, Positions
<1>3. {retryPending, fileOpen, fresh, missed, stuck} \subseteq BOOLEAN
  BY Zenon DEF CurlTypes
<1> QED BY <1>1, <1>2, <1>3 DEF CurlTypes, D!TypeOK

\* The accountant: its bounds.
TokenBounds == next <= MaxTokenIds /\ default_count <= MaxDefault /\ rootBuilders \in 0..MaxBuilders

LEMMA TokenBoundsInit == K!Init => TokenBounds
<1> SUFFICES ASSUME K!Init PROVE TokenBounds
  OBVIOUS
<1> QED BY PlatformAssumption DEF K!Init, TokenBounds

LEMMA TokenBoundsNext == TokenInv /\ TokenBounds /\ [K!Next]_tokenVars => TokenBounds'
<1> SUFFICES ASSUME TokenInv, TokenBounds, [K!Next]_tokenVars PROVE TokenBounds'
  OBVIOUS
<1>1. next \in Nat /\ default_count \in Nat /\ enabled \in BOOLEAN
  BY DEF TokenInv
<1>2. {MaxTokenIds, MaxDefault, MaxBuilders} \subseteq Nat
  BY PlatformAssumption
<1>3. \A b : K!Number(b) \in {0, 1}
  BY DEF K!Number
<1>4. ASSUME NEW t \in Tokens, NEW old, K!Generate(t, old)
      PROVE  next' <= MaxTokenIds /\ default_count + 1 <= MaxDefault
  BY <1>1, <1>2, <1>3, <1>4 DEF K!Generate
<1>5. ASSUME NEW t \in Tokens, NEW s \in Tokens, NEW old, K!Set(t, s, old),
             rootBuilders' = rootBuilders
      PROVE  TokenBounds'
  <2>1. default_count' = default_count + K!Number(~enabled /\ id[s] # K!Bound) - K!Number(old = K!Default)
    BY <1>5 DEF K!Set
  <2>2. CASE id[s] = K!Bound
    <3>1. next' = next
      BY <1>5, <2>2 DEF K!Set
    <3>2. K!Number(~enabled /\ id[s] # K!Bound) = 0
      BY <2>2 DEF K!Number
    <3>3. default_count' <= MaxDefault
      BY <1>1, <1>2, <1>3, <2>1, <3>2 DEF TokenBounds
    <3> QED BY <1>5, <3>1, <3>3 DEF TokenBounds
  <2>3. CASE id[s] # K!Bound
    <3>1. next' <= MaxTokenIds /\ default_count + 1 <= MaxDefault
      BY <1>4, <1>5, <2>3 DEF K!Set
    <3>2. default_count' <= MaxDefault
      BY <1>1, <1>2, <1>3, <2>1, <3>1
    <3> QED BY <1>5, <3>1, <3>2 DEF TokenBounds
  <2> QED BY <2>2, <2>3
<1>6. ASSUME NEW t \in Tokens, K!New(t) PROVE TokenBounds'
  <2>1. next' <= MaxTokenIds /\ default_count + 1 <= MaxDefault
    BY <1>4, <1>6 DEF K!New
  <2>2. default_count' = default_count + K!Number(~enabled) /\ rootBuilders' = rootBuilders
    BY <1>6 DEF K!New
  <2> QED BY <1>1, <1>2, <1>3, <2>1, <2>2 DEF TokenBounds
<1>7. ASSUME NEW t \in Tokens, K!Destroy(t) PROVE TokenBounds'
  <2>1. /\ default_count' = default_count - K!Number(id[t] = K!Default)
        /\ next' = next /\ rootBuilders' = rootBuilders
    BY <1>7 DEF K!Destroy
  <2> QED BY <1>1, <1>2, <1>3, <2>1 DEF TokenBounds
<1>8. ASSUME NEW t \in Tokens, K!Bind(t) PROVE TokenBounds'
  BY <1>8 DEF K!Bind, TokenBounds
<1>9. ASSUME NEW t \in Tokens, NEW s \in Tokens, K!Copy(t, s) \/ K!Assign(t, s) PROVE TokenBounds'
  BY <1>5, <1>9 DEF K!Copy, K!Assign
<1>10. CASE K!NewBuilder
  BY <1>2, <1>10 DEF K!NewBuilder, TokenBounds
<1>11. CASE K!Build
  BY <1>2, <1>11 DEF K!Build, K!acknowledge_and_disable, TokenBounds
<1>12. CASE UNCHANGED tokenVars
  BY <1>12 DEF tokenVars, TokenBounds
<1> QED BY <1>6, <1>7, <1>8, <1>9, <1>10, <1>11, <1>12, Zenon DEF K!Next

LEMMA TokensAreTyped == TokenInv /\ TokenBounds => K!TypeOK
<1> SUFFICES ASSUME TokenInv, TokenBounds PROVE K!TypeOK
  OBVIOUS
<1>1. Cardinality(frames) \in Nat
  BY SetsAreFinite
<1>2. first \in 0..MaxTokenIds /\ next \in first..MaxTokenIds /\ valid_count \in 0..MaxTokenIds
  BY <1>1, PlatformAssumption DEF TokenInv, TokenBounds
<1>3. default_count \in 0..MaxDefault
  BY PlatformAssumption DEF TokenInv, TokenBounds
<1>4. frames \subseteq K!Invalid
  BY DEF TokenInv, Unbound
<1> QED BY <1>2, <1>3, <1>4 DEF TokenInv, TokenBounds, TokenIds, K!TypeOK


\* A TCP connection: what is in its buffers, and how far it counts its connections.
Chunked(s) == s \in Seq(T!Chunks) /\ Len(s) <= TcpSize

TcpTypes ==
    /\ sealed \in BOOLEAN /\ tcpEvents \subseteq {"read", "write"}
    /\ Chunked(tcpInput) /\ Chunked(tcpOutput) /\ Chunked(peer.sent)
    /\ epoch <= MaxConnections /\ (tcpFes => epoch # 0)

LEMMA ChunkedTake ==
    ASSUME NEW s, Chunked(s), NEW n \in Nat, n <= Len(s)
    PROVE  Chunked(T!Take(s, n))
<1>1. s \in Seq(T!Chunks) /\ TcpSize \in Nat
  BY PlatformAssumption DEF Chunked
<1>2. T!Take(s, n) \in Seq(T!Chunks) /\ Len(T!Take(s, n)) = Len(s) - n
  BY <1>1, TakeOfSeq
<1> QED BY <1>1, <1>2 DEF Chunked

LEMMA ChunkedEmpty == \A s : s = <<>> => Chunked(s)
BY PlatformAssumption DEF Chunked

LEMMA TcpTypesInit == T!Init => TcpTypes
<1> SUFFICES ASSUME T!Init PROVE TcpTypes
  OBVIOUS
<1>1. tcpInput = <<>> /\ tcpOutput = <<>> /\ peer.sent = <<>> /\ epoch = 0
  BY DEF T!Init
<1>2. Chunked(tcpInput) /\ Chunked(tcpOutput) /\ Chunked(peer.sent)
  BY <1>1, ChunkedEmpty
<1>3. epoch <= MaxConnections
  BY <1>1, PlatformAssumption
<1> QED BY <1>2, <1>3 DEF T!Init, TcpTypes

LEMMA TcpTypesNext == TcpInv /\ TcpTypes /\ [T!Next]_tcpVars => TcpTypes'
<1> SUFFICES ASSUME TcpInv, TcpTypes, [T!Next]_tcpVars PROVE TcpTypes'
  OBVIOUS
<1>0. /\ TcpSize \in Nat /\ MaxConnections \in Nat /\ epoch \in Nat /\ T!Amounts = 0..TcpSize
      /\ tcpFes \in BOOLEAN /\ tcpShut \in BOOLEAN /\ wanted \in BOOLEAN
  BY PlatformAssumption DEF TcpInv, T!Amounts
<1>1. tcpFes => epoch \in T!Chunks
  BY <1>0 DEF TcpTypes, T!Chunks
<1>2. ASSUME NEW n \in T!Amounts, tcpFes PROVE Chunked([i \in 1..n |-> epoch])
  BY <1>0, <1>1, <1>2 DEF Chunked
<1>3. ASSUME NEW told \in BOOLEAN, T!FdCloses(told)
      PROVE  /\ tcpFes' = FALSE /\ tcpEvents' \subseteq {"read", "write"} /\ sealed' \in BOOLEAN
             /\ Chunked(tcpInput')
  BY <1>3, ChunkedEmpty DEF T!FdCloses, TcpTypes
<1>4. CASE T!Connect
  BY <1>4 DEF T!Connect, TcpTypes
<1>5. CASE T!Commit
  <2>1. /\ tcpFes /\ Len(tcpInput) < TcpSize /\ tcpInput' = Append(tcpInput, epoch)
        /\ tcpEvents' = tcpEvents \cup {"write"}
        /\ UNCHANGED <<wanted, sealed, tcpShut, tcpFes, tcpOutput, peer, epoch>>
    BY <1>5 DEF T!Commit, T!is_connected
  <2>2. Chunked(tcpInput')
    BY <1>0, <1>1, <2>1 DEF TcpTypes, Chunked
  <2> QED BY <2>1, <2>2 DEF TcpTypes
<1>6. ASSUME NEW n \in T!Amounts, T!PopFront(n) PROVE TcpTypes'
  <2>1. /\ n \in 1..Len(tcpOutput) /\ tcpOutput' = T!Take(tcpOutput, n)
        /\ tcpEvents' = T!ReadAgain(tcpEvents)
        /\ UNCHANGED <<wanted, sealed, tcpShut, tcpFes, tcpInput, peer, epoch>>
    BY <1>6 DEF T!PopFront
  <2>2. Chunked(tcpOutput')
    BY <2>1, ChunkedTake DEF TcpTypes, Chunked
  <2> QED BY <2>1, <2>2 DEF TcpTypes, T!ReadAgain
<1>7. ASSUME NEW told \in BOOLEAN, T!Reset(told) PROVE TcpTypes'
  BY <1>3, <1>7, ChunkedEmpty DEF T!Reset, T!ChannelClose, TcpTypes
<1>8. ASSUME NEW told \in BOOLEAN, T!FdBreaks(told) PROVE TcpTypes'
  BY <1>3, <1>8 DEF T!FdBreaks, TcpTypes
<1>9. ASSUME NEW close \in BOOLEAN, NEW told \in BOOLEAN, T!Disconnect(close, told) PROVE TcpTypes'
  <2>1. Chunked(tcpInput')
    BY <1>9, ChunkedEmpty DEF T!Disconnect, TcpTypes
  <2>2. sealed' \in BOOLEAN /\ tcpEvents' \subseteq {"read", "write"}
    BY <1>9 DEF T!Disconnect, TcpTypes
  <2>3. (tcpFes' => tcpFes) /\ UNCHANGED <<tcpOutput, peer, epoch>>
    BY <1>9 DEF T!Disconnect
  <2> QED BY <2>1, <2>2, <2>3 DEF TcpTypes
<1>10. ASSUME NEW offered \in T!Amounts, NEW read \in T!Amounts, NEW taken \in T!Amounts,
              NEW handled \in BOOLEAN, NEW told \in BOOLEAN,
              T!FdRead(offered, read, taken, handled, told)
       PROVE  TcpTypes'
  <2> DEFINE left == IF Len(tcpOutput) = TcpSize THEN T!Take(tcpOutput, offered) ELSE tcpOutput
             some == SubSeq(peer.sent, 1, read)
             got  == left \o some
  <2>1. /\ tcpFes /\ offered <= Len(tcpOutput) /\ read <= Len(peer.sent)
        /\ read <= TcpSize - Len(left) /\ taken <= Len(got) /\ epoch' = epoch
    BY <1>10, Zenon DEF T!FdRead
  <2>2. \/ /\ tcpEvents' = tcpEvents \ {"read"}
           /\ UNCHANGED <<wanted, sealed, tcpShut, tcpFes, tcpInput, tcpOutput, peer>>
        \/ /\ tcpOutput' = T!Take(got, taken)
           /\ peer' = [peer EXCEPT !.sent = T!Take(@, read)]
           /\ \/ UNCHANGED <<wanted, sealed, tcpShut, tcpFes, tcpEvents, tcpInput>>
              \/ T!FdCloses(told)
        \/ /\ tcpOutput' = left
           /\ T!FdCloses(told)
           /\ peer' = peer
    BY <1>10, Zenon DEF T!FdRead
  <2>3. Chunked(tcpInput) /\ Chunked(tcpOutput) /\ Chunked(peer.sent) /\ read \in Nat
    BY <1>0 DEF TcpTypes
  <2>4. Chunked(left)
    BY <1>0, <2>1, <2>3, ChunkedTake
  <2>5. Chunked(got)
    <3>1. some \in Seq(T!Chunks) /\ Len(some) = read
      BY <2>1, <2>3 DEF Chunked
    <3>2. left \in Seq(T!Chunks)
      BY <2>4 DEF Chunked
    <3> HIDE DEF left, some
    <3>3. got \in Seq(T!Chunks) /\ Len(got) = Len(left) + Len(some)
      BY <3>1, <3>2
    <3>4. Len(left) \in Nat
      BY <3>2
    <3> QED BY <1>0, <2>1, <2>3, <3>1, <3>3, <3>4 DEF Chunked
  <2> HIDE DEF left, got
  <2>6. Chunked(T!Take(got, taken)) /\ Chunked(T!Take(peer.sent, read))
    BY <1>0, <2>1, <2>3, <2>5, ChunkedTake
  <2>7. peer \in PeerType
    BY DEF TcpInv
  <2>8. Chunked(tcpOutput')
    BY <2>2, <2>3, <2>4, <2>6, Zenon
  <2>9. Chunked(peer'.sent)
    BY <2>2, <2>3, <2>6, <2>7 DEF PeerType
  <2>10. Chunked(tcpInput') /\ sealed' \in BOOLEAN /\ tcpEvents' \subseteq {"read", "write"}
    BY <1>3, <2>2 DEF TcpTypes
  <2> QED BY <2>1, <2>8, <2>9, <2>10 DEF TcpTypes
<1>11. ASSUME NEW asked \in T!Amounts, NEW written \in T!Amounts, NEW again \in T!Amounts,
              NEW told \in BOOLEAN, T!FdWrite(asked, written, again, told)
       PROVE  TcpTypes'
  <2> DEFINE before == IF T!is_connected /\ tcpInput = <<>> THEN [i \in 1..asked |-> epoch] ELSE tcpInput
             left   == T!Take(before, written)
             after  == IF T!is_connected /\ before # <<>> /\ left = <<>>
                         THEN [i \in 1..again |-> epoch] ELSE left
  <2>1. tcpFes /\ written <= Len(before) /\ UNCHANGED <<tcpOutput, peer, epoch>>
    BY <1>11, Zenon DEF T!FdWrite
  <2>2. \/ T!FdCloses(told)
        \/ /\ tcpInput' = after
           /\ tcpEvents' \in {tcpEvents, tcpEvents \ {"write"}}
           /\ UNCHANGED <<wanted, sealed, tcpShut, tcpFes>>
    <3>1. \/ T!FdCloses(told)
          \/ /\ tcpInput' = after
             /\ tcpEvents' = IF ~tcpShut /\ after = <<>> THEN tcpEvents \ {"write"} ELSE tcpEvents
             /\ UNCHANGED <<wanted, sealed, tcpShut, tcpFes>>
      BY <1>11, Zenon DEF T!FdWrite
    <3> HIDE DEF after
    <3> QED BY <3>1
  <2>3. Chunked(before)
    BY <1>2, <2>1 DEF TcpTypes
  <2>4. Chunked(left)
    BY <1>0, <2>1, <2>3, ChunkedTake
  <2>5. Chunked(after)
    BY <1>2, <2>1, <2>4
  <2> HIDE DEF after
  <2>6. Chunked(tcpInput') /\ sealed' \in BOOLEAN /\ tcpEvents' \subseteq {"read", "write"}
    BY <1>3, <2>2, <2>5 DEF TcpTypes
  <2> QED BY <2>1, <2>6 DEF TcpTypes
<1>12. ASSUME NEW taken \in T!Amounts, NEW ok \in BOOLEAN, NEW told \in BOOLEAN,
              T!HandleConnect(taken, ok, told)
       PROVE  TcpTypes'
  <2>1. tcpOutput' = <<>> /\ epoch < MaxConnections
    BY <1>12 DEF T!HandleConnect
  <2>2. CASE tcpInput # <<>>
    BY <1>12, <2>1, <2>2, ChunkedEmpty DEF T!HandleConnect, TcpTypes
  <2>3. CASE tcpInput = <<>>
    <3>1. epoch' = epoch + 1 /\ peer' = [sent |-> <<>>, gone |-> FALSE]
      BY <1>12, <2>3 DEF T!HandleConnect
    <3>2. /\ Chunked(tcpInput') /\ sealed' \in BOOLEAN /\ tcpEvents' \subseteq {"read", "write"}
      BY <1>3, <1>12, <2>3 DEF T!HandleConnect, TcpTypes
    <3>3. epoch' <= MaxConnections /\ epoch' # 0 /\ peer'.sent = <<>>
      BY <1>0, <2>1, <3>1
    <3> QED BY <2>1, <3>2, <3>3, ChunkedEmpty DEF TcpTypes
  <2> QED BY <2>2, <2>3
<1>13. CASE T!PeerSends
  <2>1. /\ tcpFes /\ Len(peer.sent) < TcpSize /\ peer' = [peer EXCEPT !.sent = Append(@, epoch)]
        /\ UNCHANGED <<wanted, sealed, tcpShut, tcpFes, tcpEvents, tcpInput, tcpOutput, epoch>>
    BY <1>13 DEF T!PeerSends
  <2>2. peer'.sent = Append(peer.sent, epoch)
    BY <2>1 DEF TcpInv, PeerType
  <2>3. Chunked(peer'.sent)
    BY <1>0, <1>1, <2>1, <2>2 DEF TcpTypes, Chunked
  <2> QED BY <2>1, <2>3 DEF TcpTypes
<1>14. CASE T!PeerCloses
  <2>1. peer'.sent = peer.sent
    BY <1>14 DEF T!PeerCloses, TcpInv, PeerType
  <2> QED BY <1>14, <2>1 DEF T!PeerCloses, TcpTypes
<1>15. CASE UNCHANGED tcpVars
  BY <1>15 DEF tcpVars, TcpTypes
<1> QED BY <1>4, <1>5, <1>6, <1>7, <1>8, <1>9, <1>10, <1>11, <1>12, <1>13, <1>14, <1>15,
           Zenon DEF T!Next

LEMMA TcpIsTyped == TcpInv /\ TcpTypes => T!TypeOK
<1> SUFFICES ASSUME TcpInv, TcpTypes PROVE T!TypeOK
  OBVIOUS
<1>1. epoch \in 0..MaxConnections
  BY PlatformAssumption DEF TcpInv, TcpTypes
<1>2. peer.gone \in BOOLEAN
  BY DEF TcpInv, PeerType
<1> QED BY <1>1, <1>2 DEF TcpInv, TcpTypes, Chunked, T!TypeOK

-----------------------------------------------------------------------------
(* The parts together. *)

LEMMA EachPart ==
    /\ PartsInit => /\ F!Init /\ S!Init /\ T!Init /\ U!Init /\ G!Init /\ D!Init
                    /\ Y!Init /\ K!Init /\ B!Init /\ C!Init
    /\ [PartsNext]_<<part, bagVars, serverVars, tcpVars, udpVars, signalVars, curlVars,
                     layoutVars, tokenVars, builderVars, commandVars>>
       => /\ [F!Next]_bagVars /\ [S!Next]_serverVars
          /\ [T!Next]_tcpVars /\ [U!Next]_udpVars
          /\ [G!Next]_signalVars /\ [D!Next]_curlVars
          /\ [Y!Next]_layoutVars /\ [K!Next]_tokenVars
          /\ [B!Next]_builderVars /\ [C!Next]_commandVars
<1>1. PartsInit => /\ F!Init /\ S!Init /\ T!Init /\ U!Init /\ G!Init /\ D!Init
                   /\ Y!Init /\ K!Init /\ B!Init /\ C!Init
  BY Zenon DEF PartsInit
<1>2. IoNext => /\ F!Next \/ UNCHANGED bagVars
                /\ S!Next \/ UNCHANGED serverVars
                /\ T!Next \/ UNCHANGED tcpVars
                /\ U!Next \/ UNCHANGED udpVars
                /\ G!Next \/ UNCHANGED signalVars
                /\ D!Next \/ UNCHANGED curlVars
  BY Zenon DEF IoNext
<1>3. SlateNext => /\ Y!Next \/ UNCHANGED layoutVars
                   /\ K!Next \/ UNCHANGED tokenVars
                   /\ B!Next \/ UNCHANGED builderVars
                   /\ C!Next \/ UNCHANGED commandVars
  BY Zenon DEF SlateNext
<1>4. PartsNext => /\ [F!Next]_bagVars /\ [S!Next]_serverVars
                   /\ [T!Next]_tcpVars /\ [U!Next]_udpVars
                   /\ [G!Next]_signalVars /\ [D!Next]_curlVars
                   /\ [Y!Next]_layoutVars /\ [K!Next]_tokenVars
                   /\ [B!Next]_builderVars /\ [C!Next]_commandVars
  <2>1. PartsNext => \/ IoNext /\ UNCHANGED <<layoutVars, tokenVars, builderVars, commandVars>>
                     \/ SlateNext /\ UNCHANGED <<bagVars, serverVars, tcpVars, udpVars,
                                                 signalVars, curlVars>>
    BY Zenon DEF PartsNext
  <2>2. UNCHANGED <<layoutVars, tokenVars, builderVars, commandVars>>
        => /\ UNCHANGED layoutVars /\ UNCHANGED tokenVars
           /\ UNCHANGED builderVars /\ UNCHANGED commandVars
    OBVIOUS
  <2>3. UNCHANGED <<bagVars, serverVars, tcpVars, udpVars, signalVars, curlVars>>
        => /\ UNCHANGED bagVars /\ UNCHANGED serverVars /\ UNCHANGED tcpVars
           /\ UNCHANGED udpVars /\ UNCHANGED signalVars /\ UNCHANGED curlVars
    OBVIOUS
  <2> QED BY <1>2, <1>3, <2>1, <2>2, <2>3, Zenon
<1>5. UNCHANGED <<part, bagVars, serverVars, tcpVars, udpVars, signalVars, curlVars,
                  layoutVars, tokenVars, builderVars, commandVars>>
      => /\ UNCHANGED bagVars /\ UNCHANGED serverVars /\ UNCHANGED tcpVars
         /\ UNCHANGED udpVars /\ UNCHANGED signalVars /\ UNCHANGED curlVars
         /\ UNCHANGED layoutVars /\ UNCHANGED tokenVars
         /\ UNCHANGED builderVars /\ UNCHANGED commandVars
  OBVIOUS
<1> QED BY <1>1, <1>4, <1>5, Zenon

(***************************************************************************)
(* The variables of every part keep their types and bounds: buffers and    *)
(* retries never beyond what is configured, positions within the file, IDs *)
(* and counts of tokens within what was handed out, chunks of connections  *)
(* that there were.                                                        *)
(***************************************************************************)
THEOREM TypesStayRight == PartsSpec => []TypesOK
<1> DEFINE vs == <<part, bagVars, serverVars, tcpVars, udpVars, signalVars, curlVars,
                   layoutVars, tokenVars, builderVars, commandVars>>
           Io == /\ BagInv /\ ServerInv /\ TcpInv /\ TcpTypes /\ UdpInv /\ UdpTypes
                 /\ SignalInv /\ CurlInv /\ CurlTypes
           Slate == LayoutInv /\ TokenInv /\ TokenBounds /\ BuilderInv /\ CommandInv
           Inv == Io /\ Slate
<1>1. PartsInit => Inv
  BY EachPart, BagInit, ServerInit, TcpInit, TcpTypesInit, UdpInit, UdpTypesInit, SignalInit,
     CurlInit, CurlTypesInit, LayoutInit, TokensInit, TokenBoundsInit, BuilderInit, CommandInit, Zenon
<1>2. Io /\ [PartsNext]_vs => Io'
  BY EachPart, BagNext, ServerNext, TcpNext, TcpTypesNext, UdpNext, UdpTypesNext, SignalNext,
     CurlNext, CurlTypesNext, Zenon
<1>3. Slate /\ [PartsNext]_vs => Slate'
  BY EachPart, LayoutNext, TokensNext, TokenBoundsNext, BuilderNext, CommandNext, Zenon
<1>4. Inv => TypesOK
  BY BagIsExact, ServerIsExact, TcpIsTyped, UdpIsTyped, SignalIsKept, CurlIsTyped, LayoutIsFine,
     TokensAreTyped, CommandTypes, Zenon DEF BuilderInv, TypesOK
<1> QED BY <1>1, <1>2, <1>3, <1>4, PTL DEF PartsSpec

(***************************************************************************)
(* A TCP or UDP connection whose socket is lost at any moment, by an       *)
(* error, by its client or by its peer, comes back whole: what was of the  *)
(* old socket is not on the new one, the multicast groups are, and nothing *)
(* waits for an event that nobody listens for.  With buffers of any size   *)
(* and any number of reconnections.                                        *)
(***************************************************************************)
THEOREM LinksRecover == PartsSpec => []LinksComeBackClean
<1> DEFINE vs == <<part, bagVars, serverVars, tcpVars, udpVars, signalVars, curlVars,
                   layoutVars, tokenVars, builderVars, commandVars>>
           Inv == TcpInv /\ UdpInv
<1>1. PartsInit => Inv
  BY EachPart, TcpInit, UdpInit
<1>2. Inv /\ [PartsNext]_vs => Inv'
  BY EachPart, TcpNext, UdpNext
<1>3. Inv => LinksComeBackClean
  BY TcpDoesNotMix DEF UdpInv, LinksComeBackClean
<1> QED BY <1>1, <1>2, <1>3, PTL DEF PartsSpec

(***************************************************************************)
(* A download that succeeds after any number of interruptions, losses and  *)
(* resumptions is the file, whatever its size, also one whose positions    *)
(* do not fit resume_from, if each retry after a loss came back far enough *)
(* (a partial file, rewound past the loss); and one in progress is not     *)
(* forgotten.                                                              *)
(***************************************************************************)
THEOREM DownloadsAreWhole == PartsSpec => []DownloadsEndWell
<1> DEFINE vs == <<part, bagVars, serverVars, tcpVars, udpVars, signalVars, curlVars,
                   layoutVars, tokenVars, builderVars, commandVars>>
<1>1. PartsInit => CurlInv
  BY EachPart, CurlInit
<1>2. CurlInv /\ [PartsNext]_vs => CurlInv'
  BY EachPart, CurlNext
<1>3. CurlInv => DownloadsEndWell
  BY DEF CurlInv, DownloadsEndWell
<1> QED BY <1>1, <1>2, <1>3, PTL DEF PartsSpec

(***************************************************************************)
(* The registry lists each open descriptor once, with its owner, its mask  *)
(* and its place in the vectors, and a round of select reports none that   *)
(* has left, with any number of descriptors, also when the handlers open,  *)
(* close and remove them; a server holds each connection in one list, and  *)
(* tells of the last that leaves.                                          *)
(***************************************************************************)
THEOREM ListsStayExact == PartsSpec => []ListsAreExact
<1> DEFINE vs == <<part, bagVars, serverVars, tcpVars, udpVars, signalVars, curlVars,
                   layoutVars, tokenVars, builderVars, commandVars>>
           Inv == BagInv /\ ServerInv
<1>1. PartsInit => Inv
  BY EachPart, BagInit, ServerInit
<1>2. Inv /\ [PartsNext]_vs => Inv'
  BY EachPart, BagNext, ServerNext
<1>3. Inv => ListsAreExact
  BY BagIsExact, ServerIsExact DEF ListsAreExact
<1> QED BY <1>1, <1>2, <1>3, PTL DEF PartsSpec

(***************************************************************************)
(* A slot that runs belongs to a handler that lives, and an emission calls *)
(* what is connected when it ends exactly once, however its slots connect, *)
(* disconnect, clear and destroy, with any number of slots and handlers.   *)
(***************************************************************************)
THEOREM SlotsRunOnce == PartsSpec => SlotsAreCalledOnce
<1> DEFINE vs == <<part, bagVars, serverVars, tcpVars, udpVars, signalVars, curlVars,
                   layoutVars, tokenVars, builderVars, commandVars>>
<1>1. PartsInit => SignalInv
  BY EachPart, SignalInit
<1>2. SignalInv /\ [PartsNext]_vs => SignalInv'
  BY EachPart, SignalNext
<1>3. SignalInv => (part = "signal" => G!NeverCallsTheDead)
  BY SignalIsKept
<1>4. SignalInv => [part = "signal" => G!EachIsCalledOnce]_signalVars
  BY SignalIsKept
<1> QED BY <1>1, <1>2, <1>3, <1>4, PTL DEF PartsSpec, SlotsAreCalledOnce

(***************************************************************************)
(* The elements and the free space of a shard never overlap and are within *)
(* it, aligned, whatever is placed and however far it grows; and no slate  *)
(* is built while a token lives that is not bound, whatever copies,        *)
(* assignments and builders came before, with any number of tokens.        *)
(***************************************************************************)
THEOREM SlateStaysWhole == PartsSpec => []SlateIsWhole
<1> DEFINE vs == <<part, bagVars, serverVars, tcpVars, udpVars, signalVars, curlVars,
                   layoutVars, tokenVars, builderVars, commandVars>>
           Inv == LayoutInv /\ TokenInv
<1>1. PartsInit => Inv
  BY EachPart, LayoutInit, TokensInit
<1>2. Inv /\ [PartsNext]_vs => Inv'
  BY EachPart, LayoutNext, TokensNext
<1>3. Inv => SlateIsWhole
  BY LayoutIsFine, AccountantKnows DEF SlateIsWhole
<1> QED BY <1>1, <1>2, <1>3, PTL DEF PartsSpec

(***************************************************************************)
(* The rights of a slate: nobody comes by a right over an element that its *)
(* creator did not give, by binding, by views or by tokens, and masks stay *)
(* on the builders made below, with any paths and any number of builders.  *)
(***************************************************************************)
THEOREM NoRightIsGained == PartsSpec => []RightsAreKept
<1> DEFINE vs == <<part, bagVars, serverVars, tcpVars, udpVars, signalVars, curlVars,
                   layoutVars, tokenVars, builderVars, commandVars>>
<1>1. PartsInit => BuilderInv
  BY EachPart, BuilderInit
<1>2. BuilderInv /\ [PartsNext]_vs => BuilderInv'
  BY EachPart, BuilderNext
<1>3. BuilderInv => RightsAreKept
  BY DEF BuilderInv, RightsAreKept
<1> QED BY <1>1, <1>2, <1>3, PTL DEF PartsSpec

(***************************************************************************)
(* A batch of commands for different elements that are not static, of any  *)
(* length, sets all of them to what was asked or fails, wherever in it a   *)
(* command is refused; a failed one says whether the slate is as it was,   *)
(* and leaves changed only an element that does not take its old value back.*)
(***************************************************************************)
THEOREM BatchesAreAtomic == PartsSpec => BatchIsAllOrNothing
<1> DEFINE vs == <<part, bagVars, serverVars, tcpVars, udpVars, signalVars, curlVars,
                   layoutVars, tokenVars, builderVars, commandVars>>
<1>1. PartsInit => CommandInv
  BY EachPart, CommandInit
<1>2. CommandInv /\ [PartsNext]_vs => CommandInv'
  BY EachPart, CommandNext
<1>3. CommandInv /\ [PartsNext]_vs => [part = "commands" => C!DistinctBatchIsAtomic]_commandVars
  BY EachPart, CommandsAreAtomic
<1> QED BY <1>1, <1>2, <1>3, PTL DEF PartsSpec, BatchIsAllOrNothing
=============================================================================
