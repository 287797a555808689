--------------------------- MODULE ProgramProofs ----------------------------
(* What TLAPS proves of Program: for any number of rungs and sections, the *)
(* editor and the sections manager neither lose a rung nor put it in two   *)
(* sections, whatever the engine is doing meanwhile; and, within the       *)
(* bounds of Careful, the refresh stays on the rungs of its sections and   *)
(* misses none, whatever the editor is doing meanwhile. And each write of  *)
(* theirs is, for the engine, a whole operation on the sequences of        *)
(* RungChains.                                                             *)
EXTENDS ProgramChains, FiniteSetTheorems, SequenceTheorems, WellFoundedInduction, TLAPS

Links == Rungs \cup {None}
SectionType == [used : BOOLEAN, ladder : BOOLEAN, sub : SubRoutines \cup {None},
                first : Rungs, last : Rungs]

(* What the editor and the manager work on; the logic task only reads it.  *)
TypeOK ==
    /\ used \in [Rungs -> BOOLEAN]
    /\ next \in [Rungs -> Links] /\ prev \in [Rungs -> Links]
    /\ sections \in [Sections -> SectionType]
    /\ infos \in [first : Rungs, last : Rungs, current : Rungs, section : Sections]
    /\ edit.mode \in {"none", "add", "insert", "modify"}
    /\ edit.num \in Rungs /\ edit.next \in Links /\ edit.prev \in Links
    /\ op \in {"idle", "own", "in", "first", "last"}

(* The links of section s, from f to l: own gives the section of a rung    *)
(* and pos an order that the links follow.                                 *)
Chained(nx, pv, own, pos, s, f, l) ==
    /\ own[f] = s /\ own[l] = s
    /\ \A r \in Rungs : own[r] = s /\ r # l =>
          /\ nx[r] \in Rungs /\ own[nx[r]] = s /\ nx[r] # f
          /\ pv[nx[r]] = r /\ pos[r] < pos[nx[r]]
    /\ \A r \in Rungs : own[r] = s /\ r # f =>
          pv[r] \in Rungs /\ own[pv[r]] = s /\ pv[r] # l /\ nx[pv[r]] = r

(* The ends of a section: the editor moves those of the displayed one in   *)
(* InfosGene, and copies them to SectionArray last.                        *)
FirstOf(s) == IF s = infos.section THEN infos.first ELSE sections[s].first
LastOf(s) == IF s = infos.section THEN infos.last ELSE sections[s].last

(* A rung added has its own links, and the link back of the one after it,  *)
(* before the rung before it leads to it.                                  *)
Linking == op \in {"own", "in"}
Back == IF op = "in" /\ edit.mode = "add" /\ infos.current # infos.last
        THEN [prev EXCEPT ![next[infos.current]] = infos.current] ELSE prev

Owned(own, pos) ==
    /\ \A r \in Rungs : used[r] <=> own[r] # None \/ (Linking /\ r = edit.num)
    /\ \A r \in Rungs : own[r] # None => IsLadder(own[r])
    /\ \A s \in Sections : IsLadder(s) =>
          Chained(next, Back, own, pos, s, FirstOf(s), LastOf(s))
    /\ IsLadder(infos.section) => own[infos.current] = infos.section
    /\ Linking => own[edit.num] = None

(* The new rung is ready to be linked in.                                  *)
NewLinked ==
    LET n == edit.num  c == infos.current
    IN  /\ edit.mode = "add" => prev[n] = c /\ (c # infos.last => next[n] = next[c] /\ prev[next[c]] = n)
        /\ edit.mode = "insert" => next[n] = c /\ (c # infos.first => prev[n] = prev[c])

(* How far the copy of the ends is, and what the edit under way relies on. *)
Pending ==
    LET s == sections[infos.section]
    IN  /\ s.used
        /\ op # "idle" => s.ladder
        /\ s.ladder /\ op # "first" => s.first = infos.first
        /\ s.ladder /\ op \notin {"first", "last"} => s.last = infos.last
        /\ Linking => edit.mode \in {"add", "insert"}
        /\ op = "in" => NewLinked
        /\ op = "idle" /\ edit.mode \in {"add", "insert"} => ~used[edit.num]
        /\ op = "idle" /\ edit.mode = "modify" =>
              /\ used[edit.num]
              /\ next[edit.num] = edit.next /\ prev[edit.num] = edit.prev

IInv ==
    /\ TypeOK /\ Pending
    /\ \E own \in [Rungs -> Sections \cup {None}], pos \in [Rungs -> Nat] : Owned(own, pos)

(* The rungs of a section at any write, and that own says the same.        *)
Of(s) == IF IsLadder(s) THEN Met(FirstOf(s), LastOf(s)) ELSE {}
OwnersMet ==
    \A own \in [Rungs -> Sections \cup {None}], pos \in [Rungs -> Nat] :
       Owned(own, pos) => \A s \in Sections : Of(s) = {r \in Rungs : own[r] = s}

-----------------------------------------------------------------------------
(* The links as a data structure: a rung is linked in after another one or *)
(* before it, or taken out, whatever the links of the rungs outside.       *)

LEMMA LeastOrder ==
  ASSUME NEW S, S # {}, NEW f \in [S -> Nat]
  PROVE  \E x \in S : \A y \in S : f[x] <= f[y]
<1> DEFINE R == {p \in Nat \X Nat : p[1] < p[2]}
           N == {f[x] : x \in S}
<1>1. IsWellFoundedOn(R, Nat)
  BY NatLessThanWellFounded, Zenon DEF OpToRel
<1>2. N \subseteq Nat /\ N # {}
  OBVIOUS
<1>3. \E n \in N : \A m \in N : ~(<< m, n >> \in R)
  <2> HIDE DEF R, N
  <2> QED
    BY <1>1, <1>2, WFMin
<1>4. PICK x \in S : \A m \in N : ~(<< m, f[x] >> \in R)
  BY <1>3
<1>5. ASSUME NEW y \in S PROVE f[x] <= f[y]
  <2>1. f[y] \in N /\ f[y] \in Nat /\ f[x] \in Nat
    OBVIOUS
  <2>2. ~(f[y] < f[x])
    BY <1>4, <2>1
  <2> QED
    BY <2>1, <2>2
<1> QED
  BY <1>5

(* The rungs that a refresh meets are those of the section.                *)
LEMMA MetIsOwned ==
  ASSUME next \in [Rungs -> Links], NEW pv, NEW own, NEW pos \in [Rungs -> Nat],
         NEW s \in Sections, NEW f \in Rungs, NEW l \in Rungs,
         Chained(next, pv, own, pos, s, f, l)
  PROVE  Met(f, l) = {r \in Rungs : own[r] = s}
<1> DEFINE O == {r \in Rungs : own[r] = s}
<1>0. None \notin Rungs
  BY DEF None, Rungs
<1>1. O \in SUBSET Rungs /\ Closed(O, f, l)
  BY DEF Chained, Closed
<1>2. Met(f, l) \subseteq O
  BY <1>1 DEF Met
<1>3. ASSUME NEW S \in SUBSET Rungs, Closed(S, f, l) PROVE O \subseteq S
  <2> DEFINE bad == O \ S
  <2>1. SUFFICES ASSUME bad # {} PROVE FALSE
    OBVIOUS
  <2>2. PICK r \in bad : \A q \in bad : pos[r] <= pos[q]
    <3>1. [q \in bad |-> pos[q]] \in [bad -> Nat]
      OBVIOUS
    <3> HIDE DEF bad
    <3>2. PICK r \in bad : \A q \in bad : [x \in bad |-> pos[x]][r] <= [x \in bad |-> pos[x]][q]
      BY <2>1, <3>1, LeastOrder
    <3> QED
      BY <3>2
  <2>3. r # f /\ own[r] = s
    BY <1>0, <1>3 DEF Closed
  <2>4. pv[r] \in Rungs /\ own[pv[r]] = s /\ pv[r] # l /\ next[pv[r]] = r
    BY <2>3 DEF Chained
  <2>5. pos[pv[r]] < pos[r] /\ pos[pv[r]] \in Nat /\ pos[r] \in Nat
    BY <2>4 DEF Chained
  <2>6. pv[r] \in S
    BY <2>2, <2>4, <2>5
  <2> QED
    BY <1>0, <1>3, <2>4, <2>6 DEF Closed
<1>4. O \subseteq Met(f, l)
  BY <1>3 DEF Met
<1> QED
  BY <1>2, <1>4

LEMMA ChainKept ==
  ASSUME NEW nx, NEW pv, NEW own, NEW pos, NEW nx2, NEW pv2, NEW own2, NEW pos2,
         NEW s, NEW f \in Rungs, NEW l \in Rungs,
         Chained(nx, pv, own, pos, s, f, l),
         \A r \in Rungs : own2[r] = s <=> own[r] = s,
         \A r \in Rungs : own[r] = s =>
            nx2[r] = nx[r] /\ pv2[r] = pv[r] /\ pos2[r] = pos[r]
  PROVE  Chained(nx2, pv2, own2, pos2, s, f, l)
BY DEF Chained

ChainOf(nx, pv, own, pos, s, f, l) ==
    /\ nx \in [Rungs -> Links] /\ pv \in [Rungs -> Links]
    /\ own \in [Rungs -> Sections \cup {None}] /\ pos \in [Rungs -> Nat]
    /\ s \in Sections /\ f \in Rungs /\ l \in Rungs
    /\ Chained(nx, pv, own, pos, s, f, l)

(* Rung n, of no section, linked in after rung c: its own links, those of  *)
(* its neighbours, the end and the order.                                  *)
PutAfter(nx, pv, own, pos, s, f, l, c, n, nx2, pv2, own2, pos2, l2) ==
    /\ ChainOf(nx, pv, own, pos, s, f, l)
    /\ c \in Rungs /\ n \in Rungs
    /\ own[c] = s /\ own[n] = None
    /\ c # l => nx[n] = nx[c] /\ pv2[nx[c]] = n
    /\ pv2[n] = c
    /\ l2 = IF c = l THEN n ELSE l
    /\ \A r \in Rungs :
          /\ own[r] = s /\ (c = l \/ r # nx[c]) => pv2[r] = pv[r]
          /\ nx2[r] = IF r = c THEN n ELSE nx[r]
          /\ own2[r] = IF r = n THEN s ELSE own[r]
          /\ pos2[r] = IF r = n THEN pos[c] + 1
                       ELSE IF own[r] = s /\ pos[r] > pos[c] THEN pos[r] + 1 ELSE pos[r]

LEMMA LinkedAfter ==
  ASSUME NEW nx, NEW pv, NEW own, NEW pos, NEW s, NEW f, NEW l, NEW c, NEW n,
         NEW nx2, NEW pv2, NEW own2, NEW pos2, NEW l2,
         PutAfter(nx, pv, own, pos, s, f, l, c, n, nx2, pv2, own2, pos2, l2)
  PROVE  Chained(nx2, pv2, own2, pos2, s, f, l2)
<1> USE DEF PutAfter, ChainOf
<1>0. None \notin Sections /\ None \notin Rungs
  BY DEF None, Sections, Rungs
<1>1. n # c /\ n # f /\ n # l
  BY <1>0 DEF Chained
<1>2. own2[f] = s /\ own2[l2] = s
  BY <1>1 DEF Chained
<1>3. ASSUME NEW r \in Rungs, own2[r] = s, r # l2
      PROVE  /\ nx2[r] \in Rungs /\ own2[nx2[r]] = s /\ nx2[r] # f
             /\ pv2[nx2[r]] = r /\ pos2[r] < pos2[nx2[r]]
  <2>1. CASE r = n
    <3>1. c # l /\ nx2[r] = nx[c]
      BY <1>1, <1>3, <2>1
    <3>2. nx[c] \in Rungs /\ own[nx[c]] = s /\ nx[c] # f /\ pos[c] < pos[nx[c]]
      BY <3>1 DEF Chained
    <3>3. nx[c] # n
      BY <1>0, <3>2
    <3> QED
      BY <2>1, <3>1, <3>2, <3>3
  <2>2. CASE r = c
    BY <1>0, <1>1, <2>2
  <2>3. CASE r # n /\ r # c
    <3>1. own[r] = s /\ r # l /\ nx2[r] = nx[r]
      BY <1>0, <1>3, <2>3
    <3>2. nx[r] \in Rungs /\ own[nx[r]] = s /\ nx[r] # f /\ pv[nx[r]] = r /\ pos[r] < pos[nx[r]]
      BY <3>1 DEF Chained
    <3>3. c # l => nx[r] # nx[c]
      BY <2>3, <3>2 DEF Chained
    <3>4. nx[r] # n
      BY <1>0, <3>2
    <3> QED
      BY <2>3, <3>1, <3>2, <3>3, <3>4
  <2> QED
    BY <2>1, <2>2, <2>3
<1>4. ASSUME NEW r \in Rungs, own2[r] = s, r # f
      PROVE  pv2[r] \in Rungs /\ own2[pv2[r]] = s /\ pv2[r] # l2 /\ nx2[pv2[r]] = r
  <2>1. CASE r = n
    BY <1>0, <1>1, <2>1
  <2>2. CASE r # n /\ c # l /\ r = nx[c]
    BY <1>0, <1>1, <2>2
  <2>3. CASE r # n /\ (c = l \/ r # nx[c])
    <3>1. own[r] = s /\ pv2[r] = pv[r]
      BY <1>4, <2>3
    <3>2. pv[r] \in Rungs /\ own[pv[r]] = s /\ pv[r] # l /\ nx[pv[r]] = r
      BY <1>4, <3>1 DEF Chained
    <3>3. pv[r] # c /\ pv[r] # n
      BY <1>0, <2>3, <3>2
    <3> QED
      BY <3>1, <3>2, <3>3
  <2> QED
    BY <2>1, <2>2, <2>3
<1> QED
  BY <1>2, <1>3, <1>4 DEF Chained

PutBefore(nx, pv, own, pos, s, f, l, c, n, nx2, pv2, own2, pos2, f2) ==
    /\ ChainOf(nx, pv, own, pos, s, f, l)
    /\ c \in Rungs /\ n \in Rungs
    /\ own[c] = s /\ own[n] = None
    /\ nx[n] = c /\ (c # f => pv[n] = pv[c])
    /\ f2 = IF c = f THEN n ELSE f
    /\ \A r \in Rungs :
          /\ nx2[r] = IF c # f /\ r = pv[c] THEN n ELSE nx[r]
          /\ pv2[r] = IF r = c THEN n ELSE pv[r]
          /\ own2[r] = IF r = n THEN s ELSE own[r]
          /\ pos2[r] = IF r = n THEN pos[c]
                       ELSE IF own[r] = s /\ pos[r] >= pos[c] THEN pos[r] + 1 ELSE pos[r]

LEMMA LinkedBefore ==
  ASSUME NEW nx, NEW pv, NEW own, NEW pos, NEW s, NEW f, NEW l, NEW c, NEW n,
         NEW nx2, NEW pv2, NEW own2, NEW pos2, NEW f2,
         PutBefore(nx, pv, own, pos, s, f, l, c, n, nx2, pv2, own2, pos2, f2)
  PROVE  Chained(nx2, pv2, own2, pos2, s, f2, l)
<1> USE DEF PutBefore, ChainOf
<1>0. None \notin Sections /\ None \notin Rungs
  BY DEF None, Sections, Rungs
<1>1. n # c /\ n # f /\ n # l
  BY <1>0 DEF Chained
<1>2. own2[f2] = s /\ own2[l] = s
  BY <1>1 DEF Chained
<1>b. c # f => /\ pv[c] \in Rungs /\ own[pv[c]] = s /\ pv[c] # l /\ nx[pv[c]] = c
               /\ pv[c] # n /\ pos[pv[c]] < pos[c]
  <2> SUFFICES ASSUME c # f
               PROVE  /\ pv[c] \in Rungs /\ own[pv[c]] = s /\ pv[c] # l /\ nx[pv[c]] = c
                      /\ pv[c] # n /\ pos[pv[c]] < pos[c]
    OBVIOUS
  <2>1. pv[c] \in Rungs /\ own[pv[c]] = s /\ pv[c] # l /\ nx[pv[c]] = c
    BY DEF Chained
  <2>2. pos[pv[c]] < pos[c]
    BY <2>1 DEF Chained
  <2> QED
    BY <1>0, <2>1, <2>2
<1>3. ASSUME NEW r \in Rungs, own2[r] = s, r # l
      PROVE  /\ nx2[r] \in Rungs /\ own2[nx2[r]] = s /\ nx2[r] # f2
             /\ pv2[nx2[r]] = r /\ pos2[r] < pos2[nx2[r]]
  <2>1. CASE r = n
    <3>1. nx2[r] = c
      BY <1>b, <2>1
    <3> QED
      BY <1>1, <2>1, <3>1
  <2>2. CASE c # f /\ r = pv[c]
    <3>1. nx2[r] = n /\ pv2[n] = pv[c] /\ pos2[n] = pos[c] /\ own2[n] = s /\ n # f2
      BY <1>b, <1>1, <2>2
    <3>2. pos2[r] = pos[r]
      BY <1>b, <2>2
    <3> QED
      BY <1>b, <2>2, <3>1, <3>2
  <2>3. CASE r # n /\ (c = f \/ r # pv[c])
    <3>1. own[r] = s /\ r # l /\ nx2[r] = nx[r]
      BY <1>0, <1>3, <2>3
    <3>2. nx[r] \in Rungs /\ own[nx[r]] = s /\ nx[r] # f /\ pv[nx[r]] = r /\ pos[r] < pos[nx[r]]
      BY <3>1 DEF Chained
    <3>3. nx[r] # c /\ nx[r] # n
      BY <1>0, <2>3, <3>2
    <3>4. pos2[r] < pos2[nx[r]]
      BY <2>3, <3>1, <3>2, <3>3
    <3> QED
      BY <2>3, <3>1, <3>2, <3>3, <3>4
  <2> QED
    BY <2>1, <2>2, <2>3
<1>4. ASSUME NEW r \in Rungs, own2[r] = s, r # f2
      PROVE  pv2[r] \in Rungs /\ own2[pv2[r]] = s /\ pv2[r] # l /\ nx2[pv2[r]] = r
  <2>1. CASE r = n
    <3>1. c # f /\ pv2[r] = pv[c]
      BY <1>1, <1>4, <2>1
    <3> QED
      BY <1>b, <2>1, <3>1
  <2>2. CASE r = c
    <3>1. nx2[n] = c
      BY <1>b
    <3> QED
      BY <1>1, <2>2, <3>1
  <2>3. CASE r # n /\ r # c
    <3>1. own[r] = s /\ pv2[r] = pv[r]
      BY <1>4, <2>3
    <3>2. r # f
      BY <1>4, <2>3
    <3>3. pv[r] \in Rungs /\ own[pv[r]] = s /\ pv[r] # l /\ nx[pv[r]] = r
      BY <3>1, <3>2 DEF Chained
    <3>4. pv[r] # n /\ (c # f => pv[r] # pv[c])
      BY <1>0, <1>b, <2>3, <3>3
    <3> QED
      BY <3>1, <3>3, <3>4
  <2> QED
    BY <2>1, <2>2, <2>3
<1> QED
  BY <1>2, <1>3, <1>4 DEF Chained

TakeOut(nx, pv, own, pos, s, f, l, r, nx2, pv2, own2, f2, l2) ==
    /\ ChainOf(nx, pv, own, pos, s, f, l)
    /\ r \in Rungs
    /\ own[r] = s /\ f # l
    /\ f2 = IF r = f THEN nx[r] ELSE f
    /\ l2 = IF r = l THEN pv[r] ELSE l
    /\ \A q \in Rungs :
          /\ nx2[q] = IF r # f /\ q = pv[r] THEN nx[r] ELSE nx[q]
          /\ pv2[q] = IF r # l /\ q = nx[r] THEN pv[r] ELSE pv[q]
          /\ own2[q] = IF q = r THEN None ELSE own[q]

LEMMA TakenOut ==
  ASSUME NEW nx, NEW pv, NEW own, NEW pos, NEW s, NEW f, NEW l, NEW r,
         NEW nx2, NEW pv2, NEW own2, NEW f2, NEW l2,
         TakeOut(nx, pv, own, pos, s, f, l, r, nx2, pv2, own2, f2, l2)
  PROVE  Chained(nx2, pv2, own2, pos, s, f2, l2)
<1> USE DEF TakeOut, ChainOf
<1>0. None \notin Sections /\ None \notin Rungs
  BY DEF None, Sections, Rungs
<1>1. r # l => /\ nx[r] \in Rungs /\ own[nx[r]] = s /\ nx[r] # f
               /\ pv[nx[r]] = r /\ pos[r] < pos[nx[r]] /\ nx[r] # r
  BY DEF Chained
<1>2. r # f => /\ pv[r] \in Rungs /\ own[pv[r]] = s /\ pv[r] # l /\ nx[pv[r]] = r
  BY DEF Chained
<1>3. r # f => pv[r] # r /\ pos[pv[r]] < pos[r]
  BY <1>2 DEF Chained
<1>4. own2[f2] = s /\ own2[l2] = s
  BY <1>0, <1>1, <1>2, <1>3 DEF Chained
<1>5. ASSUME NEW q \in Rungs, own2[q] = s, q # l2
      PROVE  /\ nx2[q] \in Rungs /\ own2[nx2[q]] = s /\ nx2[q] # f2
             /\ pv2[nx2[q]] = q /\ pos[q] < pos[nx2[q]]
  <2>0. q # r /\ own[q] = s
    BY <1>0, <1>5
  <2>1. CASE r # f /\ q = pv[r]
    <3>1. r # l /\ nx2[q] = nx[r] /\ pv2[nx[r]] = pv[r]
      BY <1>1, <1>2, <1>5, <2>1
    <3>2. pos[q] < pos[nx[r]]
      BY <1>1, <1>2, <1>3, <2>1, <3>1
    <3> QED
      BY <1>1, <2>0, <2>1, <3>1, <3>2
  <2>2. CASE r = f \/ q # pv[r]
    <3>1. nx2[q] = nx[q]
      BY <2>2
    <3>2. q # l
      BY <1>5, <2>0
    <3>3. nx[q] \in Rungs /\ own[nx[q]] = s /\ nx[q] # f /\ pv[nx[q]] = q /\ pos[q] < pos[nx[q]]
      BY <2>0, <3>2 DEF Chained
    <3>4. nx[q] # r
      BY <1>2, <2>2, <3>3
    <3>5. r # l => nx[q] # nx[r]
      BY <1>1, <2>0, <3>3
    <3>6. nx[q] # f2
      BY <3>3, <3>5
    <3> QED
      BY <3>1, <3>3, <3>4, <3>5, <3>6
  <2> QED
    BY <2>1, <2>2
<1>6. ASSUME NEW q \in Rungs, own2[q] = s, q # f2
      PROVE  pv2[q] \in Rungs /\ own2[pv2[q]] = s /\ pv2[q] # l2 /\ nx2[pv2[q]] = q
  <2>0. q # r /\ own[q] = s
    BY <1>0, <1>6
  <2>1. CASE r # l /\ q = nx[r]
    <3>1. r # f /\ pv2[q] = pv[r] /\ nx2[pv[r]] = nx[r]
      BY <1>1, <1>2, <1>6, <2>1
    <3> QED
      BY <1>2, <1>3, <2>1, <3>1
  <2>2. CASE r = l \/ q # nx[r]
    <3>1. pv2[q] = pv[q]
      BY <2>2
    <3>2. q # f
      BY <1>6, <2>0
    <3>3. pv[q] \in Rungs /\ own[pv[q]] = s /\ pv[q] # l /\ nx[pv[q]] = q
      BY <2>0, <3>2 DEF Chained
    <3>4. pv[q] # r
      BY <2>2, <3>3
    <3>5. r # f => pv[q] # pv[r]
      BY <1>2, <2>0, <3>3
    <3>6. pv[q] # l2
      BY <3>3, <3>5, <1>4, <2>0
    <3> QED
      BY <3>1, <3>3, <3>4, <3>5, <3>6
  <2> QED
    BY <2>1, <2>2
<1> QED
  BY <1>4, <1>5, <1>6 DEF Chained

-----------------------------------------------------------------------------
LEMMA EndsTyped ==
  ASSUME TypeOK, NEW s \in Sections
  PROVE  FirstOf(s) \in Rungs /\ LastOf(s) \in Rungs
BY DEF FirstOf, LastOf, TypeOK, SectionType

LEMMA OfOwned == IInv => OwnersMet
<1> SUFFICES ASSUME IInv, NEW own \in [Rungs -> Sections \cup {None}],
                    NEW pos \in [Rungs -> Nat], Owned(own, pos), NEW s \in Sections
             PROVE  Of(s) = {r \in Rungs : own[r] = s}
  BY DEF OwnersMet
<1>1. CASE IsLadder(s)
  <2>1. Chained(next, Back, own, pos, s, FirstOf(s), LastOf(s))
    BY <1>1 DEF Owned
  <2>2. FirstOf(s) \in Rungs /\ LastOf(s) \in Rungs /\ next \in [Rungs -> Links]
    BY EndsTyped DEF IInv, TypeOK
  <2> QED
    BY <1>1, <2>1, <2>2, MetIsOwned DEF Of
<1>2. CASE ~IsLadder(s)
  BY <1>2 DEF Owned, Of, None, Sections
<1> QED
  BY <1>1, <1>2

LEMMA OfOwnedNext == IInv' => OwnersMet'
BY OfOwned, PTL

(* While the editor rests, SectionArray has the ends of every section.     *)
LEMMA EndsCopied ==
  ASSUME IInv, Idle, NEW s \in Sections, IsLadder(s)
  PROVE  FirstOf(s) = sections[s].first /\ LastOf(s) = sections[s].last
BY DEF IInv, Pending, Idle, IsLadder, FirstOf, LastOf

LEMMA OwnedRungs ==
  ASSUME IInv, Idle, NEW own \in [Rungs -> Sections \cup {None}],
         NEW pos \in [Rungs -> Nat], Owned(own, pos), NEW s \in Sections
  PROVE  RungsOf(s) = {r \in Rungs : own[r] = s}
<1>1. CASE IsLadder(s)
  <2>1. Chained(next, Back, own, pos, s, sections[s].first, sections[s].last)
    BY <1>1, EndsCopied DEF Owned
  <2>2. /\ sections[s].first \in Rungs /\ sections[s].last \in Rungs
        /\ next \in [Rungs -> Links]
    BY DEF IInv, TypeOK, SectionType
  <2> QED
    BY <1>1, <2>1, <2>2, MetIsOwned DEF RungsOf
<1>2. CASE ~IsLadder(s)
  BY <1>2 DEF Owned, RungsOf, None, Sections
<1> QED
  BY <1>1, <1>2

LEMMA OwnedDisplayed ==
  ASSUME IInv, IsLadder(infos.section), NEW own \in [Rungs -> Sections \cup {None}],
         NEW pos \in [Rungs -> Nat], Owned(own, pos)
  PROVE  Displayed = {r \in Rungs : own[r] = infos.section}
<1>1. infos.section \in Sections /\ infos.first \in Rungs /\ infos.last \in Rungs
      /\ next \in [Rungs -> Links]
  BY DEF IInv, TypeOK
<1>2. Chained(next, Back, own, pos, infos.section, infos.first, infos.last)
  BY <1>1 DEF Owned, FirstOf, LastOf
<1> QED
  BY <1>1, <1>2, MetIsOwned DEF Displayed

LEMMA IInvOwned == IInv => RungsOwned
<1> SUFFICES ASSUME IInv, Idle
             PROVE  /\ \A r \in Rungs : used[r] <=> \E s \in Sections : r \in RungsOf(s)
                    /\ \A s, t \in Sections : s = t \/ RungsOf(s) \cap RungsOf(t) = {}
  BY DEF RungsOwned
<1>1. PICK own \in [Rungs -> Sections \cup {None}], pos \in [Rungs -> Nat] : Owned(own, pos)
  BY DEF IInv
<1>2. \A s \in Sections : RungsOf(s) = {r \in Rungs : own[r] = s}
  BY <1>1, OwnedRungs
<1>3. \A r \in Rungs : used[r] <=> own[r] # None
  BY <1>1 DEF Owned, Linking, Idle
<1>4. None \notin Sections
  BY DEF None, Sections
<1> QED
  BY <1>1, <1>2, <1>3, <1>4

LEMMA InitIInv == Init => IInv
<1> SUFFICES ASSUME Init PROVE IInv
  OBVIOUS
<1> DEFINE own == [r \in Rungs |-> IF r = 0 THEN 0 ELSE None]
           pos == [r \in Rungs |-> 0]
<1>0. /\ 0 \in Rungs /\ 0 \in Sections /\ None \notin Sections /\ None \notin Rungs
  BY NumbersAssumption DEF Rungs, Sections, None
<1>1. \A s \in Sections : sections[s] =
         [used |-> s = 0, ladder |-> TRUE, sub |-> None, first |-> 0, last |-> 0]
  BY DEF Init, NewSection
<1>2. TypeOK
  <2>1. ASSUME NEW s \in Sections PROVE sections[s] \in SectionType
    <3>1. (s = 0) \in BOOLEAN
      OBVIOUS
    <3> DEFINE b == s = 0
    <3>2. sections[s] = [used |-> b, ladder |-> TRUE, sub |-> None, first |-> 0, last |-> 0]
      BY <1>1
    <3> HIDE DEF b
    <3>3. b \in BOOLEAN
      BY <3>1 DEF b
    <3> QED
      BY <1>0, <3>2, <3>3 DEF SectionType
  <2> QED
    BY <1>0, <2>1 DEF Init, TypeOK, Links, NoEdit
<1>3. Pending
  BY <1>0, <1>1 DEF Init, Pending, NoEdit, Linking
<1>4. own \in [Rungs -> Sections \cup {None}] /\ pos \in [Rungs -> Nat]
  BY <1>0
<1>5. \A s \in Sections : IsLadder(s) <=> s = 0
  <2> TAKE s \in Sections
  <2> DEFINE b == s = 0
  <2>1. sections[s] = [used |-> b, ladder |-> TRUE, sub |-> None, first |-> 0, last |-> 0]
    BY <1>1
  <2>2. b <=> s = 0
    OBVIOUS
  <2> HIDE DEF b
  <2>3. sections[s].used = b /\ sections[s].ladder = TRUE
    BY <2>1
  <2> QED
    BY <2>2, <2>3, Zenon DEF IsLadder
<1>6. Chained(next, Back, own, pos, 0, 0, 0)
  BY <1>0 DEF Chained
<1>7. Owned(own, pos)
  <2>1. FirstOf(0) = 0 /\ LastOf(0) = 0
    BY <1>0, <1>1 DEF FirstOf, LastOf, Init
  <2> QED
    BY <1>0, <1>5, <1>6, <2>1 DEF Owned, Init, Linking
<1> QED
  BY <1>2, <1>3, <1>4, <1>7 DEF IInv

(* What a step keeps when it touches neither the links nor the ends.       *)
LEMMA OwnedKept ==
  ASSUME NEW own, NEW pos, Owned(own, pos), IInv,
         UNCHANGED << used, next, prev, sections, op >>, Idle,
         infos'.section \in Sections,
         IsLadder(infos'.section) => /\ own[infos'.current] = infos'.section
                                     /\ infos'.first = sections[infos'.section].first
                                     /\ infos'.last = sections[infos'.section].last
  PROVE  Owned(own, pos)'
<1>1. \A s \in Sections : IsLadder(s)' <=> IsLadder(s)
  BY DEF IsLadder
<1>2. Linking' = Linking /\ ~Linking
  BY DEF Linking, Idle
<1>3. Back' = Back
  <2>1. Back = prev /\ Back' = prev'
    BY DEF Back, Idle
  <2> QED
    BY <2>1
<1>4. ASSUME NEW s \in Sections, IsLadder(s)
      PROVE  FirstOf(s)' = FirstOf(s) /\ LastOf(s)' = LastOf(s)
  BY <1>4, EndsCopied DEF FirstOf, LastOf
<1>5. \A s \in Sections : IsLadder(s)' =>
          Chained(next', Back', own, pos, s, FirstOf(s)', LastOf(s)')
  BY <1>1, <1>3, <1>4 DEF Owned
<1>6. \A r \in Rungs : own[r] # None => IsLadder(own[r])'
  BY DEF Owned, IsLadder
<1>7. IsLadder(infos.section)' => own[infos'.current] = infos'.section
  BY DEF IsLadder
<1> QED
  BY <1>2, <1>5, <1>6, <1>7 DEF Owned

LEMMA QuietKeeps ==
  ASSUME IInv, UNCHANGED << used, next, prev, sections, infos, edit, op >>
  PROVE  IInv'
<1>1. TypeOK'
  BY DEF IInv, TypeOK
<1>2. Pending'
  BY DEF IInv, Pending, NewLinked, Linking
<1>3. PICK own \in [Rungs -> Sections \cup {None}], pos \in [Rungs -> Nat] : Owned(own, pos)
  BY DEF IInv
<1>4. Owned(own, pos)'
  <2>1. Back' = Back /\ Linking' = Linking
    BY DEF Back, Linking
  <2>2. \A s \in Sections :
           (IsLadder(s)' <=> IsLadder(s)) /\ FirstOf(s)' = FirstOf(s) /\ LastOf(s)' = LastOf(s)
    BY DEF IsLadder, FirstOf, LastOf
  <2>3. \A r \in Rungs : own[r] # None => IsLadder(own[r])'
    BY <1>3 DEF Owned, IsLadder
  <2>4. IsLadder(infos.section)' => own[infos'.current] = infos'.section
    BY <1>3 DEF Owned, IsLadder
  <2> QED
    BY <1>3, <2>1, <2>2, <2>3, <2>4 DEF Owned
<1> QED
  BY <1>1, <1>2, <1>4 DEF IInv

(* The operator looks at a section, opens an edit and gives it up.         *)
LEMMA LookingKeeps ==
  ASSUME IInv, ChoiceOfTheCurrentRung \/ SetSectionSelected
  PROVE  IInv' /\ \A t \in Sections : Of(t)' = Of(t)
<1>1. PICK own \in [Rungs -> Sections \cup {None}], pos \in [Rungs -> Nat] : Owned(own, pos)
  BY DEF IInv
<1>2. Idle /\ UNCHANGED << used, next, prev, sections, op >>
  BY DEF ChoiceOfTheCurrentRung, SetSectionSelected, rungs
<1>3. /\ infos' \in [first : Rungs, last : Rungs, current : Rungs, section : Sections]
      /\ sections[infos'.section].used
      /\ IsLadder(infos'.section) =>
           /\ own[infos'.current] = infos'.section
           /\ infos'.first = sections[infos'.section].first
           /\ infos'.last = sections[infos'.section].last
  <2>1. CASE ChoiceOfTheCurrentRung
    <3>1. PICK r \in Displayed : infos' = [infos EXCEPT !.current = r]
      BY <2>1 DEF ChoiceOfTheCurrentRung
    <3>2. r \in Rungs /\ own[r] = infos.section /\ IsLadder(infos.section)
      BY <1>1, <2>1, OwnedDisplayed DEF ChoiceOfTheCurrentRung
    <3>3. /\ infos'.section = infos.section /\ infos'.current = r
          /\ infos'.first = infos.first /\ infos'.last = infos.last
          /\ infos' \in [first : Rungs, last : Rungs, current : Rungs, section : Sections]
      BY <3>1, <3>2 DEF IInv, TypeOK
    <3> QED
      BY <1>2, <3>2, <3>3 DEF IInv, Pending, IsLadder, Idle
  <2>2. CASE SetSectionSelected
    <3>1. PICK s \in Sections : sections[s].used /\ infos' = Selected(s, sections[s])
      BY <2>2 DEF SetSectionSelected
    <3>2. sections[s].first \in Rungs /\ sections[s].last \in Rungs
      BY DEF IInv, TypeOK, SectionType
    <3>3. IsLadder(s) => own[sections[s].first] = s
      BY <1>1, <1>2, EndsCopied DEF Owned, Chained
    <3> QED
      BY <3>1, <3>2, <3>3 DEF Selected
  <2> QED
    BY <2>1, <2>2
<1>4. Owned(own, pos)'
  BY <1>1, <1>2, <1>3, OwnedKept
<1>5. edit' \in {edit, NoEdit}
  BY DEF ChoiceOfTheCurrentRung, SetSectionSelected
<1>6. 0 \in Rungs
  BY NumbersAssumption DEF Rungs
<1>7. TypeOK'
  BY <1>2, <1>3, <1>5, <1>6 DEF IInv, TypeOK, NoEdit, Links
<1>8. Pending'
  BY <1>2, <1>3, <1>5 DEF IInv, Pending, Idle, Linking, NoEdit, IsLadder
<1>z. IInv'
  BY <1>4, <1>7, <1>8 DEF IInv
<1> QED
  BY <1>z, <1>1, <1>4, OfOwned, OfOwnedNext DEF OwnersMet

LEMMA MinIsMember ==
  ASSUME NEW S \in SUBSET Nat, S # {}
  PROVE  Min(S) \in S
<1>1. [x \in S |-> x] \in [S -> Nat]
  OBVIOUS
<1>2. PICK x \in S : \A y \in S : [z \in S |-> z][x] <= [z \in S |-> z][y]
  BY <1>1, LeastOrder
<1>3. \A y \in S : x <= y
  BY <1>2
<1> QED
  BY <1>3 DEF Min

LEMMA FreeRungFound ==
  ASSUME FindFreeRung # None
  PROVE  FindFreeRung \in Rungs /\ ~used[FindFreeRung]
<1>1. FreeRungs # {} /\ FindFreeRung = Min(FreeRungs)
  BY DEF FindFreeRung
<1>2. FreeRungs \in SUBSET Nat
  BY DEF FreeRungs, Rungs
<1>3. FindFreeRung \in FreeRungs
  BY <1>1, <1>2, MinIsMember
<1> QED
  BY <1>3 DEF FreeRungs

LEMMA OpeningKeeps ==
  ASSUME IInv, AddRung \/ ModifyCurrentRung \/ CancelRungEdited \/ ApplyOnSequential
  PROVE  IInv' /\ \A t \in Sections : Of(t)' = Of(t)
<1>1. PICK own \in [Rungs -> Sections \cup {None}], pos \in [Rungs -> Nat] : Owned(own, pos)
  BY DEF IInv
<1>2. Idle /\ UNCHANGED << used, next, prev, sections, op, infos >>
  BY DEF AddRung, ModifyCurrentRung, CancelRungEdited, ApplyOnSequential, rungs
<1>3. Owned(own, pos)'
  <2>1. IsLadder(infos.section) => /\ own[infos.current] = infos.section
                                   /\ infos.first = sections[infos.section].first
                                   /\ infos.last = sections[infos.section].last
    BY <1>1, <1>2 DEF Owned, IInv, Pending, IsLadder, Idle
  <2>2. infos.section \in Sections
    BY DEF IInv, TypeOK
  <2> QED
    BY <1>1, <1>2, <2>1, <2>2, OwnedKept
<1>4. /\ edit'.mode \in {"none", "add", "insert", "modify"}
      /\ edit'.num \in Rungs /\ edit'.next \in Links /\ edit'.prev \in Links
      /\ edit'.mode \in {"add", "insert"} => ~used[edit'.num]
      /\ edit'.mode = "modify" => /\ used[edit'.num]
                                  /\ next[edit'.num] = edit'.next
                                  /\ prev[edit'.num] = edit'.prev
  <2>0. 0 \in Rungs /\ None \in Links
    BY NumbersAssumption DEF Rungs, Links
  <2>1. CASE AddRung
    <3>1. PICK mode \in {"add", "insert"} :
             edit' = [NoEdit EXCEPT !.mode = mode, !.num = FindFreeRung]
      BY <2>1 DEF AddRung
    <3>2. FindFreeRung \in Rungs /\ ~used[FindFreeRung]
      BY <2>1, FreeRungFound DEF AddRung
    <3> QED
      BY <2>0, <3>1, <3>2 DEF NoEdit
  <2>2. CASE ModifyCurrentRung
    <3>1. infos.current \in Rungs /\ next \in [Rungs -> Links] /\ prev \in [Rungs -> Links]
      BY DEF IInv, TypeOK
    <3>2. used[infos.current]
      <4>1. own[infos.current] = infos.section /\ infos.section \in Sections
        BY <1>1, <2>2 DEF ModifyCurrentRung, Owned, IInv, TypeOK
      <4>2. infos.section # None
        BY <4>1 DEF None, Sections
      <4> QED
        BY <1>1, <3>1, <4>1, <4>2 DEF Owned
    <3> QED
      BY <2>2, <3>1, <3>2 DEF ModifyCurrentRung
  <2>3. CASE CancelRungEdited \/ ApplyOnSequential
    BY <2>0, <2>3 DEF CancelRungEdited, ApplyOnSequential, NoEdit
  <2> QED
    BY <2>1, <2>2, <2>3
<1>5. TypeOK'
  BY <1>2, <1>4 DEF IInv, TypeOK
<1>6. Pending'
  BY <1>2, <1>4 DEF IInv, Pending, Idle, Linking
<1>z. IInv'
  BY <1>3, <1>5, <1>6 DEF IInv
<1> QED
  BY <1>z, <1>1, <1>3, OfOwned, OfOwnedNext DEF OwnersMet

-----------------------------------------------------------------------------
(* The writes of the editor, on an engine that may be running.             *)
LEMMA ApplyKeeps ==
  ASSUME IInv, ApplyRungEdited
  PROVE  IInv' /\ \A t \in Sections : Of(t)' = Of(t)
<1> DEFINE n == edit.num
<1>1. PICK own \in [Rungs -> Sections \cup {None}], pos \in [Rungs -> Nat] : Owned(own, pos)
  BY DEF IInv
<1>2. /\ Idle /\ Editing /\ IsLadder(infos.section)
      /\ UNCHANGED << sections, infos, edit >>
      /\ used' = [used EXCEPT ![n] = TRUE]
      /\ next' = [next EXCEPT ![n] = edit.next]
      /\ prev' = [prev EXCEPT ![n] = edit.prev]
      /\ op' = IF edit.mode = "modify" THEN "first" ELSE "own"
  BY DEF ApplyRungEdited
<1>3. TypeOK
  BY DEF IInv
<1>4. TypeOK'
  BY <1>2, <1>3 DEF TypeOK
<1>5. edit.mode \in {"add", "insert", "modify"}
  BY <1>2, <1>3 DEF TypeOK, Editing
<1>6. Pending'
  <2>1. sections[infos.section].used /\ sections[infos.section].ladder
    BY <1>2 DEF IsLadder
  <2>2. op' = "own" => edit.mode \in {"add", "insert"}
    BY <1>2, <1>5
  <2>3. sections[infos.section].first = infos.first /\ sections[infos.section].last = infos.last
    BY <1>2, <2>1 DEF IInv, Pending, Idle
  <2> QED
    BY <1>2, <2>1, <2>2, <2>3 DEF Pending, Linking
<1>7. ~Linking /\ Back = prev /\ Back' = prev'
  BY <1>2 DEF Linking, Idle, Back
<1>8. \A s \in Sections :
         (IsLadder(s)' <=> IsLadder(s)) /\ FirstOf(s)' = FirstOf(s) /\ LastOf(s)' = LastOf(s)
  BY <1>2 DEF IsLadder, FirstOf, LastOf
<1>9. \A r \in Rungs : own[r] # None => IsLadder(own[r])'
  BY <1>1, <1>2 DEF Owned, IsLadder
<1>10. IsLadder(infos.section)' => own[infos'.current] = infos'.section
  BY <1>1, <1>2 DEF Owned, IsLadder
<1>11. CASE edit.mode = "modify"
  <2>1. next' = next /\ prev' = prev /\ used' = used /\ op' = "first"
    BY <1>2, <1>3, <1>11 DEF IInv, Pending, Idle, TypeOK
  <2>2. ~Linking'
    BY <2>1 DEF Linking
  <2>3. Owned(own, pos)'
    BY <1>1, <1>7, <1>8, <1>9, <1>10, <2>1, <2>2 DEF Owned
  <2>z. IInv'
    BY <1>4, <1>6, <2>3 DEF IInv
  <2> QED
    BY <2>z, <1>1, <2>3, OfOwned, OfOwnedNext DEF OwnersMet
<1>12. CASE edit.mode \in {"add", "insert"}
  <2>1. ~used[n] /\ op' = "own" /\ n \in Rungs
    BY <1>2, <1>3, <1>12 DEF IInv, Pending, Idle, TypeOK
  <2>2. own[n] = None
    BY <1>1, <1>7, <2>1 DEF Owned
  <2>3. None \notin Sections
    BY DEF None, Sections
  <2>4. ASSUME NEW s \in Sections, IsLadder(s)
        PROVE  Chained(next', Back', own, pos, s, FirstOf(s)', LastOf(s)')
    <3>1. Chained(next, prev, own, pos, s, FirstOf(s), LastOf(s))
      BY <1>1, <1>7, <2>4 DEF Owned
    <3>2. \A r \in Rungs : own[r] = s => next'[r] = next[r] /\ prev'[r] = prev[r]
      BY <1>2, <1>3, <2>2, <2>3 DEF TypeOK
    <3>3. FirstOf(s) \in Rungs /\ LastOf(s) \in Rungs
      BY <1>3 DEF FirstOf, LastOf, TypeOK, SectionType
    <3>4. Chained(next', prev', own, pos, s, FirstOf(s), LastOf(s))
      BY <3>1, <3>2, <3>3, ChainKept
    <3> QED
      BY <1>7, <1>8, <3>4
  <2>5. Linking'
    BY <2>1 DEF Linking
  <2>6. \A r \in Rungs : used'[r] <=> own[r] # None \/ r = n
    BY <1>1, <1>2, <1>3, <1>7, <2>1 DEF Owned, TypeOK
  <2>7. Owned(own, pos)'
    BY <1>1, <1>2, <1>8, <1>9, <1>10, <2>2, <2>4, <2>5, <2>6 DEF Owned
  <2>z. IInv'
    BY <1>4, <1>6, <2>7 DEF IInv
  <2> QED
    BY <2>z, <1>1, <2>7, OfOwned, OfOwnedNext DEF OwnersMet
<1> QED
  BY <1>5, <1>11, <1>12

LEMMA LinkOwnKeeps ==
  ASSUME IInv, LinkOwn
  PROVE  IInv' /\ \A t \in Sections : Of(t)' = Of(t)
<1> DEFINE n == edit.num
           c == infos.current
           s == infos.section
<1>1. PICK own \in [Rungs -> Sections \cup {None}], pos \in [Rungs -> Nat] : Owned(own, pos)
  BY DEF IInv
<1>2. /\ op = "own" /\ op' = "in"
      /\ UNCHANGED << used, sections, infos, edit >>
  BY DEF LinkOwn
<1>3. TypeOK /\ s \in Sections /\ n \in Rungs /\ c \in Rungs
  BY DEF IInv, TypeOK
<1>0. None \notin Sections /\ None \notin Rungs
  BY DEF None, Sections, Rungs
<1>4. /\ edit.mode \in {"add", "insert"} /\ Linking /\ Linking' /\ own[n] = None
      /\ IsLadder(s) /\ own[c] = s /\ n # c
  <2>1. edit.mode \in {"add", "insert"} /\ Linking /\ Linking' /\ IsLadder(s)
    BY <1>2 DEF IInv, Pending, Linking, IsLadder
  <2> QED
    BY <1>0, <1>1, <1>3, <2>1 DEF Owned
<1>5. Back = prev
  BY <1>2 DEF Back
<1>6. Chained(next, prev, own, pos, s, infos.first, infos.last)
  BY <1>1, <1>3, <1>4, <1>5 DEF Owned, FirstOf, LastOf
<1>7. /\ c # infos.last => /\ next[c] \in Rungs /\ own[next[c]] = s /\ prev[next[c]] = c
                           /\ next[c] # n
      /\ c # infos.first => /\ prev[c] \in Rungs /\ own[prev[c]] = s /\ prev[c] # n
  BY <1>0, <1>3, <1>4, <1>6 DEF Chained
<1>8. /\ next' \in [Rungs -> Links] /\ prev' \in [Rungs -> Links]
      /\ \A r \in Rungs : own[r] # None => next'[r] = next[r] /\ Back'[r] = prev[r]
      /\ NewLinked'
  <2>1. CASE edit.mode = "add" /\ c = infos.last
    <3>1. prev' = [prev EXCEPT ![n] = c] /\ next' = next
      BY <2>1 DEF LinkOwn
    <3>2. Back' = prev'
      BY <1>2, <2>1 DEF Back
    <3> QED
      BY <1>2, <1>3, <1>4, <2>1, <3>1, <3>2 DEF TypeOK, Links, NewLinked
  <2>2. CASE edit.mode = "add" /\ c # infos.last
    <3>1. prev' = [prev EXCEPT ![n] = c, ![next[c]] = n] /\ next' = [next EXCEPT ![n] = next[c]]
      BY <2>2 DEF LinkOwn
    <3>2. next'[c] = next[c] /\ next'[n] = next[c]
      BY <1>3, <1>4, <3>1 DEF TypeOK
    <3>3. Back' = [prev' EXCEPT ![next[c]] = c]
      BY <1>2, <2>2, <3>2 DEF Back
    <3>4. prev'[n] = c /\ prev'[next[c]] = n
      BY <1>3, <1>7, <2>2, <3>1 DEF TypeOK
    <3>5. \A r \in Rungs : own[r] # None => Back'[r] = prev[r]
      BY <1>3, <1>4, <1>7, <2>2, <3>1, <3>3 DEF TypeOK
    <3>6. NewLinked'
      BY <1>2, <2>2, <3>2, <3>4 DEF NewLinked
    <3>7. \A r \in Rungs : own[r] # None => next'[r] = next[r]
      BY <1>3, <1>4, <3>1 DEF TypeOK
    <3> QED
      BY <1>3, <3>1, <3>5, <3>6, <3>7 DEF TypeOK, Links
  <2>3. CASE edit.mode = "insert"
    <3>1. /\ next' = [next EXCEPT ![n] = c]
          /\ prev' = IF c = infos.first THEN prev ELSE [prev EXCEPT ![n] = prev[c]]
      BY <2>3 DEF LinkOwn
    <3>2. Back' = prev'
      BY <1>2, <2>3 DEF Back
    <3>3. NewLinked'
      BY <1>2, <1>3, <1>4, <2>3, <3>1 DEF TypeOK, NewLinked
    <3> QED
      BY <1>3, <1>4, <3>1, <3>2, <3>3 DEF TypeOK, Links
  <2> QED
    BY <1>4, <2>1, <2>2, <2>3
<1>9. TypeOK'
  BY <1>2, <1>3, <1>8 DEF TypeOK
<1>10. Pending'
  BY <1>2, <1>4, <1>8 DEF IInv, Pending
<1>11. \A t \in Sections :
         (IsLadder(t)' <=> IsLadder(t)) /\ FirstOf(t)' = FirstOf(t) /\ LastOf(t)' = LastOf(t)
  BY <1>2 DEF IsLadder, FirstOf, LastOf
<1>12. ASSUME NEW t \in Sections, IsLadder(t)
       PROVE  Chained(next', Back', own, pos, t, FirstOf(t)', LastOf(t)')
  <2>1. Chained(next, prev, own, pos, t, FirstOf(t), LastOf(t))
    BY <1>1, <1>5, <1>12 DEF Owned
  <2>2. FirstOf(t) \in Rungs /\ LastOf(t) \in Rungs
    BY <1>3, EndsTyped
  <2>3. Chained(next', Back', own, pos, t, FirstOf(t), LastOf(t))
    BY <1>0, <1>8, <2>1, <2>2, ChainKept
  <2> QED
    BY <1>11, <2>3
<1>13. Owned(own, pos)'
  <2>1. \A r \in Rungs : own[r] # None => IsLadder(own[r])'
    BY <1>1, <1>2 DEF Owned, IsLadder
  <2> QED
    BY <1>1, <1>2, <1>4, <1>11, <1>12, <2>1 DEF Owned
<1>z. IInv'
  BY <1>9, <1>10, <1>13 DEF IInv
<1> QED
  BY <1>z, <1>1, <1>13, OfOwned, OfOwnedNext DEF OwnersMet

LEMMA LinkInKeeps ==
  ASSUME IInv, LinkIn
  PROVE  IInv' /\ \A t \in Sections : Of(t)' = IF t = infos.section THEN Of(t) \cup {edit.num} ELSE Of(t)
<1> DEFINE n == edit.num
           c == infos.current
           s == infos.section
           f == infos.first
           l == infos.last
<1>1. PICK own \in [Rungs -> Sections \cup {None}], pos \in [Rungs -> Nat] : Owned(own, pos)
  BY DEF IInv
<1>2. /\ op = "in" /\ op' = "first"
      /\ UNCHANGED << used, sections, edit >>
  BY DEF LinkIn
<1>3. /\ TypeOK /\ s \in Sections /\ n \in Rungs /\ c \in Rungs /\ f \in Rungs /\ l \in Rungs
      /\ next \in [Rungs -> Links] /\ prev \in [Rungs -> Links]
  BY DEF IInv, TypeOK
<1>0. None \notin Sections /\ None \notin Rungs
  BY DEF None, Sections, Rungs
<1>4. /\ edit.mode \in {"add", "insert"} /\ Linking /\ ~Linking' /\ own[n] = None
      /\ IsLadder(s) /\ own[c] = s /\ n # c /\ NewLinked
  <2>1. edit.mode \in {"add", "insert"} /\ Linking /\ ~Linking' /\ IsLadder(s) /\ NewLinked
    BY <1>2 DEF IInv, Pending, Linking, IsLadder
  <2> QED
    BY <1>0, <1>1, <1>3, <2>1 DEF Owned
<1>5. Chained(next, Back, own, pos, s, f, l)
  BY <1>1, <1>3, <1>4 DEF Owned, FirstOf, LastOf
<1>6. Displayed = {r \in Rungs : own[r] = s}
  BY <1>1, <1>4, OwnedDisplayed
<1>7. Back' = prev'
  BY <1>2 DEF Back
<1>8. c # l => next[c] \in Rungs /\ own[next[c]] = s
  BY <1>3, <1>4, <1>5 DEF Chained
<1>9. c # f => Back[c] \in Rungs /\ own[Back[c]] = s
  BY <1>3, <1>4, <1>5 DEF Chained
<1>a. PICK own2 \in [Rungs -> Sections \cup {None}] : own2 = [own EXCEPT ![n] = s]
  BY <1>3
<1>10. /\ next' \in [Rungs -> Links] /\ prev' \in [Rungs -> Links]
       /\ infos' \in [first : Rungs, last : Rungs, current : Rungs, section : Sections]
       /\ infos'.section = s
       /\ own2[infos'.current] = s
       /\ \E pos2 \in [Rungs -> Nat] :
             /\ \A r \in Rungs : own[r] # s /\ r # n => pos2[r] = pos[r]
             /\ Chained(next', prev', own2, pos2, s, infos'.first, infos'.last)
       /\ \A r \in Rungs : own[r] # s /\ own[r] # None => next'[r] = next[r] /\ prev'[r] = Back[r]
  <2>1. CASE edit.mode = "add"
    <3>1. next' = [next EXCEPT ![c] = n] /\ prev' = prev
      BY <2>1 DEF LinkIn
    <3>2. PICK r \in Displayed \cup {n} :
             infos' = [[infos EXCEPT !.last = IF c = l THEN n ELSE l] EXCEPT !.current = r]
      BY <2>1 DEF LinkIn, AutoSelect
    <3>3. /\ infos'.section = s /\ infos'.current = r /\ infos'.first = f
          /\ infos'.last = IF c = l THEN n ELSE l
          /\ infos' \in [first : Rungs, last : Rungs, current : Rungs, section : Sections]
      BY <1>3, <1>6, <3>2 DEF TypeOK
    <3>4. own2[r] = s
      BY <1>a, <1>3, <1>6
    <3>5. Back = IF c # l THEN [prev EXCEPT ![next[c]] = c] ELSE prev
      BY <1>2, <2>1 DEF Back
    <3>6. Back \in [Rungs -> Links]
      BY <1>3, <1>8, <3>5 DEF Links
    <3>7. prev[n] = c /\ (c # l => next[n] = next[c] /\ prev[next[c]] = n)
      BY <1>4, <2>1 DEF NewLinked
    <3>8. \A q \in Rungs : own[q] = s /\ (c = l \/ q # next[c]) => prev[q] = Back[q]
      BY <1>3, <3>5
    <3> DEFINE pos2 == [q \in Rungs |-> IF q = n THEN pos[c] + 1
                                        ELSE IF own[q] = s /\ pos[q] > pos[c] THEN pos[q] + 1
                                        ELSE pos[q]]
    <3>10. pos2 \in [Rungs -> Nat] /\ \A q \in Rungs : own[q] # s /\ q # n => pos2[q] = pos[q]
      BY <1>3
    <3>a. PutAfter(next, Back, own, pos, s, f, l, c, n, next', prev, own2, pos2, infos'.last)
      BY <1>a, <1>1, <1>3, <1>4, <1>5, <3>1, <3>3, <3>6, <3>7, <3>8 DEF PutAfter, ChainOf
    <3>9. Chained(next', prev, own2, pos2, s, f, infos'.last)
      <4> HIDE DEF pos2, n, c, s, f, l
      <4> QED
        BY <3>a, LinkedAfter
    <3> HIDE DEF pos2
    <3>11. \A q \in Rungs : own[q] # s /\ own[q] # None => next'[q] = next[q] /\ prev'[q] = Back[q]
      BY <1>3, <1>4, <1>8, <3>1, <3>5
    <3>12. next' \in [Rungs -> Links]
      BY <1>3, <3>1 DEF Links
    <3> QED
      BY <1>3, <3>1, <3>3, <3>4, <3>9, <3>10, <3>11, <3>12
  <2>2. CASE edit.mode = "insert"
    <3>1. /\ next' = IF c = f THEN next ELSE [next EXCEPT ![prev[c]] = n]
          /\ prev' = [prev EXCEPT ![c] = n]
      BY <2>2 DEF LinkIn
    <3>2. PICK r \in Displayed \cup {n} :
             infos' = [[infos EXCEPT !.first = IF c = f THEN n ELSE f] EXCEPT !.current = r]
      BY <2>2 DEF LinkIn, AutoSelect
    <3>3. /\ infos'.section = s /\ infos'.current = r /\ infos'.last = l
          /\ infos'.first = IF c = f THEN n ELSE f
          /\ infos' \in [first : Rungs, last : Rungs, current : Rungs, section : Sections]
      BY <1>3, <1>6, <3>2 DEF TypeOK
    <3>4. own2[r] = s
      BY <1>a, <1>3, <1>6
    <3>5. Back = prev
      BY <2>2 DEF Back
    <3>7. next[n] = c /\ (c # f => prev[n] = prev[c])
      BY <1>4, <2>2 DEF NewLinked
    <3> DEFINE pos2 == [q \in Rungs |-> IF q = n THEN pos[c]
                                        ELSE IF own[q] = s /\ pos[q] >= pos[c] THEN pos[q] + 1
                                        ELSE pos[q]]
    <3>10. pos2 \in [Rungs -> Nat] /\ \A q \in Rungs : own[q] # s /\ q # n => pos2[q] = pos[q]
      BY <1>3
    <3>a. PutBefore(next, prev, own, pos, s, f, l, c, n, next', prev', own2, pos2, infos'.first)
      BY <1>a, <1>1, <1>3, <1>4, <1>5, <3>1, <3>3, <3>5, <3>7 DEF PutBefore, ChainOf
    <3>9. Chained(next', prev', own2, pos2, s, infos'.first, l)
      <4> HIDE DEF pos2, n, c, s, f, l
      <4> QED
        BY <3>a, LinkedBefore
    <3> HIDE DEF pos2
    <3>11. \A q \in Rungs : own[q] # s /\ own[q] # None => next'[q] = next[q] /\ prev'[q] = Back[q]
      BY <1>3, <1>4, <1>9, <3>1, <3>5
    <3>12. next' \in [Rungs -> Links] /\ prev' \in [Rungs -> Links]
      BY <1>3, <3>1 DEF Links
    <3> QED
      BY <1>3, <3>1, <3>3, <3>4, <3>9, <3>10, <3>11, <3>12
  <2> QED
    BY <1>4, <2>1, <2>2
<1>11. TypeOK'
  BY <1>2, <1>3, <1>10 DEF TypeOK
<1>12. Pending'
  <2>1. sections[s].used /\ sections[s].ladder
    BY <1>4 DEF IsLadder
  <2> QED
    BY <1>2, <1>4, <1>10, <2>1 DEF Pending
<1>13. PICK pos2 \in [Rungs -> Nat] :
             /\ \A r \in Rungs : own[r] # s /\ r # n => pos2[r] = pos[r]
             /\ Chained(next', prev', own2, pos2, s, infos'.first, infos'.last)
  BY <1>10
<1>14. Owned(own2, pos2)'
  <2>1. \A r \in Rungs : used'[r] <=> own2[r] # None
    BY <1>a, <1>0, <1>1, <1>2, <1>3, <1>4 DEF Owned
  <2>2. \A r \in Rungs : own2[r] # None => IsLadder(own2[r])'
    BY <1>a, <1>1, <1>2, <1>3, <1>4 DEF Owned, IsLadder
  <2>3. ASSUME NEW t \in Sections, IsLadder(t)'
        PROVE  Chained(next', Back', own2, pos2, t, FirstOf(t)', LastOf(t)')
    <3>1. CASE t = s
      BY <1>7, <1>10, <1>13, <3>1 DEF FirstOf, LastOf
    <3>2. CASE t # s
      <4>1. Chained(next, Back, own, pos, t, FirstOf(t), LastOf(t))
        BY <1>1, <1>2, <2>3 DEF Owned, IsLadder
      <4>2. FirstOf(t) \in Rungs /\ LastOf(t) \in Rungs
        BY <1>3, EndsTyped
      <4>3. \A r \in Rungs : own2[r] = t <=> own[r] = t
        BY <1>a, <1>0, <1>3, <1>4, <3>2
      <4>4. \A r \in Rungs : own[r] = t =>
               next'[r] = next[r] /\ prev'[r] = Back[r] /\ pos2[r] = pos[r]
        BY <1>0, <1>4, <1>10, <1>13, <3>2
      <4>5. Chained(next', prev', own2, pos2, t, FirstOf(t), LastOf(t))
        BY <4>1, <4>2, <4>3, <4>4, ChainKept
      <4>6. FirstOf(t)' = FirstOf(t) /\ LastOf(t)' = LastOf(t)
        BY <1>2, <1>10, <3>2 DEF FirstOf, LastOf
      <4> QED
        BY <1>7, <4>5, <4>6
    <3> QED
      BY <3>1, <3>2
  <2> QED
    BY <1>4, <1>10, <2>1, <2>2, <2>3 DEF Owned
<1>z. IInv'
  BY <1>11, <1>12, <1>14 DEF IInv
<1>y. \A t \in Sections : /\ Of(t) = {x \in Rungs : own[x] = t}
                             /\ Of(t)' = {x \in Rungs : own2[x] = t}
  BY <1>1, <1>z, <1>14, OfOwned, OfOwnedNext DEF OwnersMet
<1>x. ASSUME NEW t \in Sections
      PROVE  Of(t)' = IF t = s THEN Of(t) \cup {n} ELSE Of(t)
  <2>1. \A x \in Rungs : own2[x] = t <=> own[x] = t \/ (t = s /\ x = n)
    BY <1>0, <1>a, <1>1, <1>3, <1>4, <1>5
  <2>2. CASE t = s
    <3>1. Of(t)' = Of(t) \cup {n}
      BY <1>3, <1>y, <2>1, <2>2
    <3> QED
      BY <2>2, <3>1
  <2>3. CASE t # s
    <3>1. Of(t)' = Of(t)
      BY <1>3, <1>y, <2>1, <2>3, ZenonT(60)
    <3> QED
      BY <2>3, <3>1
  <2> QED
    BY <2>2, <2>3
<1> QED
  BY <1>x, <1>z

LEMMA DeleteKeeps ==
  ASSUME IInv, DeleteCurrentRung
  PROVE  IInv' /\ \A t \in Sections : Of(t)' = Of(t) \ {infos.current}
<1> DEFINE r == infos.current
           s == infos.section
           f == infos.first
           l == infos.last
<1>1. PICK own \in [Rungs -> Sections \cup {None}], pos \in [Rungs -> Nat] : Owned(own, pos)
  BY DEF IInv
<1>0. None \notin Sections /\ None \notin Rungs
  BY DEF None, Sections, Rungs
<1>2. /\ Idle /\ edit.mode = "none" /\ IsLadder(s) /\ f # l /\ op' = "first"
      /\ UNCHANGED << sections, edit >>
      /\ next' = IF r = f THEN next ELSE [next EXCEPT ![prev[r]] = next[r]]
      /\ prev' = IF r = l THEN prev ELSE [prev EXCEPT ![next[r]] = prev[r]]
      /\ used' = [used EXCEPT ![r] = FALSE]
  BY DEF DeleteCurrentRung, Editing
<1>3. /\ TypeOK /\ s \in Sections /\ r \in Rungs /\ f \in Rungs /\ l \in Rungs
      /\ next \in [Rungs -> Links] /\ prev \in [Rungs -> Links]
  BY DEF IInv, TypeOK
<1>4. ~Linking /\ ~Linking' /\ Back = prev /\ Back' = prev'
  BY <1>2 DEF Linking, Idle, Back
<1>5. own[r] = s /\ Chained(next, prev, own, pos, s, f, l)
  BY <1>1, <1>2, <1>3, <1>4 DEF Owned, FirstOf, LastOf
<1>6. /\ r # l => next[r] \in Rungs /\ own[next[r]] = s
      /\ r # f => prev[r] \in Rungs /\ own[prev[r]] = s
  BY <1>3, <1>5 DEF Chained
<1>7. Displayed = {q \in Rungs : own[q] = s}
  BY <1>1, <1>2, OwnedDisplayed
<1>8. PICK q \in Displayed \ {r} :
         infos' = [[infos EXCEPT !.first = IF r = f THEN next[r] ELSE f,
                                 !.last = IF r = l THEN prev[r] ELSE l] EXCEPT !.current = q]
  BY DEF DeleteCurrentRung, AutoSelect
<1>9. /\ infos'.section = s /\ infos'.current = q
      /\ infos'.first = IF r = f THEN next[r] ELSE f
      /\ infos'.last = IF r = l THEN prev[r] ELSE l
      /\ infos' \in [first : Rungs, last : Rungs, current : Rungs, section : Sections]
  BY <1>2, <1>3, <1>6, <1>7, <1>8 DEF TypeOK
<1>10. next' \in [Rungs -> Links] /\ prev' \in [Rungs -> Links]
  BY <1>2, <1>3, <1>6 DEF Links
<1>11. TypeOK'
  BY <1>2, <1>3, <1>9, <1>10 DEF TypeOK
<1>12. Pending'
  BY <1>2, <1>4, <1>9 DEF Pending, IsLadder
<1>a. PICK own2 \in [Rungs -> Sections \cup {None}] : own2 = [own EXCEPT ![r] = None]
  BY <1>3
<1>13. own2[q] = s
  BY <1>a, <1>3, <1>7
<1>14. TakeOut(next, prev, own, pos, s, f, l, r, next', prev', own2, infos'.first, infos'.last)
  BY <1>a, <1>1, <1>2, <1>3, <1>5, <1>9 DEF TakeOut, ChainOf
<1>15. Chained(next', prev', own2, pos, s, infos'.first, infos'.last)
  <2> HIDE DEF r, s, f, l
  <2> QED
    BY <1>14, TakenOut
<1>16. Owned(own2, pos)'
  <2>1. \A p \in Rungs : used'[p] <=> own2[p] # None
    BY <1>0, <1>a, <1>1, <1>2, <1>3, <1>4, <1>5 DEF Owned, TypeOK
  <2>2. \A p \in Rungs : own2[p] # None => IsLadder(own2[p])'
    BY <1>a, <1>1, <1>2, <1>3 DEF Owned, IsLadder
  <2>3. ASSUME NEW t \in Sections, IsLadder(t)'
        PROVE  Chained(next', Back', own2, pos, t, FirstOf(t)', LastOf(t)')
    <3>1. CASE t = s
      BY <1>4, <1>9, <1>15, <3>1 DEF FirstOf, LastOf
    <3>2. CASE t # s
      <4>1. Chained(next, prev, own, pos, t, FirstOf(t), LastOf(t))
        BY <1>1, <1>2, <1>4, <2>3 DEF Owned, IsLadder
      <4>2. FirstOf(t) \in Rungs /\ LastOf(t) \in Rungs
        BY <1>3, EndsTyped
      <4>3. \A p \in Rungs : own2[p] = t <=> own[p] = t
        BY <1>0, <1>a, <1>3, <1>5, <3>2
      <4>4. \A p \in Rungs : own[p] = t => next'[p] = next[p] /\ prev'[p] = prev[p]
        BY <1>2, <1>3, <1>6, <3>2
      <4>5. Chained(next', prev', own2, pos, t, FirstOf(t), LastOf(t))
        BY <4>1, <4>2, <4>3, <4>4, ChainKept
      <4>6. FirstOf(t)' = FirstOf(t) /\ LastOf(t)' = LastOf(t)
        BY <1>2, <1>9, <3>2 DEF FirstOf, LastOf
      <4> QED
        BY <1>4, <4>5, <4>6
    <3> QED
      BY <3>1, <3>2
  <2> QED
    BY <1>4, <1>9, <1>13, <2>1, <2>2, <2>3 DEF Owned
<1>z. IInv'
  BY <1>1, <1>11, <1>12, <1>13, <1>16 DEF IInv
<1>y. \A t \in Sections : /\ Of(t) = {x \in Rungs : own[x] = t}
                             /\ Of(t)' = {x \in Rungs : own2[x] = t}
  BY <1>1, <1>z, <1>16, OfOwned, OfOwnedNext DEF OwnersMet
<1>x. ASSUME NEW t \in Sections
      PROVE  Of(t)' = Of(t) \ {r}
  <2>1. \A x \in Rungs : own2[x] = t <=> own[x] = t /\ x # r
    BY <1>0, <1>a, <1>1, <1>3, <1>4, <1>5
  <2> QED
    BY <1>3, <1>y, <2>1
<1> QED
  BY <1>x, <1>z

LEMMA SavingKeeps ==
  ASSUME IInv, SaveFirst \/ SaveLast
  PROVE  IInv' /\ \A t \in Sections : Of(t)' = Of(t)
<1> DEFINE s == infos.section
<1>1. PICK own \in [Rungs -> Sections \cup {None}], pos \in [Rungs -> Nat] : Owned(own, pos)
  BY DEF IInv
<1>2. /\ op \in {"first", "last"} /\ op' \in {"idle", "last"}
      /\ UNCHANGED << used, next, prev, infos >>
      /\ edit' \in {edit, NoEdit}
  BY DEF SaveFirst, SaveLast, rungs
<1>3. TypeOK /\ s \in Sections /\ infos.first \in Rungs /\ infos.last \in Rungs
  BY DEF IInv, TypeOK
<1>4. ~Linking /\ ~Linking' /\ Back = prev /\ Back' = prev'
  BY <1>2 DEF Linking, Back
<1>5. /\ sections' \in [Sections -> SectionType]
      /\ \A t \in Sections : IsLadder(t)' <=> IsLadder(t)
      /\ \A t \in Sections : FirstOf(t)' = FirstOf(t) /\ LastOf(t)' = LastOf(t)
      /\ Pending'
  <2>0. sections \in [Sections -> SectionType] /\ 0 \in Rungs /\ None \in Links
    BY <1>3, NumbersAssumption DEF TypeOK, Rungs, Links
  <2>1. CASE SaveFirst
    <3>1. sections' = [sections EXCEPT ![s].first = infos.first] /\ op = "first"
          /\ op' = "last" /\ edit' = edit
      BY <2>1 DEF SaveFirst
    <3>2. sections' \in [Sections -> SectionType]
      BY <1>3, <2>0, <3>1 DEF SectionType
    <3>3. \A t \in Sections : /\ sections'[t].used = sections[t].used
                              /\ sections'[t].ladder = sections[t].ladder
                              /\ sections'[t].last = sections[t].last
                              /\ sections'[t].first = IF t = s THEN infos.first
                                                      ELSE sections[t].first
      BY <1>3, <2>0, <3>1 DEF SectionType
    <3>4. Pending'
      BY <1>2, <1>3, <1>4, <3>1, <3>3 DEF IInv, Pending
    <3> QED
      BY <1>2, <3>2, <3>3, <3>4 DEF IsLadder, FirstOf, LastOf
  <2>2. CASE SaveLast
    <3>1. sections' = [sections EXCEPT ![s].last = infos.last] /\ op = "last"
          /\ op' = "idle" /\ edit' = NoEdit
      BY <2>2 DEF SaveLast
    <3>2. sections' \in [Sections -> SectionType]
      BY <1>3, <2>0, <3>1 DEF SectionType
    <3>3. \A t \in Sections : /\ sections'[t].used = sections[t].used
                              /\ sections'[t].ladder = sections[t].ladder
                              /\ sections'[t].first = sections[t].first
                              /\ sections'[t].last = IF t = s THEN infos.last
                                                     ELSE sections[t].last
      BY <1>3, <2>0, <3>1 DEF SectionType
    <3>4. Pending'
      BY <1>2, <1>3, <1>4, <3>1, <3>3 DEF IInv, Pending, NoEdit
    <3> QED
      BY <1>2, <3>2, <3>3, <3>4 DEF IsLadder, FirstOf, LastOf
  <2> QED
    BY <2>1, <2>2
<1>6. TypeOK'
  <2>1. 0 \in Rungs /\ None \in Links
    BY NumbersAssumption DEF Rungs, Links
  <2> QED
    BY <1>2, <1>3, <1>5, <2>1 DEF TypeOK, NoEdit
<1>7. Owned(own, pos)'
  <2>1. \A r \in Rungs : own[r] # None => IsLadder(own[r])'
    BY <1>1, <1>5 DEF Owned
  <2>2. IsLadder(infos.section)' => own[infos'.current] = infos'.section
    BY <1>1, <1>2, <1>3, <1>5 DEF Owned
  <2> QED
    BY <1>1, <1>2, <1>4, <1>5, <2>1, <2>2 DEF Owned
<1>z. IInv'
  BY <1>1, <1>5, <1>6, <1>7 DEF IInv
<1> QED
  BY <1>z, <1>1, <1>7, OfOwned, OfOwnedNext DEF OwnersMet

-----------------------------------------------------------------------------
(* The sections manager, on an engine that is stopped.                     *)

(* Once the links rest, what is left to show is that each section that is  *)
(* in ladder afterwards has its chain.                                     *)
LEMMA ManagerKeeps ==
  ASSUME IInv, Manageable, UNCHANGED << edit, op >>, TypeOK',
         NEW own2 \in [Rungs -> Sections \cup {None}], NEW pos \in [Rungs -> Nat],
         \A r \in Rungs : used'[r] <=> own2[r] # None,
         \A r \in Rungs : own2[r] # None => IsLadder(own2[r])',
         \A s \in Sections : IsLadder(s)' =>
            Chained(next', prev', own2, pos, s, sections'[s].first, sections'[s].last),
         sections'[infos'.section].used,
         IsLadder(infos.section)' =>
            /\ infos'.first = sections'[infos'.section].first
            /\ infos'.last = sections'[infos'.section].last
            /\ own2[infos'.current] = infos'.section
  PROVE  IInv' /\ \A t \in Sections : Of(t)' = {r \in Rungs : own2[r] = t}
<1>1. op' = "idle" /\ edit'.mode = "none"
  BY DEF Manageable, Idle, Editing
<1>2. ~Linking' /\ Back' = prev'
  BY <1>1 DEF Linking, Back
<1>3. infos'.section \in Sections
  BY DEF TypeOK
<1>4. Pending'
  BY <1>1, <1>2, <1>3 DEF Pending, IsLadder
<1>5. ASSUME NEW s \in Sections, IsLadder(s)'
      PROVE  FirstOf(s)' = sections'[s].first /\ LastOf(s)' = sections'[s].last
  BY <1>5 DEF FirstOf, LastOf
<1>6. Owned(own2, pos)'
  BY <1>2, <1>3, <1>5 DEF Owned
<1>z. IInv'
  BY <1>4, <1>6 DEF IInv
<1> QED
  BY <1>z, <1>6, OfOwnedNext DEF OwnersMet

(* What holds before: the ends are those of SectionArray.                  *)
LEMMA ManagerFinds ==
  ASSUME IInv, Manageable, NEW own \in [Rungs -> Sections \cup {None}],
         NEW pos \in [Rungs -> Nat], Owned(own, pos)
  PROVE  /\ \A r \in Rungs : used[r] <=> own[r] # None
         /\ \A r \in Rungs : own[r] # None => IsLadder(own[r])
         /\ \A s \in Sections : IsLadder(s) =>
               Chained(next, prev, own, pos, s, sections[s].first, sections[s].last)
         /\ sections[infos.section].used
         /\ IsLadder(infos.section) =>
               /\ infos.first = sections[infos.section].first
               /\ infos.last = sections[infos.section].last
               /\ own[infos.current] = infos.section
<1>1. Idle /\ ~Linking /\ Back = prev
  BY DEF Manageable, Idle, Linking, Back
<1>2. \A s \in Sections : IsLadder(s) =>
               Chained(next, prev, own, pos, s, sections[s].first, sections[s].last)
  BY <1>1, EndsCopied DEF Owned
<1>3. /\ sections[infos.section].used
      /\ IsLadder(infos.section) =>
               /\ infos.first = sections[infos.section].first
               /\ infos.last = sections[infos.section].last
  BY <1>1 DEF IInv, Pending, Idle, IsLadder
<1> QED
  BY <1>1, <1>2, <1>3 DEF Owned

LEMMA SectionTyped ==
  ASSUME TypeOK, NEW s \in Sections
  PROVE  /\ sections[s] \in SectionType
         /\ sections[s].first \in Rungs /\ sections[s].last \in Rungs
         /\ sections[s].ladder \in BOOLEAN /\ sections[s].used \in BOOLEAN
BY DEF TypeOK, SectionType

LEMMA SelectedTyped ==
  ASSUME NEW s \in Sections, NEW fields \in SectionType
  PROVE  /\ Selected(s, fields) \in [first : Rungs, last : Rungs, current : Rungs,
                                     section : Sections]
         /\ Selected(s, fields).section = s
         /\ Selected(s, fields).first = fields.first
         /\ Selected(s, fields).current = fields.first
         /\ Selected(s, fields).last = fields.last
BY DEF Selected, SectionType

LEMMA SwapKeeps ==
  ASSUME IInv, SwapSections
  PROVE  IInv' /\ \A x \in Sections : \E y \in Sections : Of(x)' = Of(y)
<1>0. None \notin Sections /\ None \notin Rungs
  BY DEF None, Sections, Rungs
<1>1. PICK own \in [Rungs -> Sections \cup {None}], pos \in [Rungs -> Nat] : Owned(own, pos)
  BY DEF IInv
<1>2. Manageable /\ UNCHANGED << used, next, prev, edit, op >>
  BY DEF SwapSections, rungs
<1>3. TypeOK /\ infos.section \in Sections
  BY DEF IInv, TypeOK
<1>s. PICK s \in Sections : s = infos.section
  BY <1>3
<1>4. PICK t \in Sections :
         /\ t # s /\ sections[t].used
         /\ sections' = [sections EXCEPT ![s] = sections[t], ![t] = sections[s]]
         /\ infos' = Selected(t, sections[s])
  <2>1. PICK d \in {-1, 1} :
           /\ GetPrevNextSection(d) # None
           /\ sections' = [sections EXCEPT ![s] = sections[GetPrevNextSection(d)],
                                           ![GetPrevNextSection(d)] = sections[s]]
           /\ infos' = Selected(GetPrevNextSection(d), sections[s])
    BY <1>s DEF SwapSections
  <2>2. s + d \in Sections /\ sections[s + d].used /\ GetPrevNextSection(d) = s + d
    BY <1>s, <2>1 DEF GetPrevNextSection, FreeSections
  <2>3. s + d # s
    BY <1>3, <2>1 DEF Sections
  <2> QED
    BY <2>1, <2>2, <2>3
<1>5. /\ sections'[s] = sections[t] /\ sections'[t] = sections[s]
      /\ \A u \in Sections \ {s, t} : sections'[u] = sections[u]
  BY <1>3, <1>4 DEF TypeOK
<1>6. TypeOK'
  <2>1. sections' \in [Sections -> SectionType]
    BY <1>3, <1>4, SectionTyped DEF TypeOK
  <2>2. infos' \in [first : Rungs, last : Rungs, current : Rungs, section : Sections]
    BY <1>3, <1>4, SectionTyped, SelectedTyped
  <2> QED
    BY <1>2, <1>3, <2>1, <2>2 DEF TypeOK
<1>a. PICK own2 \in [Rungs -> Sections \cup {None}] :
         own2 = [r \in Rungs |-> IF own[r] = s THEN t ELSE IF own[r] = t THEN s ELSE own[r]]
  BY <1>1, <1>3
<1>7. /\ \A r \in Rungs : used[r] <=> own[r] # None
      /\ \A r \in Rungs : own[r] # None => IsLadder(own[r])
      /\ \A u \in Sections : IsLadder(u) =>
            Chained(next, prev, own, pos, u, sections[u].first, sections[u].last)
      /\ sections[s].used
  BY <1>s, <1>1, <1>2, ManagerFinds
<1>8. \A r \in Rungs : used'[r] <=> own2[r] # None
  BY <1>0, <1>a, <1>2, <1>3, <1>4, <1>7
<1>9. /\ \A u \in Sections \ {s, t} : IsLadder(u)' <=> IsLadder(u)
      /\ IsLadder(s)' <=> IsLadder(t)
      /\ IsLadder(t)' <=> IsLadder(s)
  BY <1>3, <1>4, <1>5 DEF IsLadder
<1>10. \A r \in Rungs : own2[r] # None => IsLadder(own2[r])'
  <2>1. ASSUME NEW r \in Rungs, own2[r] # None
        PROVE  IsLadder(own2[r])'
    <3>1. CASE own[r] = s
      BY <1>a, <1>0, <1>3, <1>7, <1>9, <3>1
    <3>2. CASE own[r] = t
      BY <1>a, <1>0, <1>4, <1>7, <1>9, <3>2
    <3>3. CASE own[r] \notin {s, t}
      BY <1>a, <1>1, <1>7, <1>9, <2>1, <3>3
    <3> QED
      BY <3>1, <3>2, <3>3
  <2> QED
    BY <2>1
<1>11. ASSUME NEW u \in Sections, IsLadder(u)'
       PROVE  Chained(next', prev', own2, pos, u, sections'[u].first, sections'[u].last)
  <2>1. CASE u \notin {s, t}
    <3>1. Chained(next, prev, own, pos, u, sections[u].first, sections[u].last)
      BY <1>7, <1>9, <1>11, <2>1
    <3>2. \A r \in Rungs : own2[r] = u <=> own[r] = u
      BY <1>a, <2>1
    <3>3. sections[u].first \in Rungs /\ sections[u].last \in Rungs
      BY <1>3, SectionTyped
    <3> QED
      BY <1>2, <1>5, <2>1, <3>1, <3>2, <3>3, ChainKept
  <2>2. CASE u = s
    <3>1. Chained(next, prev, own, pos, t, sections[t].first, sections[t].last)
      BY <1>4, <1>7, <1>9, <1>11, <2>2
    <3>2. \A r \in Rungs : own2[r] = s <=> own[r] = t
      BY <1>a, <1>4
    <3>3. sections[t].first \in Rungs /\ sections[t].last \in Rungs
      BY <1>3, SectionTyped
    <3>4. Chained(next, prev, own2, pos, s, sections[t].first, sections[t].last)
      BY <3>1, <3>2, <3>3 DEF Chained
    <3> QED
      BY <1>2, <1>5, <2>2, <3>4
  <2>3. CASE u = t
    <3>1. Chained(next, prev, own, pos, s, sections[s].first, sections[s].last)
      BY <1>3, <1>7, <1>9, <1>11, <2>3
    <3>2. \A r \in Rungs : own2[r] = t <=> own[r] = s
      BY <1>a, <1>4
    <3>3. sections[s].first \in Rungs /\ sections[s].last \in Rungs
      BY <1>3, SectionTyped
    <3>4. Chained(next, prev, own2, pos, t, sections[s].first, sections[s].last)
      BY <3>1, <3>2, <3>3 DEF Chained
    <3> QED
      BY <1>2, <1>5, <2>3, <3>4
  <2> QED
    BY <2>1, <2>2, <2>3
<1>12. /\ infos'.section = t /\ infos'.current = sections[s].first
       /\ infos'.first = sections[s].first /\ infos'.last = sections[s].last
  BY <1>3, <1>4, SectionTyped, SelectedTyped
<1>13. IsLadder(infos.section)' => own2[sections[s].first] = t
  <2>1. IsLadder(infos.section)' => IsLadder(t)'
    BY <1>12 DEF IsLadder
  <2> QED
    BY <1>5, <1>11, <2>1 DEF Chained
<1>z. IInv' /\ \A x \in Sections : Of(x)' = {r \in Rungs : own2[r] = x}
  BY <1>2, <1>5, <1>6, <1>7, <1>8, <1>10, <1>11, <1>12, <1>13, ManagerKeeps
<1>y. \A x \in Sections : Of(x) = {r \in Rungs : own[r] = x}
  BY <1>1, OfOwned DEF OwnersMet
<1>x. ASSUME NEW x \in Sections PROVE \E y \in Sections : Of(x)' = Of(y)
  <2> PICK y \in Sections : y = IF x = s THEN t ELSE IF x = t THEN s ELSE x
    BY <1>4
  <2>1. \A r \in Rungs : own2[r] = x <=> own[r] = y
    BY <1>a, <1>4
  <2>2. Of(x)' = Of(y)
    BY <1>y, <1>z, <2>1
  <2> QED
    BY <2>2
<1> QED
  BY <1>x, <1>z

LEMMA DeleteSectionKeeps ==
  ASSUME IInv, DelSection
  PROVE  IInv' /\ \A x \in Sections : Of(x)' = {} \/ Of(x)' = Of(x)
<1>0. None \notin Sections /\ None \notin Rungs
  BY DEF None, Sections, Rungs
<1>1. PICK own \in [Rungs -> Sections \cup {None}], pos \in [Rungs -> Nat] : Owned(own, pos)
  BY DEF IInv
<1>3. TypeOK /\ infos.section \in Sections
  BY DEF IInv, TypeOK
<1>g. PICK gone \in Sections : gone = infos.section
  BY <1>3
<1> DEFINE left == (Sections \ FreeSections) \ {gone}
<1>2. /\ Manageable /\ Cardinality(Sections \ FreeSections) > 1
      /\ UNCHANGED << next, prev, edit, op >>
      /\ sections' = [sections EXCEPT ![gone].used = FALSE]
      /\ used' = IF sections[gone].ladder
                 THEN [r \in Rungs |-> used[r] /\ r \notin Displayed] ELSE used
      /\ infos' = Selected(Min(left), sections[Min(left)])
  BY <1>g DEF DelSection
<1>4. PICK t \in Sections : t = Min(left) /\ t # gone /\ sections[t].used
  <2>1. left # {}
    <3>1. SUFFICES ASSUME left = {} PROVE FALSE
      OBVIOUS
    <3>2. Sections \ FreeSections \subseteq {gone}
      BY <3>1
    <3>3. Cardinality({gone}) = 1 /\ IsFiniteSet({gone})
      BY FS_Singleton
    <3>4. Cardinality(Sections \ FreeSections) <= 1
      BY <3>2, <3>3, FS_Subset
    <3>5. Cardinality(Sections \ FreeSections) \in Nat
      BY <3>2, <3>3, FS_Subset, FS_CardinalityType
    <3> QED
      BY <1>2, <3>4, <3>5
  <2>2. left \in SUBSET Nat
    BY DEF Sections
  <2>3. Min(left) \in left
    <3> HIDE DEF left
    <3> QED
      BY <2>1, <2>2, MinIsMember
  <2> QED
    BY <2>3 DEF FreeSections
<1> HIDE DEF left
<1>5. /\ \A s \in Sections : /\ sections'[s].used = (sections[s].used /\ s # gone)
                             /\ sections'[s].ladder = sections[s].ladder
                             /\ sections'[s].first = sections[s].first
                             /\ sections'[s].last = sections[s].last
      /\ sections' \in [Sections -> SectionType]
  <2>1. sections' = [sections EXCEPT ![gone] = [sections[gone] EXCEPT !.used = FALSE]]
    BY <1>2
  <2>2. sections \in [Sections -> SectionType]
    BY <1>3 DEF TypeOK
  <2>3. \A s \in Sections : s # gone => sections'[s] = sections[s]
    BY <2>1, <2>2
  <2>4. sections[gone] \in SectionType /\ sections'[gone] = [sections[gone] EXCEPT !.used = FALSE]
    BY <2>1, <2>2
  <2>5. /\ sections'[gone].used = FALSE
        /\ sections'[gone].ladder = sections[gone].ladder
        /\ sections'[gone].first = sections[gone].first
        /\ sections'[gone].last = sections[gone].last
        /\ sections'[gone] \in SectionType
    BY <2>4 DEF SectionType
  <2>6. \A s \in Sections : sections[s].used \in BOOLEAN
    BY <2>2 DEF SectionType
  <2>7. sections' \in [Sections -> SectionType]
    BY <2>1, <2>2, <2>5
  <2> QED
    BY <2>3, <2>5, <2>6, <2>7
<1>6. \A s \in Sections : IsLadder(s)' <=> IsLadder(s) /\ s # gone
  BY <1>5 DEF IsLadder
<1>7. /\ \A r \in Rungs : used[r] <=> own[r] # None
      /\ \A r \in Rungs : own[r] # None => IsLadder(own[r])
      /\ \A s \in Sections : IsLadder(s) =>
            Chained(next, prev, own, pos, s, sections[s].first, sections[s].last)
      /\ sections[gone].used
  BY <1>g, <1>1, <1>2, ManagerFinds
<1>8. PICK own2 \in [Rungs -> Sections \cup {None}] :
         own2 = [r \in Rungs |-> IF own[r] = gone THEN None ELSE own[r]]
  BY <1>1
<1>9. \A r \in Rungs : used'[r] <=> own2[r] # None
  <2>1. CASE sections[gone].ladder
    <3>1. Displayed = {r \in Rungs : own[r] = gone}
      BY <1>g, <1>1, <1>7, <2>1, OwnedDisplayed DEF IsLadder
    <3> QED
      BY <1>0, <1>2, <1>7, <1>8, <2>1, <3>1
  <2>2. CASE ~sections[gone].ladder
    <3>1. \A r \in Rungs : own[r] # gone
      BY <1>0, <1>7, <2>2 DEF IsLadder
    <3> QED
      BY <1>2, <1>7, <1>8, <2>2, <3>1
  <2> QED
    BY <2>1, <2>2
<1>10. \A r \in Rungs : own2[r] # None => IsLadder(own2[r])'
  BY <1>0, <1>1, <1>6, <1>7, <1>8
<1>11. ASSUME NEW s \in Sections, IsLadder(s)'
       PROVE  Chained(next', prev', own2, pos, s, sections'[s].first, sections'[s].last)
  <2>1. s # gone /\ Chained(next, prev, own, pos, s, sections[s].first, sections[s].last)
    BY <1>6, <1>7, <1>11
  <2>2. \A r \in Rungs : own2[r] = s <=> own[r] = s
    BY <1>0, <1>8, <2>1
  <2>3. sections[s].first \in Rungs /\ sections[s].last \in Rungs
    BY <1>3, SectionTyped
  <2> QED
    BY <1>2, <1>5, <2>1, <2>2, <2>3, ChainKept
<1>12. /\ infos'.section = t /\ infos'.current = sections[t].first
       /\ infos'.first = sections[t].first /\ infos'.last = sections[t].last
       /\ infos' \in [first : Rungs, last : Rungs, current : Rungs, section : Sections]
  BY <1>2, <1>3, <1>4, SectionTyped, SelectedTyped
<1>13. TypeOK'
  BY <1>2, <1>3, <1>5, <1>12 DEF TypeOK
<1>14. IsLadder(infos.section)' => own2[sections[t].first] = t
  <2>1. IsLadder(infos.section)' => IsLadder(t)'
    BY <1>12 DEF IsLadder
  <2> QED
    BY <1>4, <1>5, <1>11, <2>1 DEF Chained
<1>z. IInv' /\ \A x \in Sections : Of(x)' = {r \in Rungs : own2[r] = x}
  BY <1>1, <1>2, <1>4, <1>5, <1>9, <1>10, <1>11, <1>12, <1>13, <1>14, ManagerKeeps
<1>y. \A x \in Sections : Of(x) = {r \in Rungs : own[r] = x}
  BY <1>1, OfOwned DEF OwnersMet
<1>x. ASSUME NEW x \in Sections PROVE Of(x)' = {} \/ Of(x)' = Of(x)
  <2>1. CASE x = gone
    <3>1. \A r \in Rungs : own2[r] # x
      BY <1>0, <1>8, <2>1
    <3> QED
      BY <1>z, <3>1
  <2>2. CASE x # gone
    <3>1. \A r \in Rungs : own2[r] = x <=> own[r] = x
      BY <1>0, <1>8, <2>2
    <3> QED
      BY <1>y, <1>z, <3>1
  <2> QED
    BY <2>1, <2>2
<1> QED
  BY <1>x, <1>z

LEMMA AddSectionKeeps ==
  ASSUME IInv, AddSection
  PROVE  IInv' /\ \A x \in Sections : Of(x)' = Of(x) \/ Of(x)' = {FindFreeRung}
<1>0. /\ None \notin Sections /\ None \notin Rungs
      /\ 0 \in Rungs /\ None \in Links
  BY NumbersAssumption DEF None, Sections, Rungs, Links
<1>1. PICK own \in [Rungs -> Sections \cup {None}], pos \in [Rungs -> Nat] : Owned(own, pos)
  BY DEF IInv
<1>2. Manageable /\ UNCHANGED << edit, op >>
  BY DEF AddSection
<1>3. TypeOK /\ infos.section \in Sections
  BY DEF IInv, TypeOK
<1>4. PICK s \in Sections : s = Min(FreeSections) /\ ~sections[s].used
  <2>1. FreeSections # {} /\ FreeSections \in SUBSET Nat
    BY DEF AddSection, FreeSections, Sections
  <2>2. Min(FreeSections) \in FreeSections
    BY <2>1, MinIsMember
  <2> QED
    BY <2>2 DEF FreeSections
<1>5. /\ \A r \in Rungs : used[r] <=> own[r] # None
      /\ \A r \in Rungs : own[r] # None => IsLadder(own[r])
      /\ \A t \in Sections : IsLadder(t) =>
            Chained(next, prev, own, pos, t, sections[t].first, sections[t].last)
      /\ sections[infos.section].used
      /\ IsLadder(infos.section) =>
            /\ infos.first = sections[infos.section].first
            /\ infos.last = sections[infos.section].last
            /\ own[infos.current] = infos.section
  BY <1>1, <1>2, ManagerFinds
<1>6. \A r \in Rungs : own[r] # s
  BY <1>0, <1>4, <1>5 DEF IsLadder
<1>7. PICK sub \in SubRoutines \cup {None}, ladder \in BOOLEAN, old \in SubRoutines \cup {None} :
        LET r == FindFreeRung
            fields == [NewSection EXCEPT !.ladder = ladder, !.sub = IF ladder THEN sub ELSE old]
        IN  IF ladder /\ r = None
            THEN /\ sections' = [sections EXCEPT ![s] = fields]
                 /\ UNCHANGED << used, next, prev, infos >>
            ELSE IF ladder
            THEN /\ sections' = [sections EXCEPT
                       ![s] = [fields EXCEPT !.used = TRUE, !.first = r, !.last = r]]
                 /\ used' = [used EXCEPT ![r] = TRUE]
                 /\ next' = [next EXCEPT ![r] = None]
                 /\ prev' = [prev EXCEPT ![r] = None]
                 /\ infos' = Selected(s, sections'[s])
            ELSE /\ sections' = [sections EXCEPT ![s] = [fields EXCEPT !.used = TRUE]]
                 /\ infos' = Selected(s, sections'[s])
                 /\ UNCHANGED << used, next, prev >>
  <2>1. sections[s].sub \in SubRoutines \cup {None}
    BY <1>3 DEF TypeOK, SectionType
  <2> QED
    BY <1>4, <2>1 DEF AddSection, rungs
<1>8. PICK number \in SubRoutines \cup {None} :
         number = IF ladder THEN sub ELSE old
  BY <1>7
(* The other sections keep their chains, whatever the new one is. *)
<1>9. ASSUME NEW own2 \in [Rungs -> Sections \cup {None}],
             \A t \in Sections \ {s} : sections'[t] = sections[t],
             \A t \in Sections \ {s} : \A r \in Rungs : own2[r] = t <=> own[r] = t,
             \A r \in Rungs : own[r] # None => next'[r] = next[r] /\ prev'[r] = prev[r],
             NEW t \in Sections, t # s, IsLadder(t)'
      PROVE  Chained(next', prev', own2, pos, t, sections'[t].first, sections'[t].last)
  <2>1. IsLadder(t)
    BY <1>9 DEF IsLadder
  <2>2. Chained(next, prev, own, pos, t, sections[t].first, sections[t].last)
    BY <1>5, <2>1
  <2>3. sections[t].first \in Rungs /\ sections[t].last \in Rungs
    BY <1>3, SectionTyped
  <2>4. \A r \in Rungs : own[r] = t => next'[r] = next[r] /\ prev'[r] = prev[r]
    BY <1>0, <1>9
  <2>5. \A r \in Rungs : own2[r] = t <=> own[r] = t
    BY <1>9
  <2> QED
    BY <1>9, <2>2, <2>3, <2>4, <2>5, ChainKept
<1>y. \A x \in Sections : Of(x) = {r \in Rungs : own[r] = x}
  BY <1>1, OfOwned DEF OwnersMet
(* No rung is free: the place keeps what was written in it, unused. *)
<1>10. CASE ladder /\ FindFreeRung = None
  <2>1. /\ sections' = [sections EXCEPT ![s] = [used |-> FALSE, ladder |-> TRUE, sub |-> number,
                                                first |-> 0, last |-> 0]]
        /\ UNCHANGED << used, next, prev, infos >>
    BY <1>7, <1>8, <1>10 DEF NewSection
  <2>2. sections' \in [Sections -> SectionType] /\ sections'[s].used = FALSE
        /\ \A t \in Sections \ {s} : sections'[t] = sections[t]
    BY <1>0, <1>3, <2>1 DEF TypeOK, SectionType
  <2>3. TypeOK'
    BY <1>2, <1>3, <2>1, <2>2 DEF TypeOK
  <2>4. \A t \in Sections : IsLadder(t)' <=> IsLadder(t)
    BY <1>4, <2>2 DEF IsLadder
  <2>5. \A r \in Rungs : own[r] # None => IsLadder(own[r])'
    BY <1>1, <1>5, <2>4
  <2>6. \A t \in Sections : IsLadder(t)' =>
           Chained(next', prev', own, pos, t, sections'[t].first, sections'[t].last)
    BY <1>1, <1>4, <1>9, <2>1, <2>2, <2>4 DEF IsLadder
  <2>7. infos.section # s
    BY <1>4, <1>5
  <2>8. /\ sections'[infos'.section].used
        /\ IsLadder(infos.section)' =>
             /\ infos'.first = sections'[infos'.section].first
             /\ infos'.last = sections'[infos'.section].last
             /\ own[infos'.current] = infos'.section
    BY <1>3, <1>5, <2>1, <2>2, <2>7 DEF IsLadder
  <2>9. IInv' /\ \A x \in Sections : Of(x)' = {r \in Rungs : own[r] = x}
    BY <1>1, <1>2, <1>5, <2>1, <2>3, <2>5, <2>6, <2>8, ManagerKeeps
  <2> QED
    BY <1>y, <2>9
(* A ladder section starts with one rung. *)
<1>11. CASE ladder /\ FindFreeRung # None
  <2>1. PICK r \in Rungs : r = FindFreeRung /\ ~used[r]
    BY <1>11, FreeRungFound
  <2>2. /\ sections' = [sections EXCEPT ![s] = [used |-> TRUE, ladder |-> TRUE, sub |-> number,
                                                first |-> r, last |-> r]]
        /\ used' = [used EXCEPT ![r] = TRUE]
        /\ next' = [next EXCEPT ![r] = None]
        /\ prev' = [prev EXCEPT ![r] = None]
        /\ infos' = Selected(s, sections'[s])
    BY <1>7, <1>8, <1>11, <2>1, ZenonT(30) DEF NewSection
  <2>3. /\ sections' \in [Sections -> SectionType]
        /\ sections'[s].used /\ sections'[s].ladder
        /\ sections'[s].first = r /\ sections'[s].last = r
        /\ \A t \in Sections \ {s} : sections'[t] = sections[t]
    BY <1>3, <2>2 DEF TypeOK, SectionType
  <2>4. /\ infos'.section = s /\ infos'.first = r /\ infos'.last = r /\ infos'.current = r
        /\ infos' \in [first : Rungs, last : Rungs, current : Rungs, section : Sections]
    BY <2>2, <2>3, SelectedTyped
  <2>5. TypeOK'
    BY <1>0, <1>2, <1>3, <2>2, <2>3, <2>4 DEF TypeOK
  <2>6. PICK own2 \in [Rungs -> Sections \cup {None}] : own2 = [own EXCEPT ![r] = s]
    BY <1>1
  <2>7. own[r] = None
    BY <1>5, <2>1
  <2>8. \A q \in Rungs : used'[q] <=> own2[q] # None
    BY <1>0, <1>1, <1>3, <1>5, <2>2, <2>6 DEF TypeOK
  <2>9. IsLadder(s)' /\ \A t \in Sections \ {s} : IsLadder(t)' <=> IsLadder(t)
    BY <2>3 DEF IsLadder
  <2>10. \A q \in Rungs : own2[q] # None => IsLadder(own2[q])'
    BY <1>1, <1>5, <2>6, <2>9
  <2>11. \A t \in Sections \ {s} : \A q \in Rungs : own2[q] = t <=> own[q] = t
    BY <1>0, <1>1, <2>6, <2>7
  <2>12. \A q \in Rungs : own[q] # None => next'[q] = next[q] /\ prev'[q] = prev[q]
    BY <1>3, <2>2, <2>7 DEF TypeOK
  <2>13. own2[r] = s /\ \A q \in Rungs : own2[q] = s => q = r
    BY <1>1, <1>6, <2>6
  <2>14. Chained(next', prev', own2, pos, s, r, r)
    BY <2>13 DEF Chained
  <2>15. \A t \in Sections : IsLadder(t)' =>
           Chained(next', prev', own2, pos, t, sections'[t].first, sections'[t].last)
    <3>1. TAKE t \in Sections
    <3>2. CASE t = s
      BY <2>3, <2>14, <3>2
    <3>3. CASE t # s
      BY <1>9, <2>3, <2>11, <2>12, <3>3
    <3> QED
      BY <3>2, <3>3
  <2>16. IInv' /\ \A x \in Sections : Of(x)' = {q \in Rungs : own2[q] = x}
    BY <1>1, <1>2, <2>3, <2>4, <2>5, <2>8, <2>10, <2>13, <2>15, ManagerKeeps
  <2>17. ASSUME NEW x \in Sections PROVE Of(x)' = Of(x) \/ Of(x)' = {r}
    <3>1. CASE x = s
      BY <2>13, <2>16, <3>1
    <3>2. CASE x # s
      BY <1>y, <2>11, <2>16, <3>2
    <3> QED
      BY <3>1, <3>2
  <2> QED
    BY <2>1, <2>16, <2>17
(* A section in sequential has no rung. *)
<1>12. CASE ~ladder
  <2>1. /\ sections' = [sections EXCEPT ![s] = [used |-> TRUE, ladder |-> FALSE, sub |-> number,
                                                first |-> 0, last |-> 0]]
        /\ infos' = Selected(s, sections'[s])
        /\ UNCHANGED << used, next, prev >>
    <3>1. ladder = FALSE
      BY <1>7, <1>12
    <3>2. number = old
      BY <1>8, <1>12
    <3> QED
      BY <1>7, <1>12, <3>1, <3>2 DEF NewSection
  <2>2. /\ sections' \in [Sections -> SectionType]
        /\ sections'[s].used /\ ~sections'[s].ladder
        /\ \A t \in Sections \ {s} : sections'[t] = sections[t]
    BY <1>0, <1>3, <2>1 DEF TypeOK, SectionType
  <2>3. infos'.section = s
        /\ infos' \in [first : Rungs, last : Rungs, current : Rungs, section : Sections]
    BY <2>1, <2>2, SelectedTyped
  <2>4. TypeOK'
    BY <1>2, <1>3, <2>1, <2>2, <2>3 DEF TypeOK
  <2>5. \A t \in Sections : IsLadder(t)' <=> IsLadder(t)
    BY <1>4, <2>2 DEF IsLadder
  <2>6. \A r \in Rungs : own[r] # None => IsLadder(own[r])'
    BY <1>1, <1>5, <2>5
  <2>7. \A t \in Sections : IsLadder(t)' =>
           Chained(next', prev', own, pos, t, sections'[t].first, sections'[t].last)
    BY <1>1, <1>4, <1>9, <2>1, <2>2, <2>5 DEF IsLadder
  <2>8. sections'[infos'.section].used /\ ~IsLadder(infos.section)'
    BY <2>2, <2>3 DEF IsLadder
  <2>9. IInv' /\ \A x \in Sections : Of(x)' = {r \in Rungs : own[r] = x}
    BY <1>1, <1>2, <1>5, <2>1, <2>4, <2>6, <2>7, <2>8, ManagerKeeps
  <2> QED
    BY <1>y, <2>9
<1> QED
  BY <1>10, <1>11, <1>12

-----------------------------------------------------------------------------
LEMMA NextIInv == IInv /\ [Next]_vars => IInv'
<1> SUFFICES ASSUME IInv, [Next]_vars
             PROVE  IInv'
  OBVIOUS
<1>1. CASE Scan
  <2>1. UNCHANGED << used, next, prev, sections, infos, edit, op >>
    BY <1>1 DEF Scan, Refresh, ScanBegin, Jump, Call, RefreshRung, Return, FollowNext, rungs
  <2> QED
    BY <2>1, QuietKeeps
<1>2. CASE DoFlipFlopRunStop
  <2>1. UNCHANGED << used, next, prev, sections, infos, edit, op >>
    BY <1>2 DEF DoFlipFlopRunStop, rungs
  <2> QED
    BY <2>1, QuietKeeps
<1>3. CASE UNCHANGED vars
  BY <1>3, QuietKeeps DEF vars, rungs
<1>4. CASE Edit
  BY <1>4, OpeningKeeps, ApplyKeeps, LinkOwnKeeps, LinkInKeeps, DeleteKeeps, SavingKeeps DEF Edit
<1> QED
  BY <1>1, <1>2, <1>3, <1>4, LookingKeeps, AddSectionKeeps, DeleteSectionKeeps, SwapKeeps DEF Next

(* Whatever the operator edits and however the steps of the editor and of  *)
(* the engine fall, each rung in use is in one chain, linked both ways.    *)
THEOREM Invariance == Spec => []IInv
<1>1. Init => IInv
  BY InitIInv
<1>2. IInv /\ [Next]_vars => IInv'
  BY NextIInv
<1> QED
  BY <1>1, <1>2, PTL DEF Spec

(* Between two operations of the operator (edit.c, manager.c) a rung is    *)
(* used if and only if it is in one section in ladder, and only one.       *)
THEOREM NoRungLostNorShared == Spec => []RungsOwned
<1>1. IInv => RungsOwned
  BY IInvOwned
<1> QED
  BY <1>1, Invariance, PTL

-----------------------------------------------------------------------------
(* What keeps the refresh on the rungs, within the bounds of Program that  *)
(* the code does not have: one edit during a scan, the last rung of a      *)
(* section not deleted under it, no Jump out of its section, no section in *)
(* sequential in the place of a sub-routine.                               *)
Careful == EditsMax <= 1 /\ ~DeletesLast /\ ~StrayJumps /\ ~StaleNumbers

Coils == {NoCoil} \cup Jumps \cup Calls
FrameType == [section : Sections, rung : Rungs, mad : Nat, due : SUBSET Rungs]

(* A Jump leads to a rung of its section, or to one that is not used.      *)
JumpsTo(q, s) == coil[q].kind = "jump" /\ used[coil[q].to] => coil[q].to \in Of(s)
JumpsStay ==
    /\ \A s \in Sections : \A q \in Of(s) : JumpsTo(q, s)
    /\ Linking => JumpsTo(edit.num, infos.section)
    /\ op # "idle" /\ edit.mode \in {"add", "insert"} => ~Awaited(edit.num)

(* A rung deleted during this scan still leads into its section.           *)
Gone(q, s) == ~used[q] /\ next[q] \in Of(s) /\ JumpsTo(q, s)

(* The end of the displayed section is moved and not yet copied.           *)
Uncopied == IsLadder(infos.section) /\ infos.last # sections[infos.section].last

FirstsReady ==
    \A s \in Sections : IsLadder(s) =>
       \/ sections[s].first \in Of(s)
       \/ op = "first" /\ s = infos.section /\ edit.mode = "none" /\ Gone(sections[s].first, s)
LastsReady ==
    Uncopied =>
       \/ at = "idle" /\ ~running
       \/ LET s == sections[infos.section]
          IN  /\ op # "idle" /\ edit.mode = "add" /\ infos.last = edit.num
              /\ s.first = infos.first
              /\ s.last \in Of(infos.section) /\ next[s.last] = infos.last

(* The refresh of a section is on one of its rungs, or on one deleted      *)
(* since, and the rungs still due are ahead of it.                         *)
Safe(f) ==
    /\ IsLadder(f.section)
    /\ f.rung \in Of(f.section) \/ (Gone(f.rung, f.section) /\ edits > 0)
    /\ f.rung \notin Of(f.section) /\ op # "idle" => edit.mode = "none"
    /\ Uncopied => f.rung # infos.last
    /\ f.due \subseteq Met(f.rung, sections[f.section].last)
SafeFrames == {f \in FrameType : Safe(f)}

Rested == \A i \in 1 .. Len(stack) :
             i < Len(stack) \/ at # "rung" => stack[i].rung \notin stack[i].due
NotPastTheEnd ==
    at = "next" => Top.rung # sections[Top.section].last /\ Top.rung # LastOf(Top.section)
SubsInLadder ==
    \A s \in Sections : sections[s].used /\ sections[s].sub # None => sections[s].ladder

SInv ==
    /\ coil \in [Rungs -> Coils] /\ edit.coil \in Coils /\ edits \in Nat
    /\ at \in {"idle", "rung", "last", "next"}
    /\ stack \in Seq(SafeFrames) /\ (at = "idle" <=> stack = << >>)
    /\ at # "idle" /\ edits = 0 => op = "idle"
    /\ Rested /\ NotPastTheEnd
    /\ JumpsStay /\ FirstsReady /\ LastsReady /\ SubsInLadder

-----------------------------------------------------------------------------
(* What the steps of the refresh and of the editor need of IInv.           *)
Shape ==
    /\ \A s \in Sections : Of(s) \subseteq Rungs /\ (Of(s) # {} => IsLadder(s))
    /\ \A s, t \in Sections : s # t => Of(s) \cap Of(t) = {}
    /\ \A r \in Rungs : used[r] <=> (\E s \in Sections : r \in Of(s)) \/ (Linking /\ r = edit.num)
    /\ Linking => \A s \in Sections : edit.num \notin Of(s)
    /\ \A s \in Sections : IsLadder(s) =>
          /\ FirstOf(s) \in Of(s) /\ LastOf(s) \in Of(s)
          /\ \A r \in Of(s) \ {LastOf(s)} :
                next[r] \in Of(s) \ {r} /\ next[r] # FirstOf(s) /\ Back[next[r]] = r
          /\ \A r \in Of(s) \ {FirstOf(s)} :
                Back[r] \in Of(s) /\ Back[r] # LastOf(s) /\ next[Back[r]] = r
    /\ IsLadder(infos.section) => infos.current \in Of(infos.section)

LEMMA IInvShape == IInv => Shape
<1> SUFFICES ASSUME IInv PROVE Shape
  OBVIOUS
<1>1. PICK own \in [Rungs -> Sections \cup {None}], pos \in [Rungs -> Nat] : Owned(own, pos)
  BY DEF IInv
<1>2. \A s \in Sections : Of(s) = {r \in Rungs : own[r] = s}
  BY <1>1, OfOwned DEF OwnersMet
<1>3. None \notin Sections
  BY DEF None, Sections
<1>4. infos.section \in Sections /\ infos.current \in Rungs /\ edit.num \in Rungs
  BY DEF IInv, TypeOK
<1>5. \A s \in Sections : Of(s) \subseteq Rungs /\ (Of(s) # {} => IsLadder(s))
  BY <1>2 DEF Of
<1>6. \A s, t \in Sections : s # t => Of(s) \cap Of(t) = {}
  BY <1>2
<1>7. \A r \in Rungs : used[r] <=> (\E s \in Sections : r \in Of(s)) \/ (Linking /\ r = edit.num)
  BY <1>1, <1>2, <1>3 DEF Owned
<1>8. Linking => \A s \in Sections : edit.num \notin Of(s)
  BY <1>1, <1>2, <1>3 DEF Owned
<1>9. ASSUME NEW s \in Sections, IsLadder(s)
      PROVE  /\ FirstOf(s) \in Of(s) /\ LastOf(s) \in Of(s)
             /\ \A r \in Of(s) \ {LastOf(s)} :
                   next[r] \in Of(s) \ {r} /\ next[r] # FirstOf(s) /\ Back[next[r]] = r
             /\ \A r \in Of(s) \ {FirstOf(s)} :
                   Back[r] \in Of(s) /\ Back[r] # LastOf(s) /\ next[Back[r]] = r
  <2>1. Chained(next, Back, own, pos, s, FirstOf(s), LastOf(s))
    BY <1>1, <1>9 DEF Owned
  <2>2. FirstOf(s) \in Rungs /\ LastOf(s) \in Rungs
    BY EndsTyped DEF IInv
  <2> QED
    BY <1>2, <2>1, <2>2 DEF Chained
<1>10. IsLadder(infos.section) => infos.current \in Of(infos.section)
  BY <1>1, <1>2, <1>4 DEF Owned
<1> QED
  BY <1>5, <1>6, <1>7, <1>8, <1>9, <1>10 DEF Shape

LEMMA IInvShapeNext == IInv' => Shape'
BY IInvShape, PTL

(* While the editor rests, every end is copied.                            *)
Copied == /\ ~Uncopied /\ FirstsReady /\ LastsReady
          /\ \A s \in Sections : IsLadder(s) => LastOf(s) = sections[s].last

LEMMA IdleCopied == IInv /\ Idle => Copied
<1> SUFFICES ASSUME IInv, Idle PROVE Copied
  OBVIOUS
<1>1. \A s \in Sections : IsLadder(s) =>
         FirstOf(s) = sections[s].first /\ LastOf(s) = sections[s].last
  BY EndsCopied
<1>2. infos.section \in Sections
  BY DEF IInv, TypeOK
<1>3. ~Uncopied
  BY <1>1, <1>2 DEF Uncopied, LastOf
<1>4. FirstsReady
  BY <1>1, IInvShape DEF FirstsReady, Shape
<1> QED
  BY <1>1, <1>3, <1>4 DEF Copied, LastsReady

LEMMA IdleCopiedNext == IInv' /\ Idle' => Copied'
BY IdleCopied, PTL

(* The stack of the sections under refresh.                                *)
LEMMA StackOps ==
  ASSUME NEW S, NEW st \in Seq(S), st # << >>, NEW e \in S
  PROVE  /\ Len(st) \in Nat \ {0} /\ st[Len(st)] \in S
         /\ ReplaceAt(st, Len(st), e) \in Seq(S)
         /\ Len(ReplaceAt(st, Len(st), e)) = Len(st)
         /\ ReplaceAt(st, Len(st), e)[Len(st)] = e
         /\ \A i \in 1 .. Len(st) - 1 : ReplaceAt(st, Len(st), e)[i] = st[i]
         /\ Front(st) \in Seq(S) /\ Len(Front(st)) = Len(st) - 1
         /\ \A i \in 1 .. Len(st) - 1 : Front(st)[i] = st[i]
<1>1. Len(st) \in Nat \ {0}
  OBVIOUS
<1>2. st[Len(st)] \in S /\ \A i \in 1 .. Len(st) : st[i] \in S
  BY <1>1
<1>3. ReplaceAt(st, Len(st), e) = [i \in 1 .. Len(st) |-> IF i = Len(st) THEN e ELSE st[i]]
  BY <1>1 DEF ReplaceAt
<1>4. /\ ReplaceAt(st, Len(st), e) \in Seq(S) /\ Len(ReplaceAt(st, Len(st), e)) = Len(st)
      /\ ReplaceAt(st, Len(st), e)[Len(st)] = e
      /\ \A i \in 1 .. Len(st) - 1 : ReplaceAt(st, Len(st), e)[i] = st[i]
  BY <1>1, <1>2, <1>3
<1>5. /\ Front(st) \in Seq(S) /\ Len(Front(st)) = Len(st) - 1
      /\ \A i \in 1 .. Len(st) - 1 : Front(st)[i] = st[i]
  BY <1>1, <1>2, SubSeqProperties DEF Front
<1> QED
  BY <1>1, <1>2, <1>4, <1>5

-----------------------------------------------------------------------------
(* The steps of the refresh.                                               *)

(* What the refresh reads is what the editor left.                         *)
LEMMA SafeSame ==
  ASSUME UNCHANGED << used, next, coil, sections, infos, edit, op, edits >>
  PROVE  SafeFrames' = SafeFrames
<1>1. \A s : IsLadder(s)' = IsLadder(s) /\ Of(s)' = Of(s)
  BY DEF IsLadder, Of, FirstOf, LastOf, Met, Closed
<1>2. \A f \in FrameType : Safe(f)' <=> Safe(f)
  BY <1>1 DEF Safe, Gone, JumpsTo, Uncopied, IsLadder, Met, Closed
<1> QED
  BY <1>2 DEF SafeFrames

LEMMA FrameReady ==
  ASSUME IInv, FirstsReady, LastsReady, at # "idle" \/ running,
         NEW s \in Sections, IsLadder(s)
  PROVE  /\ Frame(s) \in FrameType /\ Frame(s).section = s
         /\ \/ Frame(s).rung \in Of(s)
            \/ op = "first" /\ edit.mode = "none" /\ Gone(Frame(s).rung, s)
         /\ Uncopied => Frame(s).rung # infos.last
         /\ Frame(s).due \subseteq Met(Frame(s).rung, sections[s].last)
<1> DEFINE f == sections[s].first
<1>1. TypeOK /\ Shape /\ infos.section \in Sections
  BY IInvShape DEF IInv, TypeOK
<1>2. f \in Rungs
  BY <1>1, SectionTyped
<1>3. RungsOf(s) = Met(f, sections[s].last) /\ RungsOf(s) \subseteq Rungs
  BY DEF RungsOf, Met
<1>4. /\ Frame(s) \in FrameType
      /\ Frame(s).section = s /\ Frame(s).rung = f /\ Frame(s).due = RungsOf(s)
  BY <1>2, <1>3 DEF Frame, FrameType
<1>5. f \in Of(s) \/ (op = "first" /\ edit.mode = "none" /\ Gone(f, s))
  BY DEF FirstsReady
<1>6. ASSUME Uncopied PROVE f # infos.last
  <2> DEFINE t == infos.section
             l == sections[t].last
  <2>1. /\ edit.mode = "add" /\ sections[t].first = infos.first
        /\ l \in Of(t) /\ next[l] = infos.last /\ IsLadder(t) /\ infos.last # l
    BY <1>6 DEF LastsReady, Uncopied
  <2>2. f \in Of(s)
    BY <1>5, <2>1
  <2>3. LastOf(t) = infos.last /\ FirstOf(t) = infos.first /\ infos.last \in Of(t)
    BY <1>1, <2>1 DEF LastOf, FirstOf, Shape
  <2>4. next[l] # infos.first
    BY <1>1, <2>1, <2>3 DEF Shape
  <2>5. CASE s = t
    BY <2>1, <2>4, <2>5
  <2>6. CASE s # t
    BY <1>1, <2>2, <2>3, <2>6 DEF Shape
  <2> QED
    BY <2>5, <2>6
<1> QED
  BY <1>3, <1>4, <1>5, <1>6

LEMMA FrameSafe ==
  ASSUME IInv, SInv, at # "idle", NEW s \in Sections, IsLadder(s)
  PROVE  Frame(s) \in SafeFrames
<1>1. op # "idle" => edits > 0
  BY DEF SInv
<1>2. FirstsReady /\ LastsReady
  BY DEF SInv
<1> QED
  BY <1>1, <1>2, FrameReady DEF SafeFrames, Safe

LEMMA MainFound ==
  ASSUME NEW from \in Nat, Mains(from) # {}
  PROVE  Min(Mains(from)) \in Sections /\ IsLadder(Min(Mains(from)))
<1>1. Mains(from) \in SUBSET Nat
  BY DEF Mains
<1>2. Min(Mains(from)) \in Mains(from)
  BY <1>1, MinIsMember
<1> QED
  BY <1>2 DEF Mains, Sections

(* Only the place of the refresh is left to look at, after one of its steps. *)
LEMMA StepKeeps ==
  ASSUME IInv, SInv, UNCHANGED << rungs, sections, infos, edit, op, edits >>, at # "idle",
         at' \in {"idle", "rung", "last", "next"},
         stack' \in Seq(SafeFrames), at' = "idle" <=> stack' = << >>, Rested', NotPastTheEnd'
  PROVE  SInv'
<1>0. UNCHANGED << used, next, prev, coil, sections, infos, edit, op, edits >>
  BY DEF rungs
<1>1. SafeFrames' = SafeFrames
  BY <1>0, SafeSame
<1>2. \A s : IsLadder(s)' = IsLadder(s) /\ Of(s)' = Of(s)
  BY <1>0 DEF IsLadder, Of, FirstOf, LastOf, Met, Closed
<1>3. \A q, s : (JumpsTo(q, s)' <=> JumpsTo(q, s)) /\ (Gone(q, s)' <=> Gone(q, s))
  BY <1>0, <1>2 DEF JumpsTo, Gone
<1>4. JumpsStay' /\ FirstsReady' /\ SubsInLadder'
  <2>1. JumpsStay'
    BY <1>0, <1>2, <1>3 DEF SInv, JumpsStay, Linking, Awaited, JumpsTo
  <2>2. FirstsReady'
    BY <1>0, <1>2, <1>3 DEF SInv, FirstsReady, IsLadder
  <2>3. SubsInLadder'
    BY <1>0 DEF SInv, SubsInLadder
  <2> QED
    BY <2>1, <2>2, <2>3
<1>5. LastsReady'
  <2>1. Uncopied' => Uncopied
    BY <1>0 DEF Uncopied, IsLadder
  <2>2. Of(infos.section)' = Of(infos.section)
    BY <1>0 DEF IsLadder, Of, FirstOf, LastOf, Met, Closed
  <2> QED
    BY <1>0, <2>1, <2>2 DEF SInv, LastsReady
<1> QED
  BY <1>0, <1>1, <1>4, <1>5 DEF SInv

LEMMA OnTop ==
  ASSUME SInv, at # "idle"
  PROVE  /\ stack \in Seq(SafeFrames) /\ stack # << >> /\ Len(stack) \in Nat \ {0}
         /\ Top \in SafeFrames /\ Top \in FrameType /\ Safe(Top)
         /\ Top.section \in Sections /\ Top.rung \in Rungs
<1>1. stack \in Seq(SafeFrames) /\ stack # << >>
  BY DEF SInv
<1>2. Len(stack) \in Nat \ {0} /\ Top \in SafeFrames
  BY <1>1 DEF Top
<1> QED
  BY <1>1, <1>2 DEF SafeFrames, FrameType

LEMMA DoneKeeps ==
  ASSUME IInv, SInv, at # "idle", Done, UNCHANGED << rungs, sections, infos, edit, op, edits >>
  PROVE  SInv'
<1>1. stack \in Seq(SafeFrames) /\ stack # << >> /\ Len(stack) \in Nat \ {0} /\ Top \in SafeFrames
  BY OnTop
<1>2. \A i \in 1 .. Len(stack) : i < Len(stack) => stack[i].rung \notin stack[i].due
  BY DEF SInv, Rested
<1>3. CASE Len(stack) > 1
  <2>1. at' = "last" /\ stack' = Front(stack)
    BY <1>3 DEF Done
  <2>2. /\ Front(stack) \in Seq(SafeFrames) /\ Len(Front(stack)) = Len(stack) - 1
        /\ \A i \in 1 .. Len(stack) - 1 : Front(stack)[i] = stack[i]
    BY <1>1, StackOps
  <2>3. stack' # << >>
    BY <1>1, <1>3, <2>1, <2>2
  <2>4. Rested'
    BY <1>1, <1>2, <2>1, <2>2 DEF Rested
  <2>5. NotPastTheEnd'
    BY <2>1 DEF NotPastTheEnd
  <2> QED
    BY <2>1, <2>2, <2>3, <2>4, <2>5, StepKeeps
<1>4. CASE ~(Len(stack) > 1) /\ Mains(Head(stack).section + 1) # {}
  <2>1. PICK s \in Sections : IsLadder(s) /\ at' = "rung" /\ stack' = << Frame(s) >>
    <3>1. Head(stack).section + 1 \in Nat
      BY <1>1 DEF SafeFrames, FrameType, Sections
    <3> QED
      BY <1>4, <3>1, MainFound DEF Done
  <2>2. Frame(s) \in SafeFrames
    BY <2>1, FrameSafe
  <2>3. stack' \in Seq(SafeFrames) /\ Len(stack') = 1 /\ stack' # << >>
    BY <2>1, <2>2
  <2>4. Rested'
    BY <2>1, <2>3 DEF Rested
  <2>5. NotPastTheEnd'
    BY <2>1 DEF NotPastTheEnd
  <2> QED
    BY <2>1, <2>3, <2>4, <2>5, StepKeeps
<1>5. CASE ~(Len(stack) > 1) /\ Mains(Head(stack).section + 1) = {}
  <2>1. at' = "idle" /\ stack' = << >>
    BY <1>5 DEF Done
  <2>2. stack' \in Seq(SafeFrames)
    BY <2>1
  <2>3. Rested'
    BY <2>1 DEF Rested
  <2>4. NotPastTheEnd'
    BY <2>1 DEF NotPastTheEnd
  <2> QED
    BY <2>1, <2>2, <2>3, <2>4, StepKeeps
<1> QED
  BY <1>3, <1>4, <1>5

LEMMA RefreshedSafe ==
  ASSUME SInv, at # "idle"
  PROVE  /\ Refreshed \in SafeFrames
         /\ Refreshed.section = Top.section /\ Refreshed.rung = Top.rung
         /\ Refreshed.rung \notin Refreshed.due
<1>1. Top \in FrameType /\ Safe(Top)
  BY OnTop
<1>2. /\ Refreshed \in FrameType
      /\ Refreshed.section = Top.section /\ Refreshed.rung = Top.rung
      /\ Refreshed.due = Top.due \ {Top.rung}
  BY <1>1 DEF Refreshed, FrameType
<1>3. Safe(Refreshed)
  <2> DEFINE f == Top  g == Refreshed
  <2>1. /\ Safe(f)
        /\ g.section = f.section /\ g.rung = f.rung /\ g.due \subseteq f.due
    BY <1>1, <1>2
  <2> HIDE DEF f, g
  <2>2. Safe(g)
    BY <2>1 DEF Safe
  <2> QED
    BY <2>2 DEF g
<1> QED
  BY <1>2, <1>3 DEF SafeFrames

(* The rung under refresh changes, or what is due of it.                   *)
LEMMA TopReplaced ==
  ASSUME SInv, at # "idle", NEW g \in SafeFrames, stack' = ReplaceAt(stack, Len(stack), g)
  PROVE  /\ Len(stack) \in Nat \ {0}
         /\ stack' \in Seq(SafeFrames) /\ stack' # << >> /\ Len(stack') = Len(stack)
         /\ stack'[Len(stack)] = g /\ Top' = g
         /\ \A i \in 1 .. Len(stack) - 1 :
               stack'[i] = stack[i] /\ stack'[i].rung \notin stack'[i].due
<1> PICK st : st = stack
  OBVIOUS
<1> PICK S : S = SafeFrames
  OBVIOUS
<1>1. st \in Seq(S) /\ st # << >> /\ Len(st) \in Nat \ {0} /\ g \in S
  BY OnTop
<1>2. stack' = [i \in 1 .. Len(st) |-> IF i = Len(st) THEN g ELSE st[i]]
  <2>1. stack' = [st EXCEPT ![Len(st)] = g]
    BY DEF ReplaceAt
  <2>2. DOMAIN st = 1 .. Len(st)
    BY <1>1
  <2> QED
    BY <1>1, <2>1, <2>2
<1>3. /\ stack' \in Seq(S) /\ Len(stack') = Len(st) /\ stack'[Len(st)] = g
      /\ \A i \in 1 .. Len(st) - 1 : stack'[i] = st[i]
  <2>1. \A i \in 1 .. Len(st) : st[i] \in S
    BY <1>1
  <2> QED
    BY <1>1, <1>2, <2>1
<1>4. \A i \in 1 .. Len(stack) : i < Len(stack) => stack[i].rung \notin stack[i].due
  BY DEF SInv, Rested
<1> QED
  BY <1>1, <1>3, <1>4 DEF Top

LEMMA TestLastKeeps ==
  ASSUME IInv, SInv, at \in {"rung", "last"}, TestLast,
         UNCHANGED << rungs, sections, infos, edit, op, edits >>
  PROVE  SInv'
<1>1. CASE Top.rung = sections[Top.section].last
  BY <1>1, DoneKeeps DEF TestLast
<1>2. CASE Top.rung # sections[Top.section].last
  <2>1. at' = "next" /\ stack' = ReplaceAt(stack, Len(stack), Refreshed)
    BY <1>2 DEF TestLast
  <2>2. Safe(Top) /\ Top.section \in Sections
    BY OnTop
  <2>3. /\ Refreshed \in SafeFrames
        /\ Refreshed.section = Top.section /\ Refreshed.rung = Top.rung
        /\ Refreshed.rung \notin Refreshed.due
    BY RefreshedSafe
  <2> PICK g \in SafeFrames : g = Refreshed
    BY <2>3
  <2>4. /\ Len(stack) \in Nat \ {0}
        /\ stack' \in Seq(SafeFrames) /\ stack' # << >> /\ Len(stack') = Len(stack)
        /\ stack'[Len(stack)] = g /\ Top' = g
        /\ \A i \in 1 .. Len(stack) - 1 :
              stack'[i] = stack[i] /\ stack'[i].rung \notin stack'[i].due
    BY <2>1, TopReplaced
  <2>6. Rested'
    BY <2>1, <2>3, <2>4 DEF Rested
  <2>7. Top.rung # LastOf(Top.section)
    BY <1>2, <2>2 DEF LastOf, Safe, Uncopied
  <2>8. NotPastTheEnd'
    <3>1. Top'.rung = Top.rung /\ Top'.section = Top.section
      BY <2>3, <2>4
    <3>2. sections' = sections /\ infos' = infos
      OBVIOUS
    <3>3. \A s : LastOf(s)' = LastOf(s)
      BY <3>2 DEF LastOf
    <3> QED
      BY <1>2, <2>7, <3>1, <3>2, <3>3 DEF NotPastTheEnd
  <2> QED
    BY <2>1, <2>4, <2>6, <2>8, StepKeeps
<1> QED
  BY <1>1, <1>2

(* What is ahead of a rung is ahead of the next one, but that rung.        *)
LEMMA MetNext ==
  ASSUME NEW q \in Rungs, NEW l, q # l, next[q] \in Rungs
  PROVE  Met(q, l) \subseteq {q} \cup Met(next[q], l)
<1> SUFFICES ASSUME NEW r \in Met(q, l), r # q, NEW S \in SUBSET Rungs, Closed(S, next[q], l)
             PROVE  r \in S
  BY DEF Met
<1>1. next[q] # None /\ q # None
  BY DEF Rungs, None
<1>2. Closed(S \cup {q}, q, l) /\ S \cup {q} \in SUBSET Rungs
  BY <1>1 DEF Closed
<1> QED
  BY <1>2 DEF Met

LEMMA FollowKeeps ==
  ASSUME IInv, SInv, FollowNext
  PROVE  SInv'
<1> PICK s : s = Top.section
  OBVIOUS
<1> PICK q : q = Top.rung
  OBVIOUS
<1> PICK l : l = sections[s].last
  OBVIOUS
<1>0. /\ at = "next" /\ at' = "rung" /\ stack' = ReplaceAt(stack, Len(stack), [Top EXCEPT !.rung = next[q]])
      /\ UNCHANGED << rungs, sections, infos, edit, op, edits >>
  BY DEF FollowNext
<1>1. /\ Shape /\ LastsReady /\ infos.section \in Sections
      /\ Safe(Top) /\ Top \in FrameType /\ s \in Sections /\ q \in Rungs /\ IsLadder(s)
      /\ q # l /\ q # LastOf(s)
  BY <1>0, OnTop, IInvShape DEF SInv, NotPastTheEnd, IInv, TypeOK, Safe
<1>2. q \notin Top.due
  BY <1>0, OnTop DEF SInv, Rested, Top
<1>3. next[q] \in Of(s)
  BY <1>1 DEF Safe, Gone, Shape
<1>4. next[q] \in Rungs
  BY <1>1, <1>3 DEF Shape
<1>5. ASSUME Uncopied, next[q] = infos.last PROVE FALSE
  <2> PICK t : t = infos.section
    OBVIOUS
  <2> PICK k : k = sections[t].last
    OBVIOUS
  <2>1. /\ op # "idle" /\ edit.mode = "add" /\ k \in Of(t) /\ next[k] = infos.last
        /\ IsLadder(t) /\ k # LastOf(t) /\ LastOf(t) = infos.last
    BY <1>0, <1>1, <1>5 DEF LastsReady, Uncopied, LastOf
  <2>2. q \in Of(s)
    BY <1>1, <2>1 DEF Safe
  <2>3. s = t
    BY <1>1, <1>3, <1>5, <2>1 DEF Shape
  <2>4. Back[next[q]] = q /\ Back[next[k]] = k
    BY <1>1, <2>1, <2>2, <2>3 DEF Shape
  <2> QED
    BY <1>1, <1>5, <2>1, <2>3, <2>4
<1> PICK g : g = [Top EXCEPT !.rung = next[q]]
  OBVIOUS
<1>6. g \in FrameType /\ g.section = s /\ g.rung = next[q] /\ g.due = Top.due
  BY <1>1, <1>4 DEF FrameType
<1>7. g.due \subseteq Met(next[q], l)
  BY <1>1, <1>2, <1>4, <1>6, MetNext DEF Safe
<1>8. g \in SafeFrames
  BY <1>1, <1>3, <1>5, <1>6, <1>7 DEF SafeFrames, Safe
<1>9. /\ Len(stack) \in Nat \ {0}
      /\ stack' \in Seq(SafeFrames) /\ stack' # << >> /\ Len(stack') = Len(stack)
      /\ \A i \in 1 .. Len(stack) - 1 :
            stack'[i] = stack[i] /\ stack'[i].rung \notin stack'[i].due
  BY <1>0, <1>8, TopReplaced
<1>10. Rested' /\ NotPastTheEnd'
  BY <1>0, <1>9 DEF Rested, NotPastTheEnd
<1> QED
  BY <1>0, <1>9, <1>10, StepKeeps

LEMMA CoilsTyped ==
  ASSUME NEW c \in Coils
  PROVE  /\ c.kind = "jump" => c.to \in Rungs /\ c = [kind |-> "jump", to |-> c.to]
         /\ c.kind = "call" => c.to \in SubRoutines
<1>1. CASE c = NoCoil
  BY <1>1 DEF NoCoil
<1>2. ASSUME NEW r \in Rungs, c = [kind |-> "jump", to |-> r]
      PROVE  c.kind = "jump" /\ c.to = r
  BY <1>2
<1>3. ASSUME NEW n \in SubRoutines, c = [kind |-> "call", to |-> n]
      PROVE  c.kind = "call" /\ c.to = n
  BY <1>3
<1> QED
  BY <1>1, <1>2, <1>3 DEF Coils, Jumps, Calls

LEMMA JumpKeeps ==
  ASSUME IInv, SInv, Jump
  PROVE  SInv'
<1> PICK s : s = Top.section
  OBVIOUS
<1> PICK q : q = Top.rung
  OBVIOUS
<1> PICK goto : goto = coil[q].to
  OBVIOUS
<1>0. /\ at = "rung" /\ coil[q].kind = "jump" /\ UNCHANGED << rungs, sections, infos, edit, op, edits >>
  BY DEF Jump, Refreshing
<1>1. CASE ~(used[goto] /\ Top.mad < MadMax)
  <2>1. Done
    BY <1>1 DEF Jump
  <2> QED
    BY <1>0, <2>1, DoneKeeps
<1>2. CASE used[goto] /\ Top.mad < MadMax
  <2>0. /\ stack' = ReplaceAt(stack, Len(stack), [Top EXCEPT !.rung = goto, !.mad = @ + 1, !.due = {}])
        /\ at' = at
    BY <1>2 DEF Jump
  <2>1. /\ Shape /\ LastsReady /\ infos.section \in Sections /\ JumpsStay
        /\ Safe(Top) /\ Top \in FrameType /\ s \in Sections /\ q \in Rungs /\ IsLadder(s)
        /\ coil[q] \in Coils
    BY <1>0, OnTop, IInvShape DEF SInv, IInv, TypeOK, Safe
  <2>2. goto \in Rungs /\ coil[q] = [kind |-> "jump", to |-> goto]
    BY <1>0, <2>1, CoilsTyped
  <2>3. goto \in Of(s)
    <3>1. JumpsTo(q, s)
      BY <2>1 DEF Safe, Gone, JumpsStay
    <3> QED
      BY <1>0, <1>2, <3>1 DEF JumpsTo
  <2>4. ASSUME Uncopied, goto = infos.last PROVE FALSE
    <3>1. op # "idle" /\ edit.mode = "add" /\ infos.last = edit.num
      BY <1>0, <2>1, <2>4 DEF LastsReady
    <3>2. used[q]
      BY <2>1, <3>1 DEF Safe, Shape
    <3> QED
      BY <2>1, <2>2, <2>4, <3>1, <3>2 DEF JumpsStay, Awaited
  <2> PICK g : g = [Top EXCEPT !.rung = goto, !.mad = @ + 1, !.due = {}]
    OBVIOUS
  <2>6. g \in FrameType /\ g.section = s /\ g.rung = goto /\ g.due = {}
    <3> PICK f : f = Top
      OBVIOUS
    <3>1. f \in FrameType /\ f.mad + 1 \in Nat
      BY <2>1 DEF FrameType
    <3>2. g = [f EXCEPT !.rung = goto, !.mad = f.mad + 1, !.due = {}]
      OBVIOUS
    <3> QED
      BY <2>2, <3>1, <3>2 DEF FrameType
  <2>8. g \in SafeFrames
    BY <2>1, <2>3, <2>4, <2>6 DEF SafeFrames, Safe
  <2>9. /\ Len(stack) \in Nat \ {0}
        /\ stack' \in Seq(SafeFrames) /\ stack' # << >> /\ Len(stack') = Len(stack)
        /\ \A i \in 1 .. Len(stack) - 1 :
              stack'[i] = stack[i] /\ stack'[i].rung \notin stack'[i].due
    BY <1>0, <2>0, <2>8, TopReplaced
  <2>10. Rested' /\ NotPastTheEnd'
    BY <1>0, <2>0, <2>9 DEF Rested, NotPastTheEnd
  <2> QED
    BY <1>0, <2>0, <2>9, <2>10, StepKeeps
<1> QED
  BY <1>1, <1>2

LEMMA CallKeeps ==
  ASSUME IInv, SInv, Call
  PROVE  SInv'
<1>0. at = "rung" /\ at' = at /\ UNCHANGED << rungs, sections, infos, edit, op, edits >>
  BY DEF Call, Refreshing
<1> PICK s : s = SearchSubRoutineWithItsNumber(coil[Top.rung].to)
  OBVIOUS
<1>1. /\ s # None /\ coil[Top.rung].kind = "call"
      /\ stack' = Append(ReplaceAt(stack, Len(stack), Refreshed), Frame(s))
  BY DEF Call
<1>2. s \in Sections /\ IsLadder(s)
  <2>1. coil[Top.rung].to # None
    <3>1. coil[Top.rung] \in Coils
      BY <1>0, OnTop DEF SInv
    <3> QED
      BY <1>1, <3>1, CoilsTyped DEF SubRoutines, None
  <2>2. s \in {x \in Sections : sections[x].used /\ sections[x].sub = coil[Top.rung].to}
    <3> PICK found : found = {x \in Sections : sections[x].used /\ sections[x].sub = coil[Top.rung].to}
      OBVIOUS
    <3>1. found # {} /\ s = Min(found) /\ found \in SUBSET Nat
      BY <1>1 DEF SearchSubRoutineWithItsNumber, Sections
    <3> QED
      BY <3>1, MinIsMember
  <2> QED
    BY <2>1, <2>2 DEF SInv, SubsInLadder, IsLadder
<1>3. Frame(s) \in SafeFrames
  BY <1>0, <1>2, FrameSafe
<1>4. Refreshed \in SafeFrames /\ Refreshed.rung \notin Refreshed.due
  BY <1>0, RefreshedSafe
<1> PICK g \in SafeFrames : g = Refreshed
  BY <1>4
<1> PICK f \in SafeFrames : f = Frame(s)
  BY <1>3
<1> PICK st : st = ReplaceAt(stack, Len(stack), g)
  OBVIOUS
<1> PICK S : S = SafeFrames
  OBVIOUS
<1>5. /\ Len(stack) \in Nat \ {0}
      /\ st \in Seq(S) /\ Len(st) = Len(stack) /\ st[Len(stack)] = g
      /\ \A i \in 1 .. Len(stack) - 1 : st[i] = stack[i]
  <2> PICK sk : sk = stack
    OBVIOUS
  <2>1. sk \in Seq(S) /\ sk # << >> /\ Len(sk) \in Nat \ {0}
    BY <1>0, OnTop
  <2>2. st = [i \in 1 .. Len(sk) |-> IF i = Len(sk) THEN g ELSE sk[i]]
    <3>1. st = [sk EXCEPT ![Len(sk)] = g]
      BY DEF ReplaceAt
    <3>2. DOMAIN sk = 1 .. Len(sk)
      BY <2>1
    <3> QED
      BY <2>1, <3>1, <3>2
  <2>3. \A i \in 1 .. Len(sk) : sk[i] \in S
    BY <2>1
  <2> QED
    BY <2>1, <2>2, <2>3
<1>6. /\ stack' \in Seq(S) /\ Len(stack') = Len(stack) + 1 /\ stack' # << >>
      /\ \A i \in 1 .. Len(stack) : stack'[i] = st[i]
  <2>1. stack' = Append(st, f)
    BY <1>1
  <2> QED
    BY <1>5, <2>1, AppendProperties
<1>7. \A i \in 1 .. Len(stack) : i < Len(stack) => stack[i].rung \notin stack[i].due
  BY DEF SInv, Rested
<1>8. Rested'
  <2> SUFFICES ASSUME NEW i \in 1 .. Len(stack'), i < Len(stack')
               PROVE  stack'[i].rung \notin stack'[i].due
    BY <1>0 DEF Rested
  <2>1. i \in 1 .. Len(stack) /\ stack'[i] = st[i]
    BY <1>5, <1>6
  <2> QED
    BY <1>4, <1>5, <1>7, <2>1
<1>9. NotPastTheEnd'
  BY <1>0 DEF NotPastTheEnd
<1> QED
  BY <1>0, <1>6, <1>8, <1>9, StepKeeps

LEMMA BeginKeeps ==
  ASSUME IInv, SInv, ScanBegin
  PROVE  SInv'
<1>0. /\ at = "idle" /\ running /\ at' = "rung" /\ edits' = IF op = "idle" THEN 0 ELSE 1
      /\ UNCHANGED << used, next, prev, coil, sections, infos, edit, op, running >>
      /\ Mains(0) # {} /\ stack' = << Frame(Min(Mains(0))) >>
  BY DEF ScanBegin, rungs
<1>1. PICK s \in Sections : IsLadder(s) /\ stack' = << Frame(s) >>
  BY <1>0, MainFound
<1>2. FirstsReady /\ LastsReady
  BY DEF SInv
<1> PICK f : f = Frame(s)
  OBVIOUS
<1>3. /\ f \in FrameType /\ f.section = s
      /\ f.rung \in Of(s) \/ (op = "first" /\ edit.mode = "none" /\ Gone(f.rung, s))
      /\ Uncopied => f.rung # infos.last
      /\ f.due \subseteq Met(f.rung, sections[s].last)
  BY <1>0, <1>1, <1>2, FrameReady
<1>4. \A t : IsLadder(t)' = IsLadder(t) /\ Of(t)' = Of(t)
  BY <1>0 DEF IsLadder, Of, FirstOf, LastOf, Met, Closed
<1>5. \A q, t : (JumpsTo(q, t)' <=> JumpsTo(q, t)) /\ (Gone(q, t)' <=> Gone(q, t))
  BY <1>0, <1>4 DEF JumpsTo, Gone
<1>6. Safe(f)'
  <2>1. IsLadder(s)'
    BY <1>1, <1>4
  <2>2. f.rung \in Of(s)' \/ (Gone(f.rung, s)' /\ edits' > 0)
    BY <1>0, <1>3, <1>4, <1>5
  <2>3. f.rung \notin Of(s)' /\ op' # "idle" => edit'.mode = "none"
    BY <1>0, <1>3, <1>4
  <2>4. Uncopied' => f.rung # infos'.last
    BY <1>0, <1>3 DEF Uncopied, IsLadder
  <2>5. f.due \subseteq Met(f.rung, sections[s].last)'
    BY <1>0, <1>3 DEF Met, Closed
  <2>6. f.section = s
    BY <1>3
  <2> QED
    BY <2>1, <2>2, <2>3, <2>4, <2>5, <2>6 DEF Safe
<1>7. f \in SafeFrames'
  BY <1>3, <1>6 DEF SafeFrames
<1> PICK S : S = SafeFrames'
  OBVIOUS
<1>8. stack' \in Seq(S) /\ Len(stack') = 1 /\ stack' # << >>
  BY <1>1, <1>7
<1>9. Rested' /\ NotPastTheEnd'
  BY <1>0, <1>8 DEF Rested, NotPastTheEnd
<1>10. JumpsStay'
  BY <1>0, <1>4, <1>5 DEF SInv, JumpsStay, Linking, Awaited, JumpsTo
<1>11. FirstsReady'
  BY <1>0, <1>4, <1>5 DEF SInv, FirstsReady, IsLadder
<1>12. SubsInLadder'
  BY <1>0 DEF SInv, SubsInLadder
<1>13. LastsReady'
  <2>1. Uncopied' => Uncopied
    BY <1>0 DEF Uncopied, IsLadder
  <2>2. Of(infos.section)' = Of(infos.section)
    BY <1>0 DEF IsLadder, Of, FirstOf, LastOf, Met, Closed
  <2> QED
    BY <1>0, <2>1, <2>2 DEF SInv, LastsReady
<1>14. edits' \in Nat /\ (edits' = 0 => op' = "idle")
  BY <1>0 DEF SInv
<1> QED
  BY <1>0, <1>8, <1>9, <1>10, <1>11, <1>12, <1>13, <1>14 DEF SInv

-----------------------------------------------------------------------------
(* The steps of the operator: the stack stays as it is.                    *)
LEMMA StackStays ==
  ASSUME SInv, UNCHANGED task, at # "idle" => \A f \in SafeFrames : Safe(f)'
  PROVE  stack' \in Seq(SafeFrames') /\ (at' = "idle" <=> stack' = << >>) /\ Rested'
<1>1. stack \in Seq(SafeFrames) /\ (at = "idle" <=> stack = << >>) /\ Rested
  BY DEF SInv
<1>2. stack' = stack /\ at' = at
  BY DEF task
<1>3. Rested'
  BY <1>1, <1>2 DEF Rested
<1> PICK S : S = SafeFrames
  OBVIOUS
<1> PICK S2 : S2 = SafeFrames'
  OBVIOUS
<1>4. at # "idle" => \A f \in S : f \in S2
  BY DEF SafeFrames
<1>5. stack \in Seq(S2)
  <2>1. CASE stack = << >>
    BY <2>1
  <2>2. CASE stack # << >>
    <3>1. \A f \in S : f \in S2
      BY <1>1, <1>4, <2>2
    <3> QED
      BY <1>1, <3>1
  <2> QED
    BY <2>1, <2>2
<1> QED
  BY <1>1, <1>2, <1>3, <1>5

(* Steps between two edits: what is displayed and whether the engine runs. *)
LEMMA RestingKeeps ==
  ASSUME IInv, IInv', SInv, Idle, Idle', edit'.coil \in Coils,
         UNCHANGED << used, next, coil, sections, task, edits >>,
         \A t \in Sections : Of(t)' = Of(t)
  PROVE  SInv'
<1>1. Copied /\ Copied'
  BY IdleCopied, IdleCopiedNext
<1>2. op = "idle" /\ op' = "idle" /\ at' = at /\ stack' = stack
  BY DEF Idle, task
<1>3. \A t : IsLadder(t)' = IsLadder(t)
  BY DEF IsLadder
<1>4. \A t \in Sections : \A q : (JumpsTo(q, t)' <=> JumpsTo(q, t)) /\ (Gone(q, t)' <=> Gone(q, t))
  BY DEF JumpsTo, Gone
<1>5. ASSUME NEW f \in SafeFrames PROVE Safe(f)'
  <2>1. f.section \in Sections /\ Safe(f)
    BY DEF SafeFrames, FrameType
  <2>2. ~Uncopied'
    BY <1>1 DEF Copied
  <2>3. Met(f.rung, sections[f.section].last)' = Met(f.rung, sections[f.section].last)
    BY DEF Met, Closed
  <2> QED
    BY <1>2, <1>3, <1>4, <2>1, <2>2, <2>3 DEF Safe
<1>6. stack' \in Seq(SafeFrames') /\ (at' = "idle" <=> stack' = << >>) /\ Rested'
  BY <1>5, StackStays
<1>7. NotPastTheEnd'
  <2>1. ASSUME at = "next"
        PROVE  /\ Top' = Top /\ Top.rung # sections'[Top.section].last
               /\ LastOf(Top.section)' = sections'[Top.section].last
    <3>1. Top.section \in Sections /\ IsLadder(Top.section) /\ Top' = Top
      BY <1>2, <2>1, OnTop DEF Safe, Top
    <3>2. Top.rung # sections'[Top.section].last
      BY <2>1 DEF SInv, NotPastTheEnd
    <3> PICK s \in Sections : s = Top.section
      BY <3>1
    <3>3. LastOf(s)' = sections'[s].last
      BY <1>1, <1>3, <3>1 DEF Copied
    <3> QED
      BY <3>1, <3>2, <3>3
  <2> QED
    BY <1>2, <2>1 DEF NotPastTheEnd
<1>8. JumpsStay'
  BY <1>2, <1>4 DEF SInv, JumpsStay, Linking
<1>9. FirstsReady' /\ LastsReady' /\ SubsInLadder'
  <2>1. FirstsReady' /\ LastsReady'
    BY <1>1 DEF Copied
  <2>2. SubsInLadder'
    BY DEF SInv, SubsInLadder
  <2> QED
    BY <2>1, <2>2
<1> QED
  BY <1>2, <1>6, <1>7, <1>8, <1>9 DEF SInv

LEMMA QuietStepsKeep ==
  ASSUME IInv, SInv,
         \/ DoFlipFlopRunStop \/ ChoiceOfTheCurrentRung \/ SetSectionSelected
         \/ AddRung \/ ModifyCurrentRung \/ CancelRungEdited \/ ApplyOnSequential
  PROVE  SInv'
<1>1. CASE DoFlipFlopRunStop
  <2>1. Idle /\ Idle' /\ UNCHANGED << used, next, prev, coil, sections, infos, edit, op, task, edits >>
    BY <1>1 DEF DoFlipFlopRunStop, Idle, rungs
  <2>2. IInv'
    BY <2>1, QuietKeeps
  <2>3. \A t : Of(t)' = Of(t)
    BY <2>1 DEF IsLadder, Of, FirstOf, LastOf, Met, Closed
  <2>4. edit'.coil \in Coils
    BY <2>1 DEF SInv
  <2> QED
    BY <2>1, <2>2, <2>3, <2>4, RestingKeeps
<1>2. CASE ChoiceOfTheCurrentRung \/ SetSectionSelected
  <2>1. /\ Idle /\ Idle' /\ UNCHANGED << used, next, coil, sections, task, edits >>
        /\ edit' = edit \/ edit' = NoEdit
    BY <1>2 DEF ChoiceOfTheCurrentRung, SetSectionSelected, Idle, rungs
  <2>2. edit'.coil \in Coils
    BY <2>1 DEF SInv, NoEdit, Coils
  <2> QED
    BY <1>2, <2>1, <2>2, LookingKeeps, RestingKeeps
<1>3. CASE AddRung \/ ModifyCurrentRung \/ CancelRungEdited \/ ApplyOnSequential
  <2>1. Idle /\ Idle' /\ UNCHANGED << used, next, coil, sections, task, edits >>
    BY <1>3 DEF AddRung, ModifyCurrentRung, CancelRungEdited, ApplyOnSequential, Idle, rungs
  <2>2. edit'.coil \in Coils
    <3>1. CASE AddRung
      BY <3>1 DEF AddRung, NoEdit, Coils
    <3>2. CASE ModifyCurrentRung
      <4>1. infos.current \in Rungs /\ edit'.coil = coil[infos.current]
        BY <3>2 DEF ModifyCurrentRung, IInv, TypeOK
      <4> QED
        BY <4>1 DEF SInv
    <3>3. CASE CancelRungEdited \/ ApplyOnSequential
      BY <3>3 DEF CancelRungEdited, ApplyOnSequential, NoEdit, Coils
    <3> QED
      BY <1>3, <3>1, <3>2, <3>3
  <2> QED
    BY <1>3, <2>1, <2>2, OpeningKeeps, RestingKeeps
<1> QED
  BY <1>1, <1>2, <1>3

(* What is ahead of q stays ahead when a way from rung to rung of X does.  *)
LEMMA StillAhead ==
  ASSUME NEW X \in SUBSET Rungs, NEW q, NEW l, NEW l2,
         \A S \in SUBSET Rungs : Closed(S, q, l2)' => Closed(S \cap X, q, l)
  PROVE  Met(q, l) \subseteq Met(q, l2)'
BY DEF Met

(* Before the links are saved, the sections have their ends in SectionArray. *)
LEMMA LinkingCopied ==
  ASSUME IInv, op \in {"idle", "own", "in"}, NEW s \in Sections, IsLadder(s)
  PROVE  FirstOf(s) = sections[s].first /\ LastOf(s) = sections[s].last
BY DEF IInv, Pending, IsLadder, FirstOf, LastOf

(* The rung under edit is written, or given its own links.                 *)
LEMMA NewRungApart ==
  ASSUME IInv, SInv, op \in {"idle", "own"}, op' # "idle",
         op' \in {"own", "in", "first"}, op' = "in" <=> op = "own",
         edit.mode \in {"add", "insert", "modify"},
         edit.mode # "modify" => \A s \in Sections : edit.num \notin Of(s),
         used' = [used EXCEPT ![edit.num] = TRUE],
         \A r \in Rungs : edit.mode = "modify" \/ r # edit.num => next'[r] = next[r],
         coil' \in [Rungs -> Coils],
         \A r \in Rungs \ {edit.num} : coil'[r] = coil[r],
         \A s \in Sections : edit.num \in Of(s) => JumpsTo(edit.num, s)',
         Linking' => JumpsTo(edit.num, infos.section)' /\ ~Awaited(edit.num)',
         op' = "first" => edit.mode = "modify",
         at # "idle" => \A f \in SafeFrames : f.rung \in Of(f.section),
         at # "idle" => edits' > 0, edits' \in Nat, UNCHANGED << sections, infos, edit, task >>,
         \A t \in Sections : Of(t)' = Of(t)
  PROVE  SInv'
<1>0. /\ at' = at /\ stack' = stack /\ Shape /\ edit.num \in Rungs /\ infos.section \in Sections
      /\ op \in {"idle", "own", "in"} /\ op' \in {"idle", "own", "in", "first"}
  BY IInvShape DEF task, IInv, TypeOK
<1>1. \A t : IsLadder(t)' = IsLadder(t) /\ FirstOf(t)' = FirstOf(t) /\ LastOf(t)' = LastOf(t)
  BY DEF IsLadder, FirstOf, LastOf
<1>2. \A t \in Sections : IsLadder(t) =>
         FirstOf(t) = sections[t].first /\ LastOf(t) = sections[t].last
  BY <1>0, LinkingCopied
<1>3. ~Uncopied /\ ~Uncopied'
  BY <1>0, <1>1, <1>2 DEF Uncopied, LastOf
<1>4. ASSUME NEW f \in SafeFrames, at # "idle" PROVE Safe(f)'
  <2> PICK s : s = f.section
    OBVIOUS
  <2> PICK l : l = sections[s].last
    OBVIOUS
  <2>1. /\ s \in Sections /\ Safe(f) /\ f.rung \in Of(s) /\ IsLadder(s) /\ l = LastOf(s)
        /\ Of(s) \in SUBSET Rungs
    BY <1>0, <1>2, <1>4 DEF SafeFrames, FrameType, Safe, Shape
  <2>2. \A r \in Of(s) : next'[r] = next[r]
    BY <2>1
  <2>3. \A S \in SUBSET Rungs : Closed(S, f.rung, l)' => Closed(S \cap Of(s), f.rung, l)
    <3> SUFFICES ASSUME NEW S \in SUBSET Rungs, Closed(S, f.rung, l)'
                 PROVE  Closed(S \cap Of(s), f.rung, l)
      OBVIOUS
    <3>1. f.rung # None => f.rung \in S
      BY DEF Closed
    <3>2. \A r \in S \ {l} : next'[r] # None => next'[r] \in S
      BY DEF Closed
    <3>3. \A r \in Of(s) \ {l} : next[r] \in Of(s)
      BY <1>0, <2>1 DEF Shape
    <3> QED
      BY <2>1, <2>2, <3>1, <3>2, <3>3 DEF Closed
  <2>4. Met(f.rung, l) \subseteq Met(f.rung, l)'
    BY <2>1, <2>3, StillAhead
  <2>5. f.due \subseteq Met(f.rung, sections[s].last)'
    BY <2>1, <2>4 DEF Safe
  <2> QED
    BY <1>1, <1>3, <2>1, <2>5 DEF Safe
<1>5. stack' \in Seq(SafeFrames') /\ (at' = "idle" <=> stack' = << >>) /\ Rested'
  BY <1>4, StackStays
<1>6. NotPastTheEnd'
  BY <1>0, <1>1 DEF SInv, NotPastTheEnd, Top
<1>7. JumpsStay'
  <2>1. ASSUME NEW s \in Sections, NEW q \in Of(s) PROVE JumpsTo(q, s)'
    <3>1. CASE q = edit.num
      BY <2>1, <3>1
    <3>2. CASE q # edit.num
      <4>1. q \in Rungs /\ coil'[q] = coil[q] /\ JumpsTo(q, s)
        BY <1>0, <2>1, <3>2 DEF Shape, SInv, JumpsStay
      <4>2. coil[q].kind = "jump" => coil[q].to \in Rungs
        BY <4>1, CoilsTyped DEF SInv
      <4>3. CASE edit.mode = "modify"
        <5>1. used[edit.num]
          BY <1>0, <4>3 DEF IInv, Pending, Linking
        <5>2. \A r \in Rungs : used'[r] = used[r]
          BY <1>0, <5>1 DEF IInv, TypeOK
        <5> QED
          BY <4>1, <4>2, <5>2 DEF JumpsTo
      <4>4. CASE edit.mode # "modify"
        <5>1. Linking'
          BY <4>4 DEF Linking
        <5>2. ~Awaited(edit.num)'
          BY <5>1
        <5>3. used'[q] /\ coil'[q] \in Coils
          <6>1. used[q]
            BY <1>0, <2>1, <4>1 DEF Shape
          <6> QED
            BY <1>0, <4>1, <6>1 DEF IInv, TypeOK
        <5>4. coil[q].kind = "jump" => coil[q].to # edit.num
          <6>1. coil'[q].kind = "jump" => coil'[q] = [kind |-> "jump", to |-> coil'[q].to]
            BY <5>3, CoilsTyped
          <6> QED
            BY <4>1, <5>2, <5>3, <6>1 DEF Awaited
        <5>5. coil[q].kind = "jump" => used'[coil[q].to] = used[coil[q].to]
          BY <1>0, <4>2, <5>4 DEF IInv, TypeOK
        <5> QED
          BY <4>1, <5>5 DEF JumpsTo
      <4> QED
        BY <4>3, <4>4
    <3> QED
      BY <3>1, <3>2
  <2>2. op' # "idle" /\ edit'.mode \in {"add", "insert"} => ~Awaited(edit.num)'
    BY DEF Linking
  <2> QED
    BY <2>1, <2>2 DEF JumpsStay
<1>8. FirstsReady' /\ LastsReady' /\ SubsInLadder'
  <2>1. FirstsReady'
    BY <1>0, <1>1, <1>2 DEF FirstsReady, Shape
  <2>2. SubsInLadder'
    BY DEF SInv, SubsInLadder
  <2> QED
    BY <1>3, <2>1, <2>2 DEF LastsReady
<1> QED
  BY <1>0, <1>5, <1>6, <1>7, <1>8 DEF SInv

LEMMA ApplyStepKeeps ==
  ASSUME Careful, IInv, SInv, ApplyRungEdited
  PROVE  SInv'
<1> PICK n : n = edit.num
  OBVIOUS
<1>0. /\ op = "idle" /\ Idle /\ edit.mode \in {"add", "insert", "modify"} /\ Quick /\ Counted
      /\ op' = IF edit.mode = "modify" THEN "first" ELSE "own"
      /\ UNCHANGED << sections, infos, edit, task >>
      /\ used' = [used EXCEPT ![n] = TRUE] /\ next' = [next EXCEPT ![n] = edit.next]
      /\ IsLadder(infos.section)
  BY DEF ApplyRungEdited, Idle, Editing, IInv, TypeOK
<1>1. PICK c \in Drawn : NoStray(c) /\ coil' = [coil EXCEPT ![n] = c]
  BY DEF ApplyRungEdited
<1>2. /\ Shape /\ n \in Rungs /\ infos.section \in Sections /\ coil \in [Rungs -> Coils]
      /\ edit.coil \in Coils /\ used \in [Rungs -> BOOLEAN] /\ next \in [Rungs -> Links]
      /\ edits \in Nat /\ at' = at /\ ~Linking
  BY <1>0, IInvShape DEF IInv, TypeOK, SInv, task, Linking
<1>3. IInv' /\ \A t \in Sections : Of(t)' = Of(t)
  BY ApplyKeeps
<1>4. c \in Coils
  BY <1>1, <1>2 DEF Drawn, Coils
<1>5. coil' \in [Rungs -> Coils] /\ coil'[n] = c /\ \A r \in Rungs \ {n} : coil'[r] = coil[r]
  BY <1>1, <1>2, <1>4
<1>6. \A s \in Sections : RungsOf(s) = Of(s)
  BY <1>0, LinkingCopied DEF RungsOf, Of
<1>7. at # "idle" => edits = 0 /\ edits' > 0
  BY <1>0, <1>2, NumbersAssumption DEF Quick, Counted, Careful
<1>8. edits' \in Nat
  BY <1>0, <1>2 DEF Counted
<1>9. at # "idle" => \A f \in SafeFrames : f.rung \in Of(f.section)
  BY <1>7 DEF SafeFrames, Safe
<1>10. edit.mode # "modify" => \A s \in Sections : n \notin Of(s)
  <2>1. edit.mode # "modify" => ~used[n]
    BY <1>0 DEF IInv, Pending
  <2> QED
    BY <1>2, <2>1 DEF Shape
<1>11. \A r \in Rungs : edit.mode = "modify" \/ r # n => next'[r] = next[r]
  <2>1. edit.mode = "modify" => next[n] = edit.next
    BY <1>0 DEF IInv, Pending
  <2> QED
    BY <1>0, <1>2, <2>1
<1>12. ASSUME NEW s \in Home PROVE s \in Sections /\ JumpsTo(n, s)'
  <2>1. s \in Sections
    BY <1>2, <1>12 DEF Home
  <2>2. c.kind = "jump" => c.to \in Of(s)
    BY <1>1, <1>6, <1>12, <2>1 DEF NoStray, Careful
  <2> QED
    BY <1>3, <1>5, <2>1, <2>2 DEF JumpsTo
<1>13. \A s \in Sections : n \in Of(s) => JumpsTo(n, s)'
  BY <1>6, <1>10, <1>12 DEF Home
<1>14. ASSUME Linking' PROVE JumpsTo(n, infos.section)' /\ ~Awaited(n)'
  <2>1. edit.mode # "modify" /\ Home = {infos.section}
    BY <1>0, <1>14 DEF Linking, Home
  <2>2. ~Awaited(n)
    BY <1>1, <2>1 DEF NoStray, Careful
  <2>3. c # [kind |-> "jump", to |-> n]
    <3>1. SUFFICES ASSUME c = [kind |-> "jump", to |-> n] PROVE FALSE
      OBVIOUS
    <3>2. c.kind = "jump" /\ c.to = n
      BY <3>1
    <3>3. n \in Of(infos.section)
      BY <1>1, <1>2, <1>6, <2>1, <3>2 DEF NoStray, Careful
    <3> QED
      BY <1>2, <1>10, <2>1, <3>3
  <2>4. ~Awaited(n)'
    BY <1>0, <1>2, <1>5, <2>2, <2>3 DEF Awaited
  <2>5. JumpsTo(n, infos.section)'
    BY <1>0, <1>12, <2>1
  <2> QED
    BY <2>4, <2>5
<1>15. op' # "idle" /\ op' \in {"own", "in", "first"} /\ (op' = "in" <=> op = "own")
       /\ (op' = "first" => edit.mode = "modify")
  BY <1>0
<1> QED
  BY <1>0, <1>2, <1>3, <1>5, <1>7, <1>8, <1>9, <1>10, <1>11, <1>13, <1>14, <1>15, NewRungApart

LEMMA LinkOwnStepKeeps ==
  ASSUME IInv, SInv, LinkOwn
  PROVE  SInv'
<1> PICK n : n = edit.num
  OBVIOUS
<1>0. /\ op = "own" /\ op' = "in" /\ Linking /\ UNCHANGED << used, coil, sections, infos, edit, running, task, edits >>
  BY DEF LinkOwn, Linking
<1>1. /\ Shape /\ n \in Rungs /\ infos.section \in Sections /\ next \in [Rungs -> Links]
      /\ edit.mode \in {"add", "insert"} /\ used \in [Rungs -> BOOLEAN] /\ at' = at
  BY <1>0, IInvShape DEF IInv, TypeOK, Pending, task
<1>2. IInv' /\ \A t \in Sections : Of(t)' = Of(t)
  BY LinkOwnKeeps
<1>3. used[n] /\ \A s \in Sections : n \notin Of(s)
  BY <1>0, <1>1 DEF Shape
<1>4. used' = [used EXCEPT ![n] = TRUE]
  BY <1>0, <1>1, <1>3
<1>5. \A r \in Rungs \ {n} : next'[r] = next[r]
  BY <1>1 DEF LinkOwn
<1>6. at # "idle" => edits' > 0 /\ \A f \in SafeFrames : f.rung \in Of(f.section)
  BY <1>0, <1>1 DEF SInv, SafeFrames, Safe
<1>7. JumpsTo(n, infos.section)' /\ ~Awaited(n)'
  BY <1>0, <1>1, <1>2 DEF SInv, JumpsStay, JumpsTo, Awaited
<1>8. coil' \in [Rungs -> Coils] /\ edits' \in Nat
  BY <1>0 DEF SInv
<1> QED
  BY <1>0, <1>1, <1>2, <1>3, <1>4, <1>5, <1>6, <1>7, <1>8, NewRungApart

LEMMA SaveFirstKeeps ==
  ASSUME IInv, SInv, SaveFirst
  PROVE  SInv'
<1> PICK t : t = infos.section
  OBVIOUS
<1>0. /\ op = "first" /\ op' = "last" /\ sections' = [sections EXCEPT ![t].first = infos.first]
      /\ UNCHANGED << used, next, coil, infos, edit, running, at, stack, task, edits >>
  BY DEF SaveFirst, rungs, task
<1>1. /\ Shape /\ t \in Sections /\ sections \in [Sections -> SectionType] /\ infos.first \in Rungs
  BY IInvShape DEF IInv, TypeOK
<1>2. IInv' /\ \A s \in Sections : Of(s)' = Of(s)
  BY SavingKeeps
<1>3. /\ sections'[t].first = infos.first
      /\ \A s \in Sections : /\ sections'[s].used = sections[s].used
                             /\ sections'[s].ladder = sections[s].ladder
                             /\ sections'[s].sub = sections[s].sub
                             /\ sections'[s].last = sections[s].last
                             /\ s # t => sections'[s].first = sections[s].first
  BY <1>0, <1>1 DEF SectionType
<1>4. \A s \in Sections : IsLadder(s)' = IsLadder(s) /\ LastOf(s)' = LastOf(s)
  BY <1>0, <1>3 DEF IsLadder, LastOf
<1>5. Uncopied' <=> Uncopied
  BY <1>0, <1>1, <1>3, <1>4 DEF Uncopied
<1>6. \A s \in Sections : \A q : (JumpsTo(q, s)' <=> JumpsTo(q, s)) /\ (Gone(q, s)' <=> Gone(q, s))
  BY <1>0, <1>2 DEF JumpsTo, Gone
<1>7. ASSUME NEW f \in SafeFrames PROVE Safe(f)'
  <2>1. f.section \in Sections /\ Safe(f)
    BY DEF SafeFrames, FrameType
  <2>2. Met(f.rung, sections[f.section].last)' = Met(f.rung, sections[f.section].last)
    BY <1>0, <1>3, <2>1 DEF Met, Closed
  <2> QED
    BY <1>0, <1>2, <1>4, <1>5, <1>6, <2>1, <2>2 DEF Safe
<1>8. stack' \in Seq(SafeFrames') /\ (at' = "idle" <=> stack' = << >>) /\ Rested'
  BY <1>0, <1>7, StackStays
<1>9. NotPastTheEnd'
  <2>1. at # "idle" => Top.section \in Sections /\ Top' = Top
    BY <1>0, OnTop DEF Top
  <2> QED
    BY <1>0, <1>3, <1>4, <2>1 DEF SInv, NotPastTheEnd
<1>10. JumpsStay'
  BY <1>0, <1>2, <1>6 DEF SInv, JumpsStay, Linking, Awaited
<1>11. FirstsReady'
  <2>1. ASSUME NEW s \in Sections, IsLadder(s)' PROVE sections'[s].first \in Of(s)'
    <3>1. CASE s = t
      BY <1>1, <1>2, <1>3, <1>4, <2>1, <3>1 DEF Shape, FirstOf
    <3>2. CASE s # t
      BY <1>2, <1>3, <1>4, <2>1, <3>2 DEF SInv, FirstsReady
    <3> QED
      BY <3>1, <3>2
  <2> QED
    BY <2>1 DEF FirstsReady
<1>12. LastsReady'
  BY <1>0, <1>1, <1>2, <1>3, <1>5 DEF SInv, LastsReady
<1>13. SubsInLadder'
  BY <1>3 DEF SInv, SubsInLadder
<1> QED
  BY <1>0, <1>8, <1>9, <1>10, <1>11, <1>12, <1>13 DEF SInv

LEMMA SaveLastKeeps ==
  ASSUME IInv, SInv, SaveLast
  PROVE  SInv'
<1> PICK t : t = infos.section
  OBVIOUS
<1> PICK n : n = infos.last
  OBVIOUS
<1>0. /\ op = "last" /\ op' = "idle" /\ edit' = NoEdit
      /\ sections' = [sections EXCEPT ![t].last = n]
      /\ UNCHANGED << used, next, coil, infos, running, at, stack, task, edits >>
  BY DEF SaveLast, rungs, task
<1>1. /\ Shape /\ t \in Sections /\ sections \in [Sections -> SectionType] /\ n \in Rungs
  BY IInvShape DEF IInv, TypeOK
<1>2. IInv' /\ Idle' /\ \A s \in Sections : Of(s)' = Of(s)
  BY <1>0, SavingKeeps DEF Idle
<1>3. /\ sections'[t].last = n
      /\ \A s \in Sections : /\ sections'[s].used = sections[s].used
                             /\ sections'[s].ladder = sections[s].ladder
                             /\ sections'[s].sub = sections[s].sub
                             /\ s # t => sections'[s].last = sections[s].last
  BY <1>0, <1>1 DEF SectionType
<1>4. \A s \in Sections : /\ IsLadder(s)' = IsLadder(s) /\ LastOf(s)' = LastOf(s)
                          /\ sections'[s].last = LastOf(s)
  BY <1>0, <1>3 DEF IsLadder, LastOf
<1>5. Copied'
  BY <1>2, IdleCopiedNext
<1>6. \A s \in Sections : \A q : (JumpsTo(q, s)' <=> JumpsTo(q, s)) /\ (Gone(q, s)' <=> Gone(q, s))
  BY <1>0, <1>2 DEF JumpsTo, Gone
<1>7. ASSUME NEW f \in SafeFrames, at # "idle" PROVE Safe(f)'
  <2> PICK s : s = f.section
    OBVIOUS
  <2> PICK q : q = f.rung
    OBVIOUS
  <2> PICK k : k = sections[s].last
    OBVIOUS
  <2>1. s \in Sections /\ Safe(f) /\ IsLadder(s)
    BY DEF SafeFrames, FrameType, Safe
  <2>2. ~Uncopied'
    BY <1>5 DEF Copied
  <2>3. Met(q, k) \subseteq Met(q, sections[s].last)'
    <3>1. CASE k = LastOf(s)
      BY <1>0, <1>4, <2>1, <3>1 DEF Met, Closed
    <3>2. CASE k # LastOf(s)
      <4>1. s = t /\ Uncopied /\ LastOf(s) = n
        BY <2>1, <3>2 DEF LastOf, Uncopied
      <4>2. /\ edit.mode = "add" /\ k \in Of(s) /\ next[k] = n
        BY <1>7, <4>1 DEF SInv, LastsReady
      <4>3. q \in Of(s) /\ q # n
        BY <1>0, <2>1, <4>1, <4>2 DEF Safe
      <4> PICK X \in SUBSET Rungs : X = Of(s) \ {n}
        BY <1>1, <2>1 DEF Shape
      <4>4. \A x \in X \ {k} : next[x] \in X
        <5>1. Back[n] = k
          BY <1>1, <2>1, <3>2, <4>2 DEF Shape
        <5>2. \A x \in X : next[x] \in Of(s) /\ Back[next[x]] = x
          BY <1>1, <2>1, <4>1 DEF Shape
        <5> QED
          BY <5>1, <5>2
      <4>5. ASSUME NEW S \in SUBSET Rungs, Closed(S, q, n)'
            PROVE  Closed(S \cap X, q, k)
        <5>1. q # None => q \in S
          BY <4>5 DEF Closed
        <5>2. \A r \in S \ {n} : next[r] # None => next[r] \in S
          BY <1>0, <4>5 DEF Closed
        <5> QED
          BY <4>3, <4>4, <5>1, <5>2 DEF Closed
      <4>6. Met(q, k) \subseteq Met(q, n)'
        BY <4>5, StillAhead
      <4> QED
        BY <1>3, <4>1, <4>6
    <3> QED
      BY <3>1, <3>2
  <2>4. f.due \subseteq Met(q, sections[s].last)'
    BY <2>1, <2>3 DEF Safe
  <2> QED
    BY <1>0, <1>2, <1>4, <1>6, <2>1, <2>2, <2>4 DEF Safe
<1>8. stack' \in Seq(SafeFrames') /\ (at' = "idle" <=> stack' = << >>) /\ Rested'
  BY <1>0, <1>7, StackStays
<1>9. NotPastTheEnd'
  <2>1. at # "idle" => Top.section \in Sections /\ Top' = Top
    BY <1>0, OnTop DEF Top
  <2> QED
    BY <1>0, <1>4, <2>1 DEF SInv, NotPastTheEnd
<1>10. JumpsStay'
  BY <1>0, <1>2, <1>6 DEF SInv, JumpsStay, Linking
<1>11. FirstsReady' /\ LastsReady'
  BY <1>5 DEF Copied
<1>12. SubsInLadder'
  BY <1>3 DEF SInv, SubsInLadder
<1>13. edit'.coil \in Coils
  BY <1>0 DEF NoEdit, Coils
<1> QED
  BY <1>0, <1>8, <1>9, <1>10, <1>11, <1>12, <1>13 DEF SInv

LEMMA LinkInStepKeeps ==
  ASSUME IInv, SInv, LinkIn
  PROVE  SInv'
<1> PICK t : t = infos.section
  OBVIOUS
<1> PICK n : n = edit.num
  OBVIOUS
<1> PICK c : c = infos.current
  OBVIOUS
<1>0. /\ op = "in" /\ op' = "first" /\ Linking /\ ~Linking' /\ UNCHANGED << used, coil, sections, edit, running, task, edits >>
      /\ UNCHANGED << at, stack >>
  BY DEF LinkIn, Linking, task
<1>1. /\ Shape /\ t \in Sections /\ n \in Rungs /\ c \in Rungs /\ IsLadder(t)
      /\ edit.mode \in {"add", "insert"} /\ NewLinked
      /\ next \in [Rungs -> Links] /\ prev \in [Rungs -> Links] /\ c \in Of(t)
      /\ \A s \in Sections : Of(s) \subseteq Rungs /\ n \notin Of(s)
  <2>1. /\ Shape /\ t \in Sections /\ n \in Rungs /\ c \in Rungs
        /\ edit.mode \in {"add", "insert"} /\ NewLinked /\ IsLadder(t)
        /\ next \in [Rungs -> Links] /\ prev \in [Rungs -> Links]
    BY <1>0, IInvShape DEF IInv, TypeOK, Pending, IsLadder
  <2> QED
    BY <1>0, <2>1 DEF Shape
<1>2. IInv' /\ \A s \in Sections : Of(s)' = IF s = t THEN Of(s) \cup {n} ELSE Of(s)
  BY LinkInKeeps
<1>3. \A s \in Sections : IsLadder(s) =>
         FirstOf(s) = sections[s].first /\ LastOf(s) = sections[s].last
  BY <1>0, LinkingCopied
<1>4. infos.last = LastOf(t) /\ infos.first = FirstOf(t)
  BY DEF LastOf, FirstOf
<1>5. /\ infos'.section = t
      /\ infos'.last = IF edit.mode = "add" /\ c = infos.last THEN n ELSE infos.last
      /\ edit.mode = "add" => infos'.first = infos.first
  <2>1. infos \in [first : Rungs, last : Rungs, current : Rungs, section : Sections]
    BY DEF IInv, TypeOK
  <2> QED
    BY <2>1 DEF LinkIn, AutoSelect
<1>6. \A s : IsLadder(s)' = IsLadder(s)
  BY <1>0 DEF IsLadder
(* A rung leads to the next one as before, or by the new one. *)
<1>7. \A s \in Sections : \A x \in Of(s) \ {LastOf(s)} :
         next'[x] = next[x] \/ (s = t /\ next'[x] = n /\ next'[n] = next[x])
  <2>1. CASE edit.mode = "add"
    <3>1. next' = [next EXCEPT ![c] = n]
      BY <2>1 DEF LinkIn
    <3>2. c # infos.last => next[n] = next[c]
      BY <1>1, <2>1 DEF NewLinked
    <3>3. n # c /\ \A s \in Sections : c \in Of(s) => s = t
      BY <1>1 DEF Shape
    <3> QED
      BY <1>1, <1>4, <3>1, <3>2, <3>3
  <2>2. CASE edit.mode = "insert"
    <3>1. next' = IF c = infos.first THEN next ELSE [next EXCEPT ![prev[c]] = n]
      BY <2>2 DEF LinkIn
    <3>2. next[n] = c /\ Back = prev
      BY <1>1, <2>2 DEF NewLinked, Back
    <3>3. c # infos.first => prev[c] \in Of(t) /\ next[prev[c]] = c
      BY <1>1, <1>4, <3>2 DEF Shape
    <3>4. c # infos.first => prev[c] # n /\ \A s \in Sections : prev[c] \in Of(s) => s = t
      BY <1>1, <3>3 DEF Shape
    <3> QED
      BY <1>1, <1>4, <3>1, <3>2, <3>3, <3>4
  <2> QED
    BY <1>1, <2>1, <2>2
<1>8. Uncopied' => edit.mode = "add" /\ c = LastOf(t) /\ infos'.last = n
  BY <1>0, <1>1, <1>3, <1>4, <1>5 DEF Uncopied
<1>9. \A s \in Sections : \A q : JumpsTo(q, s) => JumpsTo(q, s)'
  BY <1>0, <1>2 DEF JumpsTo
<1>10. ASSUME NEW f \in SafeFrames, at # "idle" PROVE Safe(f)'
  <2> PICK s : s = f.section
    OBVIOUS
  <2> PICK q : q = f.rung
    OBVIOUS
  <2> PICK l : l = LastOf(s)
    OBVIOUS
  <2>1. s \in Sections /\ Safe(f) /\ IsLadder(s) /\ q \in Of(s) /\ l = sections[s].last
    BY <1>0, <1>1, <1>3 DEF SafeFrames, FrameType, Safe
  <2> PICK X \in SUBSET Rungs : X = Of(s)
    BY <1>1, <2>1
  <2>2. \A x \in X \ {l} : next[x] \in X /\ (next'[x] = next[x] \/ (next'[x] = n /\ next'[n] = next[x]))
    <3>1. \A x \in Of(s) \ {LastOf(s)} : next[x] \in Of(s)
      BY <1>1, <2>1 DEF Shape
    <3>2. \A x \in Of(s) \ {LastOf(s)} :
             next'[x] = next[x] \/ (next'[x] = n /\ next'[n] = next[x])
      BY <1>7, <2>1
    <3> QED
      BY <3>1, <3>2
  <2>3. l \in X /\ n \notin X /\ None \notin X /\ n # None
    <3>1. LastOf(s) \in Of(s) /\ n \notin Of(s)
      BY <1>1, <2>1 DEF Shape
    <3>2. None \notin Rungs
      BY DEF Rungs, None
    <3> QED
      BY <1>1, <3>1, <3>2
  <2>4. ASSUME NEW S \in SUBSET Rungs, Closed(S, q, l)'
        PROVE  Closed(S \cap X, q, l)
    <3>1. q # None => q \in S
      BY <2>4 DEF Closed
    <3>2. \A r \in S \ {l} : next'[r] # None => next'[r] \in S
      BY <2>4 DEF Closed
    <3>3. \A x \in (S \cap X) \ {l} : next[x] \in S
      BY <2>2, <2>3, <3>2
    <3> QED
      BY <2>1, <2>2, <3>1, <3>3 DEF Closed
  <2>5. Met(q, l) \subseteq Met(q, l)'
    BY <2>4, StillAhead
  <2>6. f.due \subseteq Met(q, sections[s].last)'
    BY <1>0, <2>1, <2>5 DEF Safe
  <2>7. q \in Of(s)' /\ (Uncopied' => q # infos'.last)
    BY <1>1, <1>2, <1>8, <2>1
  <2> QED
    BY <1>6, <2>1, <2>6, <2>7 DEF Safe
<1>11. stack' \in Seq(SafeFrames') /\ (at' = "idle" <=> stack' = << >>) /\ Rested'
  BY <1>0, <1>10, StackStays
<1>12. NotPastTheEnd'
  <2>1. at = "next" => /\ Top.section \in Sections /\ Top' = Top /\ Top.rung \in Of(Top.section)
                       /\ Top.rung # LastOf(Top.section) /\ Top.rung # sections[Top.section].last
    BY <1>0, <1>1, OnTop DEF SInv, NotPastTheEnd, Top, Safe
  <2>2. at = "next" => Top.rung # LastOf(Top.section)'
    BY <1>0, <1>1, <1>5, <2>1 DEF LastOf
  <2> QED
    BY <1>0, <2>1, <2>2 DEF NotPastTheEnd
<1>13. JumpsStay'
  <2>1. \A s \in Sections : \A q \in Of(s)' : JumpsTo(q, s)'
    BY <1>0, <1>2, <1>9 DEF SInv, JumpsStay
  <2>2. ~Awaited(edit.num)'
    BY <1>0, <1>1 DEF SInv, JumpsStay, Awaited
  <2> QED
    BY <1>0, <2>1, <2>2 DEF JumpsStay
<1>14. FirstsReady'
  BY <1>0, <1>1, <1>2, <1>3, <1>6 DEF FirstsReady, Shape
<1>15. LastsReady'
  <2> SUFFICES ASSUME Uncopied'
               PROVE  /\ op' # "idle" /\ edit'.mode = "add" /\ infos'.last = edit'.num
                      /\ sections'[infos'.section].first = infos'.first
                      /\ sections'[infos'.section].last \in Of(infos.section)'
                      /\ next'[sections'[infos'.section].last] = infos'.last
    BY DEF LastsReady
  <2>1. edit.mode = "add" /\ c = LastOf(t) /\ infos'.last = n
    BY <1>8
  <2>2. sections[t].last = c /\ sections[t].first = infos.first
    BY <1>1, <1>3, <1>4, <2>1
  <2>3. next'[c] = n
    BY <1>1, <2>1 DEF LinkIn
  <2>4. Of(infos.section)' = Of(t) \cup {n}
    <3>1. Of(infos.section)' = Of(t)'
      BY <1>5
    <3> QED
      BY <1>1, <1>2, <3>1
  <2> QED
    BY <1>0, <1>1, <1>5, <2>1, <2>2, <2>3, <2>4
<1>16. SubsInLadder'
  BY <1>0 DEF SInv, SubsInLadder
<1> QED
  BY <1>0, <1>11, <1>12, <1>13, <1>14, <1>15, <1>16 DEF SInv

LEMMA DeleteStepKeeps ==
  ASSUME Careful, IInv, SInv, DeleteCurrentRung
  PROVE  SInv'
<1> PICK t : t = infos.section
  OBVIOUS
<1> PICK r : r = infos.current
  OBVIOUS
<1>0. /\ op = "idle" /\ Idle /\ op' = "first" /\ edit.mode = "none" /\ Quick /\ Counted /\ Allowed(r)
      /\ UNCHANGED << coil, sections, edit, running, at >>
      /\ infos.first # infos.last /\ IsLadder(t)
      /\ next' = IF r = infos.first THEN next ELSE [next EXCEPT ![prev[r]] = next[r]]
      /\ used' = [used EXCEPT ![r] = FALSE]
      /\ stack' = Forgotten(r)
  BY DEF DeleteCurrentRung, Idle, Editing
<1>1. /\ Shape /\ t \in Sections /\ r \in Rungs /\ r \in Of(t)
      /\ next \in [Rungs -> Links] /\ prev \in [Rungs -> Links] /\ used \in [Rungs -> BOOLEAN]
      /\ coil \in [Rungs -> Coils] /\ edits \in Nat
      /\ infos \in [first : Rungs, last : Rungs, current : Rungs, section : Sections]
  BY <1>0, IInvShape DEF IInv, TypeOK, SInv, Shape
<1>2. IInv' /\ \A s \in Sections : Of(s)' = Of(s) \ {r}
  BY DeleteKeeps
<1>3. \A s \in Sections : IsLadder(s) =>
         FirstOf(s) = sections[s].first /\ LastOf(s) = sections[s].last
  BY <1>0, LinkingCopied
<1>4. infos.last = LastOf(t) /\ infos.first = FirstOf(t)
  BY DEF LastOf, FirstOf
<1>5. /\ infos'.section = t
      /\ r # infos.last => infos'.last = infos.last
  BY <1>1 DEF DeleteCurrentRung, AutoSelect
<1>6. \A s : IsLadder(s)' = IsLadder(s)
  BY <1>0 DEF IsLadder
<1>7. at # "idle" => edits = 0 /\ edits' > 0 /\ r # infos.last
  BY <1>0, <1>1, NumbersAssumption DEF Quick, Counted, Careful, Allowed, Resting
<1>8. edits' \in Nat
  BY <1>0, <1>1 DEF Counted
<1>9. r # infos.last => ~Uncopied'
  BY <1>0, <1>1, <1>3, <1>4, <1>5 DEF Uncopied
<1>10. \A s \in Sections : \A q \in Rungs : JumpsTo(q, s) => JumpsTo(q, s)'
  <2> SUFFICES ASSUME NEW s \in Sections, NEW q \in Rungs, JumpsTo(q, s),
                      coil[q].kind = "jump", used'[coil[q].to]
               PROVE  coil[q].to \in Of(s) \ {r}
    BY <1>0, <1>2 DEF JumpsTo
  <2>1. coil[q].to \in Rungs
    BY <1>1, CoilsTyped
  <2>2. coil[q].to # r /\ used[coil[q].to]
    BY <1>0, <1>1, <2>1
  <2> QED
    BY <2>2 DEF JumpsTo
(* The links of the section, once the rung is out of it. *)
<1>11. r # infos.first => /\ prev[r] \in Of(t) /\ next[prev[r]] = r
                          /\ \A x \in Rungs \ {prev[r]} : next'[x] = next[x]
                          /\ next'[prev[r]] = next[r]
  <2>1. Back = prev
    BY <1>0 DEF Back
  <2> QED
    BY <1>0, <1>1, <1>4, <2>1 DEF Shape
<1>12. r # infos.last => /\ next'[r] = next[r] /\ next[r] \in Of(t) \ {r}
  <2>1. r # infos.last => next[r] \in Of(t) /\ next[r] # FirstOf(t) /\ Back[next[r]] = r
    BY <1>0, <1>1, <1>4 DEF Shape
  <2>2. Back = prev
    BY <1>0 DEF Back
  <2>3. r # infos.last => next[r] # r
    BY <1>0, <1>1, <1>4 DEF Shape
  <2>4. r # infos.first => prev[r] # r
    <3>1. r # infos.first => prev[r] \in Of(t) /\ prev[r] # LastOf(t) /\ next[prev[r]] = r
      BY <1>0, <1>1, <1>4, <2>2 DEF Shape
    <3>2. \A x \in Of(t) \ {LastOf(t)} : next[x] # x
      BY <1>0, <1>1 DEF Shape
    <3> QED
      BY <3>1, <3>2
  <2> QED
    BY <1>0, <1>1, <1>11, <2>1, <2>3, <2>4
<1>13. ASSUME NEW f \in SafeFrames, at # "idle"
       PROVE  [f EXCEPT !.due = @ \ {r}] \in SafeFrames'
  <2> PICK s : s = f.section
    OBVIOUS
  <2> PICK q : q = f.rung
    OBVIOUS
  <2> PICK l : l = LastOf(s)
    OBVIOUS
  <2> PICK g : g = [f EXCEPT !.due = @ \ {r}]
    OBVIOUS
  <2>1. /\ s \in Sections /\ Safe(f) /\ IsLadder(s) /\ q \in Of(s) /\ l = sections[s].last
        /\ f \in FrameType /\ q \in Rungs
    BY <1>1, <1>3, <1>7, <1>13 DEF SafeFrames, FrameType, Safe
  <2>2. g \in FrameType /\ g.section = s /\ g.rung = q /\ g.due = f.due \ {r}
    BY <2>1 DEF FrameType
  <2>3. \A x \in Of(s) \ {l} : next[x] \in Of(s) /\ Back[next[x]] = x /\ next[x] # FirstOf(s)
    <3>1. \A x \in Of(s) \ {LastOf(s)} :
             next[x] \in Of(s) /\ Back[next[x]] = x /\ next[x] # FirstOf(s)
      <4>1. Shape /\ s \in Sections /\ IsLadder(s)
        BY <1>1, <2>1
      <4> QED
        BY <4>1, ZenonT(30) DEF Shape
    <3> QED
      BY <3>1
  <2>4. s # t => r \notin Of(s)
    BY <1>1, <2>1 DEF Shape
  <2>5. ASSUME NEW S \in SUBSET Rungs, Closed(S, q, l)', NEW x \in Met(q, l), x # r
        PROVE  x \in S
    <3>1. q \in S
      BY <2>1, <2>5 DEF Closed, Rungs, None
    <3>2. \A y \in S \ {l} : next'[y] # None => next'[y] \in S
      BY <2>5 DEF Closed
    <3> PICK O : O = Of(s)
      OBVIOUS
    <3>3. O \subseteq Rungs /\ None \notin O
      BY <1>1, <2>1 DEF Shape, Rungs, None
    <3>4. CASE r \in O /\ (next[r] \notin S \/ next[r] \notin O)
      <4>1. s = t /\ r # l /\ next[r] \in O /\ next[r] \notin S
        BY <1>4, <1>7, <1>13, <2>3, <2>4, <3>4
      <4>2. q # r
        BY <1>4, <1>12, <3>1, <3>2, <3>3, <4>1
      <4>3. \A y \in (S \cap O) \ {l, r} : next[y] \in (S \cap O) \ {r}
        <5>1. TAKE y \in (S \cap O) \ {l, r}
        <5>2. r # infos.first => y # prev[r]
          BY <1>11, <3>2, <3>3, <4>1
        <5>3. next'[y] = next[y]
          BY <1>0, <1>11, <3>3, <5>2
        <5>4. next[y] # r
          <6>1. Back = prev
            BY <1>0 DEF Back
          <6> QED
            BY <1>4, <2>3, <4>1, <5>2, <6>1
        <5> QED
          BY <2>3, <3>2, <3>3, <5>3, <5>4
      <4>4. Closed((S \cap O) \ {r}, q, l)
        BY <2>1, <3>1, <4>2, <4>3 DEF Closed
      <4> QED
        BY <2>5, <4>4 DEF Met
    <3>5. CASE r \in O /\ next[r] \in S \cap O
      <4>1. s = t
        BY <2>4, <3>5
      <4>2. \A y \in (S \cap O) \ {l, r} : next[y] \in (S \cap O) \cup {r}
        BY <1>0, <1>11, <2>3, <3>2, <3>3, <4>1
      <4>3. Closed((S \cap O) \cup {r}, q, l)
        BY <2>1, <3>1, <3>5, <4>2 DEF Closed
      <4>4. (S \cap O) \cup {r} \in SUBSET Rungs
        BY <1>1
      <4> QED
        BY <2>5, <4>3, <4>4 DEF Met
    <3>6. CASE r \notin O
      <4>1. s # t
        BY <1>1, <3>6
      <4>2. r # infos.first => prev[r] \notin O
        BY <1>1, <1>11, <2>1, <4>1 DEF Shape
      <4>3. \A y \in (S \cap O) \ {l} : next[y] \in S \cap O
        BY <1>0, <1>11, <2>3, <3>2, <3>3, <4>2
      <4>4. Closed(S \cap O, q, l)
        BY <2>1, <3>1, <4>3 DEF Closed
      <4> QED
        BY <2>5, <4>4 DEF Met
    <3> QED
      BY <3>4, <3>5, <3>6
  <2>6. g.due \subseteq Met(q, l)'
    <3>1. SUFFICES ASSUME NEW x \in f.due, x # r PROVE x \in Met(q, l)'
      BY <2>2
    <3>2. x \in Met(q, l) /\ x \in Rungs
      BY <2>1, <3>1 DEF Safe, Met
    <3>3. \A S \in SUBSET Rungs : Closed(S, q, l)' => x \in S
      BY <2>5, <3>1, <3>2
    <3> QED
      BY <3>2, <3>3 DEF Met
  <2>7. q \in Of(s)' \/ (Gone(q, s)' /\ edits' > 0)
    <3>1. CASE q # r
      BY <1>2, <2>1, <3>1
    <3>2. CASE q = r
      <4>1. s = t /\ JumpsTo(q, s)
        BY <2>1, <2>4, <3>2 DEF SInv, JumpsStay
      <4>2. ~used'[q] /\ next'[q] \in Of(s)' /\ JumpsTo(q, s)'
        BY <1>0, <1>1, <1>2, <1>7, <1>10, <1>12, <1>13, <3>2, <4>1
      <4> QED
        BY <1>7, <1>13, <4>2 DEF Gone
    <3> QED
      BY <3>1, <3>2
  <2>8. Safe(g)'
    <3>1. IsLadder(s)' /\ ~Uncopied' /\ edit'.mode = "none"
      BY <1>0, <1>6, <1>7, <1>9, <1>13, <2>1
    <3>2. g.due \subseteq Met(q, sections[s].last)'
      BY <1>0, <2>1, <2>6
    <3> QED
      BY <2>2, <2>7, <3>1, <3>2 DEF Safe
  <2> QED
    BY <2>2, <2>8 DEF SafeFrames
(* The stack, without the rung in what is due. *)
<1> PICK st : st = stack
  OBVIOUS
<1> PICK S : S = SafeFrames
  OBVIOUS
<1> PICK S2 : S2 = SafeFrames'
  OBVIOUS
<1>14. st \in Seq(S) /\ (at = "idle" <=> st = << >>)
  BY DEF SInv
<1>15. stack' = [i \in 1 .. Len(st) |-> [st[i] EXCEPT !.due = @ \ {r}]]
  <2>1. DOMAIN st = 1 .. Len(st)
    BY <1>14
  <2> QED
    BY <1>0, <2>1 DEF Forgotten
<1>16. Len(st) \in Nat /\ \A i \in 1 .. Len(st) : st[i] \in S /\ st[i] \in FrameType
  <2>1. Len(st) \in Nat /\ \A i \in 1 .. Len(st) : st[i] \in S
    BY <1>14
  <2> QED
    BY <2>1 DEF SafeFrames
<1>17. \A i \in 1 .. Len(st) : [st[i] EXCEPT !.due = @ \ {r}] \in S2
  <2>1. TAKE i \in 1 .. Len(st)
  <2>2. at # "idle"
    BY <1>14
  <2> PICK f \in SafeFrames : f = st[i]
    BY <1>16
  <2>3. [f EXCEPT !.due = @ \ {r}] \in SafeFrames'
    BY <1>13, <2>2
  <2> QED
    BY <2>3
<1>18. /\ stack' \in Seq(S2) /\ Len(stack') = Len(st)
       /\ \A i \in 1 .. Len(st) : stack'[i] = [st[i] EXCEPT !.due = @ \ {r}]
  BY <1>15, <1>16, <1>17
<1>19. \A i \in 1 .. Len(st) : /\ stack'[i].section = stack[i].section
                               /\ stack'[i].rung = stack[i].rung
                               /\ stack'[i].due = stack[i].due \ {r}
  BY <1>16, <1>18, ZenonT(60) DEF FrameType
<1>20. at' = "idle" <=> stack' = << >>
  <2>1. st = << >> <=> Len(st) = 0
    BY <1>14
  <2>2. stack' = << >> <=> Len(stack') = 0
    BY <1>18
  <2> QED
    BY <1>0, <1>14, <1>18, <2>1, <2>2
<1>21. Rested'
  BY <1>0, <1>18, <1>19 DEF SInv, Rested
<1>22. NotPastTheEnd'
  <2>1. at = "next" => /\ Top.section \in Sections /\ Top.rung # LastOf(Top.section)
                       /\ Top.rung # sections[Top.section].last
                       /\ Len(stack) \in Nat \ {0}
    BY OnTop DEF SInv, NotPastTheEnd
  <2>2. at = "next" => Top'.section = Top.section /\ Top'.rung = Top.rung
    BY <1>18, <1>19, <2>1 DEF Top
  <2>3. at # "idle" => \A s \in Sections : LastOf(s)' = LastOf(s)
    BY <1>0, <1>5, <1>7 DEF LastOf
  <2> QED
    BY <1>0, <2>1, <2>2, <2>3 DEF NotPastTheEnd
<1>23. JumpsStay'
  <2>1. \A s \in Sections : \A q \in Of(s)' : JumpsTo(q, s)'
    BY <1>1, <1>2, <1>10 DEF SInv, JumpsStay, Shape
  <2> QED
    BY <1>0, <2>1 DEF JumpsStay, Linking
<1>24. FirstsReady'
  <2>1. ASSUME NEW s \in Sections, IsLadder(s)
        PROVE  \/ sections[s].first \in Of(s)'
               \/ s = t /\ Gone(sections[s].first, s)'
    <3>1. sections[s].first \in Of(s) /\ sections[s].first = FirstOf(s)
      BY <1>1, <1>3, <2>1 DEF Shape
    <3>2. CASE sections[s].first # r
      BY <1>2, <3>1, <3>2
    <3>3. CASE sections[s].first = r
      <4>1. s = t
        BY <1>1, <2>1, <3>1, <3>3 DEF Shape
      <4>2. r # infos.last
        BY <1>0, <1>4, <3>1, <3>3, <4>1
      <4>3. ~used'[r] /\ next'[r] \in Of(s)' /\ JumpsTo(r, s)'
        BY <1>0, <1>1, <1>2, <1>10, <1>12, <4>1, <4>2 DEF SInv, JumpsStay
      <4>4. Gone(r, s)'
        BY <4>3 DEF Gone
      <4> QED
        BY <1>0, <3>3, <4>1, <4>4
    <3> QED
      BY <3>2, <3>3
  <2> QED
    BY <1>0, <1>5, <1>6, <2>1 DEF FirstsReady
<1>25. LastsReady'
  BY <1>0, <1>9 DEF LastsReady, Allowed, Careful, Resting
<1>26. SubsInLadder'
  BY <1>0 DEF SInv, SubsInLadder
<1>27. at' # "idle" /\ edits' = 0 => op' = "idle"
  BY <1>0, <1>7
<1> QED
  BY <1>0, <1>8, <1>18, <1>20, <1>21, <1>22, <1>23, <1>24, <1>25, <1>26, <1>27 DEF SInv

-----------------------------------------------------------------------------
(* The sections manager works while nothing is under refresh.              *)
LEMMA ManagerStepsKeep ==
  ASSUME IInv', SInv, Manageable, UNCHANGED << edit, op, running, task, edits >>,
         coil' \in [Rungs -> Coils], JumpsStay', SubsInLadder'
  PROVE  SInv'
<1>1. /\ op' = "idle" /\ Idle' /\ at' = "idle" /\ stack' = << >> /\ at = "idle"
      /\ edit'.coil \in Coils /\ edits' \in Nat
  BY DEF Manageable, Idle, Resting, SInv, task
<1>2. Copied'
  BY <1>1, IdleCopiedNext
<1>3. stack' \in Seq(SafeFrames') /\ Rested'
  BY <1>1, StackStays
<1>4. NotPastTheEnd'
  BY <1>1 DEF NotPastTheEnd
<1>5. FirstsReady' /\ LastsReady'
  BY <1>2 DEF Copied
<1> QED
  BY <1>1, <1>3, <1>4, <1>5 DEF SInv

LEMMA SwapStepKeeps ==
  ASSUME IInv, SInv, SwapSections
  PROVE  SInv'
<1>1. Manageable /\ UNCHANGED << used, next, prev, coil, edit, op, running, task, edits >>
  BY DEF SwapSections, rungs
<1>2. IInv' /\ \A x \in Sections : \E y \in Sections : Of(x)' = Of(y)
  BY SwapKeeps
<1>3. op = "idle" /\ edit.mode = "none" /\ infos.section \in Sections
  BY DEF SwapSections, Manageable, Idle, Editing, IInv, TypeOK
<1>4. JumpsStay'
  <2>1. ASSUME NEW s \in Sections, NEW q \in Of(s)' PROVE JumpsTo(q, s)'
    <3>1. PICK y \in Sections : Of(s)' = Of(y)
      BY <1>2
    <3>2. JumpsTo(q, y)
      BY <2>1, <3>1 DEF SInv, JumpsStay
    <3> QED
      BY <1>1, <3>1, <3>2 DEF JumpsTo
  <2> QED
    BY <1>1, <1>3, <2>1 DEF JumpsStay, Linking
<1>5. SubsInLadder'
  <2>1. PICK t \in Sections :
           sections' = [sections EXCEPT ![infos.section] = sections[t], ![t] = sections[infos.section]]
    <3>1. PICK d \in {-1, 1} :
             /\ GetPrevNextSection(d) # None
             /\ sections' = [sections EXCEPT
                   ![infos.section] = sections[GetPrevNextSection(d)],
                   ![GetPrevNextSection(d)] = sections[infos.section]]
      BY DEF SwapSections
    <3>2. GetPrevNextSection(d) \in Sections
      BY <3>1 DEF GetPrevNextSection, FreeSections
    <3> QED
      BY <3>1, <3>2
  <2>2. \A x \in Sections : \E y \in Sections : sections'[x] = sections[y]
    BY <1>3, <2>1 DEF IInv, TypeOK
  <2> QED
    BY <2>2 DEF SInv, SubsInLadder
<1>6. coil' \in [Rungs -> Coils]
  BY <1>1 DEF SInv
<1> QED
  BY <1>1, <1>2, <1>4, <1>5, <1>6, ManagerStepsKeep

LEMMA DeleteSectionStepKeeps ==
  ASSUME IInv, SInv, DelSection
  PROVE  SInv'
<1>1. /\ Manageable /\ UNCHANGED << next, prev, coil, edit, op, running, task, edits >>
      /\ sections' = [sections EXCEPT ![infos.section].used = FALSE]
      /\ \A r \in Rungs : used'[r] => used[r]
  BY DEF DelSection
<1>2. IInv' /\ \A x \in Sections : Of(x)' = {} \/ Of(x)' = Of(x)
  BY DeleteSectionKeeps
<1>3. op = "idle" /\ edit.mode = "none" /\ infos.section \in Sections
  BY DEF DelSection, Manageable, Idle, Editing, IInv, TypeOK
<1>4. JumpsStay'
  <2>1. ASSUME NEW s \in Sections, NEW q \in Of(s)' PROVE JumpsTo(q, s)'
    <3>1. Of(s)' = Of(s)
      BY <1>2, <2>1
    <3>2. JumpsTo(q, s) /\ q \in Rungs /\ coil[q] \in Coils
      BY <2>1, <3>1, IInvShape DEF SInv, JumpsStay, Shape
    <3>3. coil[q].kind = "jump" => coil[q].to \in Rungs
      BY <3>2, CoilsTyped
    <3> QED
      BY <1>1, <3>1, <3>2, <3>3 DEF JumpsTo
  <2> QED
    BY <1>1, <1>3, <2>1 DEF JumpsStay, Linking
<1>5. SubsInLadder'
  <2>1. \A s \in Sections : /\ sections'[s].used => sections[s].used
                            /\ sections'[s].sub = sections[s].sub
                            /\ sections'[s].ladder = sections[s].ladder
    BY <1>1, <1>3 DEF IInv, TypeOK, SectionType
  <2> QED
    BY <2>1 DEF SInv, SubsInLadder
<1>6. coil' \in [Rungs -> Coils]
  BY <1>1 DEF SInv
<1> QED
  BY <1>1, <1>2, <1>4, <1>5, <1>6, ManagerStepsKeep

LEMMA AddSectionStepKeeps ==
  ASSUME Careful, IInv, SInv, AddSection
  PROVE  SInv'
<1> PICK s : s = Min(FreeSections)
  OBVIOUS
<1> PICK r : r = FindFreeRung
  OBVIOUS
<1>1. /\ Manageable /\ UNCHANGED << edit, op, running, task, edits >>
      /\ op = "idle" /\ edit.mode = "none"
  BY DEF AddSection, Manageable, Idle, Editing
<1>2. IInv' /\ \A x \in Sections : Of(x)' = Of(x) \/ Of(x)' = {r}
  BY AddSectionKeeps
<1>3. PICK sub \in SubRoutines \cup {None}, ladder \in BOOLEAN :
        /\ ladder \/ sections[s].sub = None
        /\ LET fields == [NewSection EXCEPT !.ladder = ladder,
                                            !.sub = IF ladder THEN sub ELSE sections[s].sub]
           IN  IF ladder /\ r = None
               THEN sections' = [sections EXCEPT ![s] = fields] /\ UNCHANGED << used, coil >>
               ELSE IF ladder
               THEN /\ ~Awaited(r)
                    /\ sections' = [sections EXCEPT
                          ![s] = [fields EXCEPT !.used = TRUE, !.first = r, !.last = r]]
                    /\ used' = [used EXCEPT ![r] = TRUE]
                    /\ coil' = [coil EXCEPT ![r] = NoCoil]
               ELSE /\ sections' = [sections EXCEPT ![s] = [fields EXCEPT !.used = TRUE]]
                    /\ UNCHANGED << used, coil >>
  BY DEF AddSection, Careful, rungs
<1>4. /\ Shape /\ used \in [Rungs -> BOOLEAN] /\ coil \in [Rungs -> Coils]
      /\ sections \in [Sections -> SectionType] /\ ~Linking
  BY <1>1, IInvShape DEF IInv, TypeOK, SInv, Linking
<1>5. coil' \in [Rungs -> Coils] /\ \A q \in Rungs : coil'[q] = coil[q] \/ (q = r /\ coil'[q] = NoCoil)
  BY <1>3, <1>4 DEF Coils
<1>6. \A q \in Rungs : used'[q] => used[q] \/ (q = r /\ ~Awaited(r))
  BY <1>3, <1>4
<1>7. r \in Rungs => ~used[r]
  BY FreeRungFound, <1>4 DEF FreeRungs, FindFreeRung, None, Rungs
<1>8. JumpsStay'
  <2>1. ASSUME NEW x \in Sections, NEW q \in Of(x)' PROVE JumpsTo(q, x)'
    <3>0. q \in Rungs
      BY <1>2, <2>1, IInvShapeNext DEF Shape
    <3>1. CASE coil'[q] = NoCoil
      BY <3>1 DEF JumpsTo, NoCoil
    <3>2. CASE coil'[q] # NoCoil /\ Of(x)' = Of(x)
      <4>1. JumpsTo(q, x) /\ used[q] /\ coil'[q] = coil[q] /\ coil[q] \in Coils
        BY <1>4, <1>5, <2>1, <3>0, <3>2 DEF SInv, JumpsStay, Shape
      <4>2. coil[q].kind = "jump" => coil[q].to \in Rungs /\ coil[q] = [kind |-> "jump", to |-> coil[q].to]
        BY <4>1, CoilsTyped
      <4>3. coil[q].kind = "jump" /\ used'[coil[q].to] => used[coil[q].to]
        BY <1>6, <3>0, <4>1, <4>2 DEF Awaited
      <4> QED
        BY <3>2, <4>1, <4>3 DEF JumpsTo
    <3>3. CASE coil'[q] # NoCoil /\ Of(x)' # Of(x)
      <4>1. q = r /\ ~used[q] /\ x \in Sections /\ Of(x)' = {r}
        BY <1>2, <1>7, <2>1, <3>0, <3>3
      <4>2. used'[q]
        BY <1>1, <1>2, <2>1, <3>0, IInvShapeNext DEF Shape
      <4>3. coil'[q] = NoCoil
        BY <1>3, <1>4, <3>0, <4>1, <4>2
      <4> QED
        BY <3>3, <4>3
    <3> QED
      BY <3>1, <3>2, <3>3
  <2> QED
    BY <1>1, <1>4, <2>1 DEF JumpsStay, Linking
<1>9. SubsInLadder'
  <2>1. \A x \in Sections : x # s => sections'[x] = sections[x]
    BY <1>3, <1>4
  <2>2. ASSUME s \in Sections, sections'[s].used, sections'[s].sub # None
        PROVE  sections'[s].ladder
    <3>1. CASE ladder
      <4> PICK number \in SubRoutines \cup {None} : number = IF ladder THEN sub ELSE sections[s].sub
        BY <1>3, <1>4, <2>2 DEF SectionType
      <4>1. ladder = TRUE
        BY <1>3, <3>1
      <4>2. CASE r = None
        <5>1. sections' = [sections EXCEPT ![s] =
                 [used |-> FALSE, ladder |-> TRUE, sub |-> number, first |-> 0, last |-> 0]]
          BY <1>3, <3>1, <4>1, <4>2 DEF NewSection
        <5> QED
          BY <1>4, <2>2, <5>1
      <4>3. CASE r # None
        <5>1. r \in Rungs
          BY <4>3, FreeRungFound
        <5>2. sections' = [sections EXCEPT ![s] =
                 [used |-> TRUE, ladder |-> TRUE, sub |-> number, first |-> r, last |-> r]]
          BY <1>3, <3>1, <4>1, <4>3, <5>1, ZenonT(60) DEF NewSection
        <5> QED
          BY <1>4, <2>2, <5>2
      <4> QED
        BY <4>2, <4>3
    <3>2. CASE ~ladder
      <4> PICK number : number = sections[s].sub
        OBVIOUS
      <4>1. ladder = FALSE /\ number = None
        BY <1>3, <3>2
      <4>2. sections' = [sections EXCEPT ![s] =
               [used |-> TRUE, ladder |-> FALSE, sub |-> number, first |-> 0, last |-> 0]]
        BY <1>3, <3>2, <4>1 DEF NewSection
      <4>3. sections'[s].sub = None
        BY <1>4, <2>2, <4>1, <4>2
      <4> QED
        BY <2>2, <4>3
    <3> QED
      BY <3>1, <3>2
  <2> QED
    BY <2>1, <2>2 DEF SInv, SubsInLadder
<1> QED
  BY <1>1, <1>2, <1>5, <1>8, <1>9, ManagerStepsKeep

-----------------------------------------------------------------------------
LEMMA InitSInv == Init => SInv
<1> SUFFICES ASSUME Init PROVE SInv
  OBVIOUS
<1>1. IInv /\ Idle
  BY InitIInv DEF Init, Idle
<1>2. Copied
  BY <1>1, IdleCopied
<1>3. /\ coil \in [Rungs -> Coils] /\ edit.coil \in Coils /\ edits \in Nat
      /\ at = "idle" /\ stack = << >> /\ op = "idle" /\ edit.mode = "none"
      /\ \A q \in Rungs : coil[q].kind = "none"
  BY DEF Init, NoEdit, Coils, NoCoil
<1>4. JumpsStay
  BY <1>1, <1>3, IInvShape DEF JumpsStay, JumpsTo, Linking, Shape
<1>5. SubsInLadder
  <2>1. ASSUME NEW s \in Sections PROVE sections[s].sub = None
    <3> PICK b : b = (s = 0)
      OBVIOUS
    <3>1. sections[s] = [used |-> b, ladder |-> TRUE, sub |-> None, first |-> 0, last |-> 0]
      BY DEF Init, NewSection
    <3> QED
      BY <3>1
  <2> QED
    BY <2>1 DEF SubsInLadder
<1>6. stack \in Seq(SafeFrames) /\ Rested /\ NotPastTheEnd
  BY <1>3 DEF Rested, NotPastTheEnd
<1> QED
  BY <1>2, <1>3, <1>4, <1>5, <1>6 DEF SInv, Copied

LEMMA StutterKeeps ==
  ASSUME SInv, UNCHANGED vars
  PROVE  SInv'
<1>0. UNCHANGED << used, next, prev, coil, sections, infos, edit, op, running, at, stack, edits >>
  BY DEF vars, rungs, task
<1>1. SafeFrames' = SafeFrames
  BY <1>0, SafeSame
<1>2. \A s : IsLadder(s)' = IsLadder(s) /\ Of(s)' = Of(s) /\ LastOf(s)' = LastOf(s)
  BY <1>0 DEF IsLadder, Of, FirstOf, LastOf, Met, Closed
<1>3. \A q, s : (JumpsTo(q, s)' <=> JumpsTo(q, s)) /\ (Gone(q, s)' <=> Gone(q, s))
  BY <1>0, <1>2 DEF JumpsTo, Gone
<1>4. JumpsStay'
  BY <1>0, <1>2, <1>3 DEF SInv, JumpsStay, Linking, Awaited, JumpsTo
<1>5. FirstsReady'
  BY <1>0, <1>2, <1>3 DEF SInv, FirstsReady
<1>6. LastsReady'
  <2>1. Uncopied' => Uncopied
    BY <1>0 DEF Uncopied, IsLadder
  <2>2. Of(infos.section)' = Of(infos.section)
    BY <1>0 DEF IsLadder, Of, FirstOf, LastOf, Met, Closed
  <2> QED
    BY <1>0, <2>1, <2>2 DEF SInv, LastsReady
<1>7. Rested' /\ NotPastTheEnd' /\ SubsInLadder'
  BY <1>0, <1>2 DEF SInv, Rested, NotPastTheEnd, SubsInLadder, Top
<1> QED
  BY <1>0, <1>1, <1>4, <1>5, <1>6, <1>7 DEF SInv

LEMMA NextSInv ==
  ASSUME Careful, IInv, SInv, [Next]_vars
  PROVE  SInv'
<1>1. CASE Scan
  <2>1. CASE RefreshRung \/ Return
    <3>1. /\ at \in {"rung", "last"} /\ TestLast
          /\ UNCHANGED << rungs, sections, infos, edit, op, edits >>
      BY <2>1 DEF RefreshRung, Return, Refreshing
    <3> QED
      BY <3>1, TestLastKeeps
  <2> QED
    BY <1>1, <2>1, BeginKeeps, JumpKeeps, CallKeeps, FollowKeeps DEF Scan, Refresh
<1>2. CASE Edit
  BY <1>2, QuietStepsKeep, ApplyStepKeeps, LinkOwnStepKeeps, LinkInStepKeeps, DeleteStepKeeps,
     SaveFirstKeeps, SaveLastKeeps DEF Edit
<1>3. CASE DoFlipFlopRunStop \/ ChoiceOfTheCurrentRung \/ SetSectionSelected
  BY <1>3, QuietStepsKeep
<1>4. CASE AddSection \/ DelSection \/ SwapSections
  BY <1>4, AddSectionStepKeeps, DeleteSectionStepKeeps, SwapStepKeeps
<1> QED
  BY <1>1, <1>2, <1>3, <1>4, StutterKeeps DEF Next

(* Within those bounds the refresh (calc.c) is always on a rung of its     *)
(* section, or on one deleted under it that still leads into the section,  *)
(* and the rungs that it must still meet are ahead of it.                  *)
THEOREM ScanInvariance == Careful => (Spec => [](IInv /\ SInv))
<1> SUFFICES ASSUME Careful PROVE Spec => [](IInv /\ SInv)
  OBVIOUS
<1>1. Init => IInv /\ SInv
  BY InitIInv, InitSInv
<1>2. IInv /\ SInv /\ [Next]_vars => (IInv /\ SInv)'
  BY NextIInv, NextSInv
<1> QED
  BY <1>1, <1>2, PTL DEF Spec

(* The refresh never follows a link out of the rungs, whatever the editor  *)
(* is doing to them: the order of the writes of ApplyRungEdited and of     *)
(* DeleteCurrentRung (edit.c) is enough, with no lock.                     *)
THEOREM RefreshStaysOnRungs == Careful => (Spec => []ScanOnRungs)
<1> SUFFICES ASSUME Careful PROVE Spec => []ScanOnRungs
  OBVIOUS
<1>1. SInv => ScanOnRungs
  <2> SUFFICES ASSUME SInv, NEW i \in DOMAIN stack PROVE stack[i].rung # None
    BY DEF ScanOnRungs
  <2>1. stack[i] \in SafeFrames
    BY DEF SInv
  <2> QED
    BY <2>1 DEF SafeFrames, FrameType, Rungs, None
<1>2. Spec => [](IInv /\ SInv)
  BY ScanInvariance
<1> QED
  BY <1>1, <1>2, PTL

(* The refresh of a section that no Jump shortens (calc.c) has met, when   *)
(* it ends, every rung that was in the section when it began and is still. *)
THEOREM NoRungIsMissed == Careful => (Spec => NoRungMissed)
<1> SUFFICES ASSUME Careful PROVE Spec => NoRungMissed
  OBVIOUS
<1>1. ASSUME SInv, RefreshRung \/ Return, at' # "next"
      PROVE  Top.due \subseteq {Top.rung}
  <2>1. at # "idle" /\ Top.rung = sections[Top.section].last
    BY <1>1 DEF RefreshRung, Return, Refreshing, TestLast
  <2>2. Safe(Top) /\ Top.rung \in Rungs
    BY <1>1, <2>1, OnTop
  <2>3. Closed({Top.rung}, Top.rung, Top.rung)
    BY DEF Closed
  <2>4. Met(Top.rung, Top.rung) \subseteq {Top.rung}
    BY <2>2, <2>3 DEF Met
  <2> QED
    BY <2>1, <2>2, <2>4 DEF Safe
<1>2. SInv => [(RefreshRung \/ Return) /\ at' # "next" => Top.due \subseteq {Top.rung}]_vars
  BY <1>1
<1>3. Spec => [](IInv /\ SInv)
  BY ScanInvariance
<1> QED
  BY <1>2, <1>3, PTL DEF NoRungMissed

-----------------------------------------------------------------------------
(* The sections as sequences: what Walk follows, write after write, and    *)
(* the changes of RungChains that the writes are.                          *)

(* c is the walk from f along nx, up to l or to a dead end.                *)
Linked(nx, c, f, l) ==
    /\ c # << >> /\ c[1] = f
    /\ \A i, j \in 1 .. Len(c) : c[i] = c[j] => i = j
    /\ \A i \in 1 .. Len(c) - 1 : c[i] # l /\ nx[c[i]] = c[i + 1]
    /\ c[Len(c)] = l \/ nx[c[Len(c)]] = None

(* The rungs of a sequence. *)
Places(c) == {c[i] : i \in 1 .. Len(c)}

LEMMA LinkedRungs ==
  ASSUME NEW c \in Seq(Rungs), c # << >>
  PROVE  Len(c) \in Nat \ {0} /\ \A i \in 1 .. Len(c) : c[i] \in Rungs
OBVIOUS

(* The set of the rungs met and the sequence of the walk agree.            *)
LEMMA MetIsPlaces ==
  ASSUME next \in [Rungs -> Links], NEW c \in Seq(Rungs), NEW f, NEW l, Linked(next, c, f, l)
  PROVE  Met(f, l) = Places(c)
<1> DEFINE N == Len(c)
<1>0. None \notin Rungs
  BY DEF None, Rungs
<1>1. N \in Nat \ {0} /\ \A i \in 1 .. N : c[i] \in Rungs
  BY LinkedRungs DEF Linked
<1>2. Places(c) \in SUBSET Rungs
  BY <1>1 DEF Places
<1>3. Closed(Places(c), f, l)
  <2>1. f \in Places(c)
    BY <1>1 DEF Linked, Places
  <2>2. ASSUME NEW r \in Places(c) \ {l}, next[r] # None PROVE next[r] \in Places(c)
    <3>1. PICK i \in 1 .. N : r = c[i]
      BY DEF Places
    <3>2. i # N
      BY <1>1, <2>2, <3>1 DEF Linked
    <3>3. i \in 1 .. N - 1 /\ i + 1 \in 1 .. N
      BY <1>1, <3>2
    <3> QED
      BY <3>1, <3>3 DEF Linked, Places
  <2> QED
    BY <2>1, <2>2 DEF Closed
<1>4. Met(f, l) \subseteq Places(c)
  BY <1>2, <1>3 DEF Met
<1>5. ASSUME NEW S \in SUBSET Rungs, Closed(S, f, l) PROVE Places(c) \subseteq S
  <2> DEFINE bad == {i \in 1 .. N : c[i] \notin S}
  <2>1. SUFFICES ASSUME bad # {} PROVE FALSE
    BY DEF Places
  <2>2. bad \in SUBSET Nat
    BY <1>1
  <2>3. PICK i \in bad : \A j \in bad : i <= j
    <3>1. [x \in bad |-> x] \in [bad -> Nat]
      BY <2>2
    <3> HIDE DEF bad
    <3>2. PICK x \in bad : \A y \in bad : [z \in bad |-> z][x] <= [z \in bad |-> z][y]
      BY <2>1, <3>1, LeastOrder
    <3> QED
      BY <3>2
  <2>4. i # 1
    BY <1>0, <1>1, <1>5 DEF Linked, Closed
  <2>5. i - 1 \in 1 .. N - 1 /\ i - 1 \in 1 .. N /\ ~(i <= i - 1)
    BY <1>1, <2>3, <2>4
  <2>6. c[i - 1] \in S /\ c[i - 1] # l /\ next[c[i - 1]] = c[i]
    <3>1. c[i - 1] \in S
      BY <2>3, <2>5
    <3>2. i - 1 + 1 = i
      BY <2>5
    <3> QED
      BY <2>5, <3>1, <3>2 DEF Linked
  <2>7. c[i] \in Rungs
    BY <1>1, <2>3
  <2> QED
    BY <1>0, <1>5, <2>3, <2>6, <2>7 DEF Closed
<1> QED
  BY <1>1, <1>2, <1>4, <1>5 DEF Met

(* No more places than rungs: the walk ends before its bound.              *)
LEMMA LinkedShort ==
  ASSUME NEW c \in Seq(Rungs), \A i, j \in 1 .. Len(c) : c[i] = c[j] => i = j
  PROVE  Len(c) <= NbrRungs
<1> DEFINE N == Len(c)
<1>1. IsFiniteSet(Rungs) /\ Cardinality(Rungs) = NbrRungs
  BY NumbersAssumption, FS_Interval DEF Rungs
<1>2. N \in Nat
  OBVIOUS
<1>3. IsFiniteSet(1 .. N) /\ Cardinality(1 .. N) = N
  <2> HIDE DEF N
  <2> QED
    BY <1>2, FS_Interval
<1>4. [i \in 1 .. N |-> c[i]] \in Injection(1 .. N, Rungs)
  BY DEF Injection, IsInjective
<1> QED
  BY <1>1, <1>3, <1>4, FS_Injection

(* Walk computes that sequence: its recursive function exists, and is the  *)
(* only one, by the least place where two of them would differ.            *)
LEMMA WalkIs ==
  ASSUME next \in [Rungs -> Links], NEW c \in Seq(Rungs), NEW f, NEW l, Linked(next, c, f, l)
  PROVE  Walk(f, l) = c
<1> DEFINE N == Len(c)
           Body(m) == [i \in Rungs |-> IF i = 0 THEN f
                                       ELSE IF m[i - 1] \in {l, None} THEN None ELSE next[m[i - 1]]]
           met == CHOOSE m : m = Body(m)
           w == [i \in Rungs |-> IF i < N THEN c[i + 1] ELSE None]
<1>0. None \notin Rungs
  BY DEF None, Rungs
<1>1. N \in Nat \ {0} /\ N <= NbrRungs /\ \A i \in 1 .. N : c[i] \in Rungs
  BY LinkedRungs, LinkedShort DEF Linked
<1>2. w = Body(w)
  <2>1. ASSUME NEW i \in Rungs PROVE w[i] = Body(w)[i]
    <3>1. i \in Nat
      BY DEF Rungs
    <3>2. CASE i = 0
      BY <1>1, <2>1, <3>2 DEF Linked
    <3>3. CASE i # 0
      <4>1. i - 1 \in Rungs /\ i - 1 < NbrRungs
        BY <3>1, <3>3, NumbersAssumption DEF Rungs
      <4>2. CASE i < N
        <5>1. i \in 1 .. N - 1 /\ i - 1 < N
          BY <1>1, <3>1, <3>3, <4>2
        <5>2. w[i - 1] = c[i] /\ w[i] = c[i + 1]
          BY <3>1, <4>1, <4>2, <5>1
        <5>3. c[i] # l /\ c[i] # None /\ next[c[i]] = c[i + 1]
          BY <1>0, <1>1, <5>1 DEF Linked
        <5> QED
          BY <3>3, <5>2, <5>3
      <4>3. CASE i = N
        <5>1. w[i - 1] = c[N] /\ w[i] = None
          BY <1>1, <3>1, <4>1, <4>3
        <5>2. c[N] = l \/ next[c[N]] = None
          BY DEF Linked
        <5> QED
          BY <3>3, <5>1, <5>2
      <4>4. CASE i > N
        BY <1>1, <3>1, <3>3, <4>1, <4>4
      <4> QED
        BY <1>1, <3>1, <4>2, <4>3, <4>4
    <3> QED
      BY <3>2, <3>3
  <2>2. Body(w) = [i \in Rungs |-> Body(w)[i]]
    OBVIOUS
  <2> HIDE DEF Body
  <2> QED
    BY <2>1, <2>2
<1>3. met = Body(met)
  <2> HIDE DEF Body, w
  <2> QED
    BY <1>2
<1>4. met = w
  <2> DEFINE bad == {i \in Rungs : met[i] # w[i]}
  <2>1. met = [i \in Rungs |-> met[i]]
    <3> HIDE DEF met
    <3> QED
      BY <1>3
  <2>2. SUFFICES ASSUME bad # {} PROVE FALSE
    BY <2>1
  <2>3. PICK i \in bad : \A j \in bad : i <= j
    <3>1. [x \in bad |-> x] \in [bad -> Nat]
      BY DEF Rungs
    <3> HIDE DEF bad
    <3>2. PICK x \in bad : \A y \in bad : [z \in bad |-> z][x] <= [z \in bad |-> z][y]
      BY <2>2, <3>1, LeastOrder
    <3> QED
      BY <3>2
  <2>4. met[i] = Body(met)[i] /\ w[i] = Body(w)[i]
    BY <1>2, <1>3
  <2>5. i \in Rungs /\ met[i] # w[i]
    BY <2>3
  <2> HIDE DEF met, w
  <2>6. i # 0
    BY <2>4, <2>5
  <2>7. i - 1 \in Rungs /\ ~(i <= i - 1)
    BY <2>5, <2>6, NumbersAssumption DEF Rungs
  <2>8. met[i - 1] = w[i - 1]
    BY <2>3, <2>7
  <2> QED
    BY <2>4, <2>5, <2>6, <2>8
<1>5. Walk(f, l) = [i \in 1 .. Cardinality({j \in Rungs : met[j] # None}) |-> met[i - 1]]
  BY DEF Walk
<1>6. {j \in Rungs : w[j] # None} = 0 .. N - 1
  <2>1. ASSUME NEW j \in Rungs PROVE w[j] # None <=> j < N
    <3>1. j \in Nat
      BY DEF Rungs
    <3>2. CASE j < N
      BY <1>0, <1>1, <3>1, <3>2
    <3> QED
      BY <3>2
  <2>2. \A j \in 0 .. N - 1 : j \in Rungs /\ j < N
    BY <1>1, NumbersAssumption DEF Rungs
  <2>3. \A j \in Rungs : j < N => j \in 0 .. N - 1
    BY <1>1 DEF Rungs
  <2> HIDE DEF w, N
  <2> QED
    BY <2>1, <2>2, <2>3
<1>7. Cardinality(0 .. N - 1) = N
  <2> HIDE DEF N
  <2> QED
    BY <1>1, FS_Interval
<1>8. c = [i \in 1 .. N |-> c[i]]
  OBVIOUS
<1>9. \A i \in 1 .. N : w[i - 1] = c[i]
  BY <1>1, NumbersAssumption DEF Rungs
<1> HIDE DEF met, w
<1> QED
  BY <1>4, <1>5, <1>6, <1>7, <1>8, <1>9

(* What the operators on sequences do, place by place.                     *)
LEMMA InsertedAt ==
  ASSUME NEW c \in Seq(Rungs), NEW i \in 1 .. Len(c) + 1, NEW n \in Rungs
  PROVE  /\ InsertAt(c, i, n) \in Seq(Rungs)
         /\ Len(InsertAt(c, i, n)) = Len(c) + 1
         /\ \A j \in 1 .. Len(c) + 1 :
               InsertAt(c, i, n)[j] = IF j < i THEN c[j] ELSE IF j = i THEN n ELSE c[j - 1]
<1> DEFINE a == SubSeq(c, 1, i - 1)
           b == SubSeq(c, i, Len(c))
<1>0. Len(c) \in Nat /\ i \in Nat \ {0} /\ i <= Len(c) + 1
  OBVIOUS
<1>1. a \in Seq(Rungs) /\ Len(a) = i - 1 /\ \A j \in 1 .. i - 1 : a[j] = c[j]
  BY <1>0, SubSeqProperties
<1>2. /\ b \in Seq(Rungs) /\ Len(b) = Len(c) + 1 - i
      /\ \A j \in 1 .. Len(c) + 1 - i : b[j] = c[j + i - 1]
  BY <1>0, SubSeqProperties
<1>3. InsertAt(c, i, n) = (a \o << n >>) \o b
  BY DEF InsertAt
<1> HIDE DEF a, b
<1>4. /\ a \o << n >> \in Seq(Rungs) /\ Len(a \o << n >>) = i
      /\ \A j \in 1 .. i : (a \o << n >>)[j] = IF j < i THEN c[j] ELSE n
  BY <1>0, <1>1
<1> DEFINE d == a \o << n >>
<1> HIDE DEF d
<1>5. d \in Seq(Rungs) /\ Len(d) = i /\ (\A j \in 1 .. i : d[j] = IF j < i THEN c[j] ELSE n)
      /\ InsertAt(c, i, n) = d \o b
  BY <1>3, <1>4 DEF d
<1>6. d \o b \in Seq(Rungs) /\ Len(d \o b) = Len(c) + 1
  <2>1. d \o b \in Seq(Rungs) /\ Len(d \o b) = Len(d) + Len(b)
    BY <1>2, <1>5, ConcatProperties
  <2> QED
    BY <1>0, <1>2, <1>5, <2>1
<1>7. ASSUME NEW j \in 1 .. Len(c) + 1
      PROVE  (d \o b)[j] = IF j < i THEN c[j] ELSE IF j = i THEN n ELSE c[j - 1]
  <2>0. (d \o b)[j] = IF j <= i THEN d[j] ELSE b[j - i]
    <3>1. j \in 1 .. Len(d) + Len(b)
      BY <1>0, <1>2, <1>5
    <3> QED
      BY <1>2, <1>5, <3>1, ConcatProperties
  <2>1. CASE j <= i
    <3>1. (d \o b)[j] = d[j] /\ j \in 1 .. i
      BY <1>0, <2>0, <2>1
    <3>2. d[j] = IF j < i THEN c[j] ELSE n
      BY <1>5, <3>1
    <3> QED
      BY <1>0, <2>1, <3>1, <3>2
  <2>2. CASE j > i
    <3>1. j - i \in 1 .. Len(c) + 1 - i /\ (d \o b)[j] = b[j - i]
      BY <1>0, <2>0, <2>2
    <3>2. b[j - i] = c[j - i + i - 1] /\ j - i + i - 1 = j - 1
      BY <1>0, <1>2, <3>1
    <3>3. (d \o b)[j] = c[j - 1]
      BY <3>1, <3>2
    <3>4. ~(j < i) /\ j # i
      BY <1>0, <2>2
    <3> QED
      BY <3>3, <3>4
  <2>3. j <= i \/ j > i
    BY <1>0
  <2> QED
    BY <2>1, <2>2, <2>3
<1> QED
  BY <1>5, <1>6, <1>7

LEMMA RemovedAt ==
  ASSUME NEW c \in Seq(Rungs), NEW i \in 1 .. Len(c)
  PROVE  /\ RemoveAt(c, i) \in Seq(Rungs)
         /\ Len(RemoveAt(c, i)) = Len(c) - 1
         /\ \A j \in 1 .. Len(c) - 1 :
               RemoveAt(c, i)[j] = IF j < i THEN c[j] ELSE c[j + 1]
<1> DEFINE a == SubSeq(c, 1, i - 1)
           b == SubSeq(c, i + 1, Len(c))
<1>0. Len(c) \in Nat /\ i \in Nat \ {0} /\ i <= Len(c)
  OBVIOUS
<1>1. a \in Seq(Rungs) /\ Len(a) = i - 1 /\ \A j \in 1 .. i - 1 : a[j] = c[j]
  BY <1>0, SubSeqProperties
<1>2. /\ b \in Seq(Rungs) /\ Len(b) = Len(c) - i
      /\ \A j \in 1 .. Len(c) - i : b[j] = c[j + i]
  <2>1. i + 1 \in 1 .. Len(c) + 1 /\ Len(c) \in i .. Len(c)
    BY <1>0
  <2>2. b \in Seq(Rungs) /\ Len(b) = Len(c) - i
    BY <1>0, <2>1, SubSeqProperties
  <2>3. ASSUME NEW j \in 1 .. Len(c) - i PROVE b[j] = c[j + i]
    <3>1. b[j] = c[i + 1 + j - 1] /\ i + 1 + j - 1 = j + i
      BY <1>0, <2>1, SubSeqProperties
    <3> QED
      BY <3>1
  <2> QED
    BY <2>2, <2>3
<1>3. RemoveAt(c, i) = a \o b
  BY DEF RemoveAt
<1> HIDE DEF a, b
<1>4. a \o b \in Seq(Rungs) /\ Len(a \o b) = Len(c) - 1
  BY <1>0, <1>1, <1>2
<1>5. ASSUME NEW j \in 1 .. Len(c) - 1
      PROVE  (a \o b)[j] = IF j < i THEN c[j] ELSE c[j + 1]
  <2>0. (a \o b)[j] = IF j <= i - 1 THEN a[j] ELSE b[j - (i - 1)]
    <3>1. j \in 1 .. Len(a) + Len(b)
      BY <1>0, <1>1, <1>2
    <3> QED
      BY <1>1, <1>2, <3>1, ConcatProperties, SMTT(60)
  <2>1. CASE j < i
    <3>1. (a \o b)[j] = a[j] /\ j \in 1 .. i - 1
      BY <1>0, <2>0, <2>1
    <3> QED
      BY <1>1, <2>1, <3>1
  <2>2. CASE j >= i
    <3>1. j - (i - 1) \in 1 .. Len(c) - i /\ (a \o b)[j] = b[j - (i - 1)]
      BY <1>0, <2>0, <2>2
    <3>2. b[j - (i - 1)] = c[j - (i - 1) + i] /\ j - (i - 1) + i = j + 1
      BY <1>0, <1>2, <3>1
    <3>3. (a \o b)[j] = c[j + 1]
      BY <3>1, <3>2
    <3>4. ~(j < i)
      BY <1>0, <2>2
    <3> QED
      BY <3>3, <3>4
  <2>3. j < i \/ j >= i
    BY <1>0
  <2> QED
    BY <2>1, <2>2, <2>3
<1> QED
  BY <1>3, <1>4, <1>5

(* A rung put at place i of the walk, first and last included.             *)
LEMMA LinkedIn ==
  ASSUME NEW nx, NEW c \in Seq(Rungs), NEW f, NEW l, Linked(nx, c, f, l),
         NEW nx2, NEW i \in 1 .. Len(c) + 1, NEW n \in Rungs, n \notin Places(c), n # l,
         i > 1 => nx2[c[i - 1]] = n,
         i <= Len(c) => nx2[n] = c[i] /\ (i > 1 => c[i - 1] # l),
         \A j \in 1 .. Len(c) : j # i - 1 => nx2[c[j]] = nx[c[j]]
  PROVE  Linked(nx2, InsertAt(c, i, n), IF i = 1 THEN n ELSE f, IF i = Len(c) + 1 THEN n ELSE l)
<1> DEFINE d == InsertAt(c, i, n)
           N == Len(c)
           l2 == IF i = N + 1 THEN n ELSE l
<1>0. N \in Nat \ {0} /\ i \in Nat \ {0} /\ i <= N + 1
  BY LinkedRungs DEF Linked
<1>1. /\ d \in Seq(Rungs) /\ Len(d) = N + 1
      /\ \A j \in 1 .. N + 1 : d[j] = IF j < i THEN c[j] ELSE IF j = i THEN n ELSE c[j - 1]
  BY InsertedAt
<1>2. \A j \in 1 .. N : c[j] # n
  BY DEF Places
<1>3. /\ c[1] = f /\ (\A j, k \in 1 .. N : c[j] = c[k] => j = k)
      /\ (\A j \in 1 .. N - 1 : c[j] # l /\ nx[c[j]] = c[j + 1])
      /\ c[N] = l \/ nx[c[N]] = None
  BY DEF Linked
<1> HIDE DEF d, N
<1>4. d # << >> /\ d[1] = IF i = 1 THEN n ELSE f
  BY <1>0, <1>1, <1>3
<1>5. ASSUME NEW j \in 1 .. N + 1, NEW k \in 1 .. N + 1, d[j] = d[k] PROVE j = k
  <2>1. j < i => j \in 1 .. N
    BY <1>0
  <2>2. k < i => k \in 1 .. N
    BY <1>0
  <2>3. j > i => j - 1 \in 1 .. N
    BY <1>0
  <2>4. k > i => k - 1 \in 1 .. N
    BY <1>0
  <2>5. j \in Nat /\ k \in Nat
    OBVIOUS
  <2>6. /\ (j < i => d[j] = c[j]) /\ (j = i => d[j] = n) /\ (j > i => d[j] = c[j - 1])
        /\ (k < i => d[k] = c[k]) /\ (k = i => d[k] = n) /\ (k > i => d[k] = c[k - 1])
    BY <1>0, <1>1, <2>5
  <2>7. CASE j = i
    <3>1. d[k] = n
      BY <1>5, <2>6, <2>7
    <3>2. ~(k < i) /\ ~(k > i)
      BY <1>2, <2>2, <2>4, <2>6, <3>1
    <3> QED
      BY <1>0, <2>5, <2>7, <3>2
  <2>8. CASE k = i
    <3>1. d[j] = n
      BY <1>5, <2>6, <2>8
    <3>2. ~(j < i) /\ ~(j > i)
      BY <1>2, <2>1, <2>3, <2>6, <3>1
    <3> QED
      BY <1>0, <2>5, <2>8, <3>2
  <2>9. CASE j < i /\ k < i
    <3>1. c[j] = c[k]
      BY <1>5, <2>6, <2>9
    <3> QED
      BY <1>3, <2>1, <2>2, <2>9, <3>1
  <2>10. CASE j < i /\ k > i
    <3>1. c[j] = c[k - 1]
      BY <1>5, <2>6, <2>10
    <3>2. j = k - 1
      BY <1>3, <2>1, <2>4, <2>10, <3>1
    <3> QED
      BY <1>0, <2>5, <2>10, <3>2
  <2>11. CASE j > i /\ k < i
    <3>1. c[j - 1] = c[k]
      BY <1>5, <2>6, <2>11
    <3>2. j - 1 = k
      BY <1>3, <2>2, <2>3, <2>11, <3>1
    <3> QED
      BY <1>0, <2>5, <2>11, <3>2
  <2>12. CASE j > i /\ k > i
    <3>1. c[j - 1] = c[k - 1]
      BY <1>5, <2>6, <2>12
    <3>2. j - 1 = k - 1
      BY <1>3, <2>3, <2>4, <2>12, <3>1
    <3> QED
      BY <2>5, <3>2
  <2> QED
    BY <1>0, <2>5, <2>7, <2>8, <2>9, <2>10, <2>11, <2>12
<1>6. ASSUME NEW j \in 1 .. N PROVE d[j] # l2 /\ nx2[d[j]] = d[j + 1]
  <2>0. j \in 1 .. N + 1 /\ j + 1 \in 1 .. N + 1 /\ j \in Nat
    BY <1>0
  <2>1. CASE j < i - 1
    <3>1. d[j] = c[j] /\ d[j + 1] = c[j + 1] /\ j \in 1 .. N - 1 /\ j # i - 1
      BY <1>0, <1>1, <2>0, <2>1
    <3> QED
      BY <1>2, <1>3, <3>1 DEF N
  <2>2. CASE j = i - 1
    <3>1. d[j] = c[i - 1] /\ d[j + 1] = n /\ i > 1
      BY <1>0, <1>1, <2>0, <2>2
    <3> QED
      BY <1>0, <1>2, <2>2, <3>1 DEF N
  <2>3. CASE j = i
    <3>1. d[j] = n /\ d[j + 1] = c[i] /\ i <= N
      BY <1>0, <1>1, <2>0, <2>3
    <3> QED
      BY <1>0, <3>1 DEF N
  <2>4. CASE j > i
    <3>1. d[j] = c[j - 1] /\ d[j + 1] = c[j] /\ j - 1 \in 1 .. N - 1 /\ j - 1 # i - 1
      BY <1>0, <1>1, <2>0, <2>4
    <3>2. j - 1 + 1 = j /\ j - 1 \in 1 .. N /\ i # N + 1
      BY <1>0, <2>4, <3>1
    <3> QED
      BY <1>3, <3>1, <3>2, SMTT(60) DEF N
  <2> QED
    BY <1>0, <2>0, <2>1, <2>2, <2>3, <2>4
<1>7. d[N + 1] = l2 \/ nx2[d[N + 1]] = None
  <2>1. CASE i = N + 1
    BY <1>0, <1>1, <2>1
  <2>2. CASE i # N + 1
    <3>1. d[N + 1] = c[N] /\ N # i - 1 /\ N \in 1 .. N
      BY <1>0, <1>1, <2>2
    <3> QED
      BY <1>3, <2>2, <3>1 DEF N
  <2> QED
    BY <2>1, <2>2
<1>8. Len(d) - 1 = N
  BY <1>0, <1>1
<1> QED
  BY <1>1, <1>4, <1>5, <1>6, <1>7, <1>8 DEF Linked, d, N

(* The rung of place i taken out of the walk.                              *)
LEMMA LinkedOut ==
  ASSUME NEW nx, NEW c \in Seq(Rungs), NEW f, NEW l, Linked(nx, c, f, l), Len(c) > 1,
         NEW nx2, NEW i \in 1 .. Len(c),
         i > 1 => nx2[c[i - 1]] = IF i = Len(c) THEN None ELSE c[i + 1],
         \A j \in 1 .. Len(c) : j \notin {i, i - 1} => nx2[c[j]] = nx[c[j]]
  PROVE  Linked(nx2, RemoveAt(c, i), IF i = 1 THEN c[2] ELSE f, l)
<1> DEFINE d == RemoveAt(c, i)
           N == Len(c)
<1>0. N \in Nat \ {0} /\ i \in Nat \ {0} /\ i <= N /\ N > 1
  BY LinkedRungs DEF Linked
<1>1. /\ d \in Seq(Rungs) /\ Len(d) = N - 1
      /\ \A j \in 1 .. N - 1 : d[j] = IF j < i THEN c[j] ELSE c[j + 1]
  BY RemovedAt
<1>3. /\ c[1] = f /\ (\A j, k \in 1 .. N : c[j] = c[k] => j = k)
      /\ (\A j \in 1 .. N - 1 : c[j] # l /\ nx[c[j]] = c[j + 1])
      /\ c[N] = l \/ nx[c[N]] = None
  BY DEF Linked
<1> HIDE DEF d, N
<1>4. d # << >> /\ d[1] = IF i = 1 THEN c[2] ELSE f
  BY <1>0, <1>1, <1>3
<1>5. ASSUME NEW j \in 1 .. N - 1, NEW k \in 1 .. N - 1, d[j] = d[k] PROVE j = k
  <2>1. j \in 1 .. N /\ k \in 1 .. N /\ j + 1 \in 1 .. N /\ k + 1 \in 1 .. N
    BY <1>0
  <2>3. j \in Nat /\ k \in Nat
    BY <1>0
  <2>2. /\ (j < i => d[j] = c[j]) /\ (j >= i => d[j] = c[j + 1])
        /\ (k < i => d[k] = c[k]) /\ (k >= i => d[k] = c[k + 1])
    BY <1>0, <1>1, <2>3
  <2>4. CASE j < i /\ k < i
    <3>1. c[j] = c[k]
      BY <1>5, <2>2, <2>4
    <3> QED
      BY <1>3, <2>1, <3>1
  <2>5. CASE j < i /\ k >= i
    <3>1. c[j] = c[k + 1]
      BY <1>5, <2>2, <2>5
    <3>2. j = k + 1
      BY <1>3, <2>1, <3>1
    <3> QED
      BY <1>0, <2>3, <2>5, <3>2
  <2>6. CASE j >= i /\ k < i
    <3>1. c[j + 1] = c[k]
      BY <1>5, <2>2, <2>6
    <3>2. j + 1 = k
      BY <1>3, <2>1, <3>1
    <3> QED
      BY <1>0, <2>3, <2>6, <3>2
  <2>7. CASE j >= i /\ k >= i
    <3>1. c[j + 1] = c[k + 1]
      BY <1>5, <2>2, <2>7
    <3>2. j + 1 = k + 1
      BY <1>3, <2>1, <3>1
    <3> QED
      BY <2>3, <3>2
  <2> QED
    BY <1>0, <2>3, <2>4, <2>5, <2>6, <2>7
<1>6. ASSUME NEW j \in 1 .. N - 2 PROVE d[j] # l /\ nx2[d[j]] = d[j + 1]
  <2>0. j \in 1 .. N - 1 /\ j + 1 \in 1 .. N - 1 /\ j \in Nat /\ j \in 1 .. N
    BY <1>0
  <2>1. CASE j < i - 1
    <3>1. d[j] = c[j] /\ d[j + 1] = c[j + 1] /\ j \notin {i, i - 1}
      BY <1>0, <1>1, <2>0, <2>1
    <3> QED
      BY <1>3, <2>0, <3>1 DEF N
  <2>2. CASE j = i - 1
    <3>1. d[j] = c[i - 1] /\ d[j + 1] = c[i + 1] /\ i > 1 /\ i # N
      BY <1>0, <1>1, <2>0, <2>2
    <3> QED
      BY <1>0, <1>3, <2>0, <2>2, <3>1 DEF N
  <2>3. CASE j >= i
    <3>1. d[j] = c[j + 1] /\ d[j + 1] = c[j + 2] /\ j + 1 \notin {i, i - 1}
      BY <1>0, <1>1, <2>0, <2>3
    <3>2. j + 1 + 1 = j + 2 /\ j + 1 \in 1 .. N
      BY <1>0, <2>0
    <3> QED
      BY <1>3, <2>0, <3>1, <3>2 DEF N
  <2> QED
    BY <1>0, <2>0, <2>1, <2>2, <2>3
<1>7. d[N - 1] = l \/ nx2[d[N - 1]] = None
  <2>0. N - 1 \in 1 .. N - 1 /\ N \in 1 .. N
    BY <1>0
  <2>1. CASE i = N
    <3>1. d[N - 1] = c[i - 1] /\ i > 1
      BY <1>0, <1>1, <2>0, <2>1
    <3> QED
      BY <2>1, <3>1 DEF N
  <2>2. CASE i # N
    <3>1. d[N - 1] = c[N] /\ N \notin {i, i - 1}
      BY <1>0, <1>1, <2>0, <2>2
    <3> QED
      BY <1>3, <2>0, <3>1 DEF N
  <2> QED
    BY <2>1, <2>2
<1>8. Len(d) - 1 = N - 2
  BY <1>0, <1>1
<1> QED
  BY <1>1, <1>4, <1>5, <1>6, <1>7, <1>8 DEF Linked, d, N

(* ch gives the rungs of every section as SectionArray and NextRung do.    *)
RowsOf(nx, sec, ch) ==
    \A s \in Sections :
       IF sec[s].used /\ sec[s].ladder
       THEN Linked(nx, ch[s], sec[s].first, sec[s].last)
       ELSE ch[s] = << >>

Sequences == [Sections -> Seq(Rungs)]

Apart(ch, r) == \A s \in Sections : \A i \in 1 .. Len(ch[s]) : ch[s][i] # r

(* What the two writes of SectionArray that follow an edit will do.        *)
FirstDue(nx, sec, inf, ch) ==
    LET s == sec[inf.section]  c == ch[inf.section]
    IN  \/ inf.first = s.first
        \/ /\ inf.last = s.last
           /\ \/ Apart(ch, inf.first) /\ nx[inf.first] = s.first
              \/ Len(c) > 1 /\ c[2] = inf.first

LastDue(nx, sec, inf, ch) ==
    LET s == sec[inf.section]  c == ch[inf.section]
    IN  \/ inf.last = s.last
        \/ Apart(ch, inf.last) /\ c[Len(c)] = s.last /\ nx[s.last] = inf.last
        \/ c[Len(c)] = inf.last

EndsDue(o, nx, sec, inf, ch) ==
    /\ o = "first" => FirstDue(nx, sec, inf, ch)
    /\ o \in {"first", "last"} => LastDue(nx, sec, inf, ch)

(* The links stop at the last rung of a section.                           *)
DeadEnds ==
    /\ \A s \in Sections : IsLadder(s) => next[LastOf(s)] = None
    /\ op = "idle" /\ edit.mode \in {"add", "insert"} => edit.next = None
    /\ op = "own" => next[edit.num] = None
    /\ op = "in" /\ edit.mode = "add" /\ infos.current = infos.last => next[edit.num] = None

CInv == DeadEnds /\ \E ch \in Sequences : RowsOf(next, sections, ch)
                                          /\ EndsDue(op, next, sections, infos, ch)

(* A change of RungChains. *)
Moved(ch, ch2) ==
    \/ \E s \in Sections, r \in Rungs :
          /\ Apart(ch, r)
          /\ \/ \E i \in 1 .. Len(ch[s]) + 1 :
                   ch[s] # << >> /\ ch2 = [ch EXCEPT ![s] = InsertAt(ch[s], i, r)]
             \/ ch[s] = << >> /\ ch2 = [ch EXCEPT ![s] = << r >>]
    \/ \E s \in Sections :
          \/ \E i \in 1 .. Len(ch[s]) :
                Len(ch[s]) > 1 /\ ch2 = [ch EXCEPT ![s] = RemoveAt(ch[s], i)]
          \/ ch2 = [ch EXCEPT ![s] = << >>]
          \/ \E t \in Sections : ch2 = [ch EXCEPT ![s] = ch[t], ![t] = ch[s]]

Rows == [s \in Sections |-> Chain(s)]

(* What chains stands for, and that such sequences are it.                 *)
RowsAre == \A ch \in Sequences : RowsOf(next, sections, ch) => Rows = ch

LEMMA TypedRows == TypeOK => RowsAre
<1> SUFFICES ASSUME TypeOK, NEW ch \in Sequences, RowsOf(next, sections, ch)
             PROVE  Rows = ch
  BY DEF RowsAre
<1>1. ASSUME NEW s \in Sections PROVE Chain(s) = ch[s]
  <2>1. ch[s] \in Seq(Rungs) /\ next \in [Rungs -> Links]
    BY DEF Sequences, TypeOK
  <2> QED
    BY <2>1, WalkIs DEF RowsOf, Chain, IsLadder
<1> QED
  BY <1>1 DEF Rows, Sequences

LEMMA TypedRowsNext == TypeOK' => RowsAre'
BY TypedRows, PTL

(* From sequences to the variable of RungChains.                           *)
LEMMA MovedIsChange ==
  ASSUME TypeOK, TypeOK', NEW ch \in Sequences, NEW ch2 \in Sequences,
         RowsOf(next, sections, ch), RowsOf(next', sections', ch2),
         ch2 = ch \/ Moved(ch, ch2)
  PROVE  Chains!Next \/ Rows' = Rows
<1>1. Rows = ch
  BY TypedRows DEF RowsAre
<1>2. Rows' = ch2
  BY TypedRowsNext DEF RowsAre
<1>3. CASE ch2 # ch /\ Moved(ch, ch2)
  <2>1. /\ [s \in Sections |-> Chain(s)] = ch
        /\ [s \in Sections |-> Chain(s)]' = ch2
    BY <1>1, <1>2 DEF Rows
  <2>2. \A r : Apart(ch, r) => Chains!Free(r)
    BY <2>1 DEF Apart, Chains!Free, Chains!Contains
  <2>3. Chains!Change
    <3>1. CASE \E s \in Sections, r \in Rungs :
                 \E i \in 1 .. Len(ch[s]) + 1 : Apart(ch, r) /\ ch[s] # << >> /\ ch2 = [ch EXCEPT ![s] = InsertAt(ch[s], i, r)]
      <4>1. PICK s \in Sections, r \in Rungs : \E i \in 1 .. Len(ch[s]) + 1 :
                 Apart(ch, r) /\ ch[s] # << >> /\ ch2 = [ch EXCEPT ![s] = InsertAt(ch[s], i, r)]
        BY <3>1
      <4>2. \E i \in 1 .. Len(ch[s]) + 1 : Chains!AddRung(s, i, r)
        BY <2>1, <2>2, <4>1 DEF Chains!AddRung, Chains!InsertAt, InsertAt
      <4> QED
        BY <2>1, <4>2 DEF Chains!Change
    <3>2. CASE \E s \in Sections, r \in Rungs :
                 Apart(ch, r) /\ ch[s] = << >> /\ ch2 = [ch EXCEPT ![s] = << r >>]
      BY <2>1, <2>2, <3>2 DEF Chains!Change, Chains!AddSection
    <3>3. CASE \E s \in Sections : \E i \in 1 .. Len(ch[s]) :
                 Len(ch[s]) > 1 /\ ch2 = [ch EXCEPT ![s] = RemoveAt(ch[s], i)]
      <4>1. PICK s \in Sections : \E i \in 1 .. Len(ch[s]) :
                 Len(ch[s]) > 1 /\ ch2 = [ch EXCEPT ![s] = RemoveAt(ch[s], i)]
        BY <3>3
      <4>2. \E i \in 1 .. Len(ch[s]) : Chains!DeleteRung(s, i)
        BY <2>1, <4>1 DEF Chains!DeleteRung, Chains!RemoveAt, RemoveAt
      <4>3. DOMAIN ch[s] = 1 .. Len(ch[s])
        BY DEF Sequences
      <4> QED
        BY <2>1, <4>2, <4>3 DEF Chains!Change
    <3>4. CASE \E s \in Sections : ch2 = [ch EXCEPT ![s] = << >>]
      BY <2>1, <3>4 DEF Chains!Change, Chains!DelSection
    <3>5. CASE \E s \in Sections, t \in Sections :
                 ch2 = [ch EXCEPT ![s] = ch[t], ![t] = ch[s]]
      BY <2>1, <3>5 DEF Chains!Change, Chains!SwapSections
    <3> QED
      BY <1>3, <3>1, <3>2, <3>3, <3>4, <3>5 DEF Moved
  <2> QED
    BY <1>3, <2>1, <2>3 DEF Chains!Next
<1> QED
  BY <1>1, <1>2, <1>3

(* What a step must show: sequences again, the same or one change apart;   *)
(* and what it starts from.                                                *)
Reached(ch) ==
    \E ch2 \in Sequences :
       /\ RowsOf(next', sections', ch2) /\ EndsDue(op', next', sections', infos', ch2)
       /\ ch2 = ch \/ Moved(ch, ch2)

Kept(ch) == ch \in Sequences /\ RowsOf(next, sections, ch)
              /\ EndsDue(op, next, sections, infos, ch)

(* A row whose ends SectionArray has is what IInv says of the section. *)
LEMMA RowIsOf ==
  ASSUME IInv, NEW ch \in Sequences, RowsOf(next, sections, ch), NEW s \in Sections, IsLadder(s),
         s # infos.section \/ op \notin {"first", "last"}
  PROVE  /\ Linked(next, ch[s], FirstOf(s), LastOf(s))
         /\ FirstOf(s) = sections[s].first /\ LastOf(s) = sections[s].last
         /\ ch[s] \in Seq(Rungs) /\ Len(ch[s]) \in Nat \ {0}
         /\ Places(ch[s]) = Of(s)
         /\ ch[s][Len(ch[s])] = LastOf(s)
<1>1. FirstOf(s) = sections[s].first /\ LastOf(s) = sections[s].last
  BY DEF IInv, Pending, IsLadder, FirstOf, LastOf
<1>2. ch[s] \in Seq(Rungs) /\ Linked(next, ch[s], FirstOf(s), LastOf(s))
  BY <1>1 DEF Sequences, RowsOf, IsLadder
<1>3. Len(ch[s]) \in Nat \ {0}
  BY <1>2, LinkedRungs DEF Linked
<1>4. next \in [Rungs -> Links]
  BY DEF IInv, TypeOK
<1>5. Places(ch[s]) = Of(s)
  BY <1>2, <1>4, MetIsPlaces DEF Of
<1>6. ch[s][Len(ch[s])] = LastOf(s)
  <2>1. ch[s][Len(ch[s])] \in Of(s)
    BY <1>3, <1>5 DEF Places
  <2>2. next[ch[s][Len(ch[s])]] = None \/ ch[s][Len(ch[s])] = LastOf(s)
    BY <1>2 DEF Linked
  <2>3. None \notin Of(s)
    BY IInvShape DEF Shape, None, Rungs
  <2> QED
    BY <2>1, <2>2, <2>3, IInvShape DEF Shape
<1> QED
  BY <1>1, <1>2, <1>3, <1>5, <1>6

(* Links outside the sequences do not matter to them.                      *)
LEMMA RowsStay ==
  ASSUME NEW nx, NEW nx2, NEW sec, NEW ch, RowsOf(nx, sec, ch),
         \A s \in Sections : \A i \in 1 .. Len(ch[s]) : nx2[ch[s][i]] = nx[ch[s][i]],
         \A s \in Sections : Len(ch[s]) \in Nat
  PROVE  RowsOf(nx2, sec, ch)
<1>1. ASSUME NEW s \in Sections, sec[s].used /\ sec[s].ladder
      PROVE  Linked(nx2, ch[s], sec[s].first, sec[s].last)
  <2>1. Linked(nx, ch[s], sec[s].first, sec[s].last)
    BY <1>1 DEF RowsOf
  <2>2. \A i \in 1 .. Len(ch[s]) : nx2[ch[s][i]] = nx[ch[s][i]]
    OBVIOUS
  <2>3. \A i \in 1 .. Len(ch[s]) - 1 : i \in 1 .. Len(ch[s])
    OBVIOUS
  <2>4. Len(ch[s]) # 0 => Len(ch[s]) \in 1 .. Len(ch[s])
    OBVIOUS
  <2>5. CASE Len(ch[s]) = 0
    BY <2>1, <2>2, <2>3, <2>5 DEF Linked
  <2> QED
    BY <2>1, <2>2, <2>3, <2>4, <2>5 DEF Linked
<1> QED
  BY <1>1 DEF RowsOf

LEMMA SequencesLong ==
  ASSUME NEW ch \in Sequences, NEW s \in Sections
  PROVE  ch[s] \in Seq(Rungs) /\ Len(ch[s]) \in Nat
BY DEF Sequences

(* A rung of no section is in no sequence.                                 *)
LEMMA ApartFromAll ==
  ASSUME IInv, NEW ch \in Sequences, RowsOf(next, sections, ch), op \notin {"first", "last"},
         NEW n, \A s \in Sections : n \notin Of(s)
  PROVE  Apart(ch, n)
<1>1. ASSUME NEW s \in Sections PROVE \A i \in 1 .. Len(ch[s]) : ch[s][i] # n
  <2>1. CASE IsLadder(s)
    BY <2>1, RowIsOf DEF Places
  <2>2. CASE ~IsLadder(s)
    BY <2>2 DEF RowsOf, IsLadder
  <2> QED
    BY <2>1, <2>2
<1> QED
  BY <1>1 DEF Apart

(* Every step, as a change of the sequences or none.                       *)
LEMMA QuietMoves ==
  ASSUME DeadEnds, NEW ch, Kept(ch), UNCHANGED << next, sections, infos, edit, op >>
  PROVE  DeadEnds' /\ Reached(ch)
<1>1. DeadEnds'
  BY DEF DeadEnds, LastOf, IsLadder
<1> QED
  BY <1>1 DEF Reached, Kept

LEMMA IdleMoves ==
  ASSUME IInv, IInv', DeadEnds, NEW ch, Kept(ch), Idle, UNCHANGED << next, sections, op >>,
         edit'.mode \in {"add", "insert"} => edit'.next = None
  PROVE  DeadEnds' /\ Reached(ch)
<1>1. ASSUME NEW s \in Sections, IsLadder(s)' PROVE next'[LastOf(s)'] = None
  <2>1. LastOf(s) = sections[s].last /\ LastOf(s)' = sections'[s].last
    BY <1>1, IdleCopied, IdleCopiedNext DEF Copied, Idle, IsLadder
  <2> QED
    BY <1>1, <2>1 DEF DeadEnds, IsLadder
<1>2. DeadEnds'
  BY <1>1 DEF DeadEnds, Idle
<1>3. EndsDue(op', next', sections', infos', ch)
  BY DEF EndsDue, Idle
<1> QED
  BY <1>2, <1>3 DEF Reached, Kept

LEMMA ApplyMoves ==
  ASSUME IInv, IInv', DeadEnds, NEW ch, Kept(ch), ApplyRungEdited
  PROVE  DeadEnds' /\ Reached(ch)
<1>1. /\ Idle /\ Editing /\ IsLadder(infos.section)
      /\ UNCHANGED << sections, infos, edit >>
      /\ next' = [next EXCEPT ![edit.num] = edit.next]
      /\ op' = IF edit.mode = "modify" THEN "first" ELSE "own"
  BY DEF ApplyRungEdited
<1>2. TypeOK /\ edit.num \in Rungs /\ next \in [Rungs -> Links] /\ infos.section \in Sections
  BY DEF IInv, TypeOK
<1>3. \A s \in Sections : (IsLadder(s)' <=> IsLadder(s)) /\ LastOf(s)' = LastOf(s)
  BY <1>1 DEF IsLadder, LastOf
<1>4. edit.mode \in {"add", "insert", "modify"}
  BY <1>1, <1>2 DEF TypeOK, Editing
<1>5. CASE edit.mode = "modify"
  <2>1. next' = next /\ op' = "first"
    BY <1>1, <1>2, <1>5 DEF IInv, Pending, Idle
  <2>2. infos.first = sections[infos.section].first /\ infos.last = sections[infos.section].last
    BY <1>1 DEF IInv, Pending, Idle, IsLadder
  <2>3. EndsDue(op', next', sections', infos', ch)
    BY <1>1, <2>1, <2>2 DEF EndsDue, FirstDue, LastDue
  <2>4. DeadEnds'
    BY <1>3, <2>1 DEF DeadEnds
  <2> QED
    BY <1>1, <2>1, <2>3, <2>4 DEF Reached, Kept
<1>6. CASE edit.mode \in {"add", "insert"}
  <2>1. op' = "own" /\ ~used[edit.num] /\ edit.next = None
    BY <1>1, <1>6 DEF IInv, Pending, Idle, DeadEnds
  <2>2. \A s \in Sections : edit.num \notin Of(s)
    BY <1>2, <2>1, IInvShape DEF Shape
  <2>3. Apart(ch, edit.num)
    BY <1>1, <2>2, ApartFromAll DEF Kept, Idle
  <2>4. RowsOf(next', sections', ch)
    <3>1. \A s \in Sections : \A i \in 1 .. Len(ch[s]) : next'[ch[s][i]] = next[ch[s][i]]
      BY <1>1, <1>2, <2>3, SequencesLong DEF Apart, Kept
    <3> QED
      BY <1>1, <3>1, RowsStay, SequencesLong, ZenonT(60) DEF Kept
  <2>5. EndsDue(op', next', sections', infos', ch)
    BY <2>1 DEF EndsDue
  <2>6. ASSUME NEW s \in Sections, IsLadder(s) PROVE next'[LastOf(s)] = None
    <3>1. LastOf(s) \in Of(s) /\ LastOf(s) \in Rungs
      BY <1>2, <2>6, IInvShape, EndsTyped DEF Shape
    <3> QED
      BY <1>1, <1>2, <2>2, <2>6, <3>1 DEF DeadEnds
  <2>7. DeadEnds'
    BY <1>1, <1>2, <1>3, <2>1, <2>6 DEF DeadEnds
  <2> QED
    BY <2>4, <2>5, <2>7 DEF Reached, Kept
<1> QED
  BY <1>4, <1>5, <1>6

LEMMA LinkOwnMoves ==
  ASSUME IInv, IInv', DeadEnds, NEW ch, Kept(ch), LinkOwn
  PROVE  DeadEnds' /\ Reached(ch)
<1> DEFINE n == edit.num
           c == infos.current
<1>1. /\ op = "own" /\ op' = "in"
      /\ UNCHANGED << sections, infos, edit >>
  BY DEF LinkOwn
<1>2. TypeOK /\ n \in Rungs /\ next \in [Rungs -> Links] /\ infos.section \in Sections
  BY DEF IInv, TypeOK
<1>3. \A s \in Sections : (IsLadder(s)' <=> IsLadder(s)) /\ LastOf(s)' = LastOf(s)
  BY <1>1 DEF IsLadder, LastOf
<1>4. /\ \A r \in Rungs : r # n => next'[r] = next[r]
      /\ edit.mode = "add" /\ c = infos.last => next' = next
  BY <1>2 DEF LinkOwn
<1>5. \A s \in Sections : n \notin Of(s)
  BY <1>1, <1>2, IInvShape DEF Shape, Linking
<1>6. Apart(ch, n)
  BY <1>1, <1>5, ApartFromAll DEF Kept
<1>7. RowsOf(next', sections', ch)
  <2>1. \A s \in Sections : \A i \in 1 .. Len(ch[s]) : next'[ch[s][i]] = next[ch[s][i]]
    BY <1>4, <1>6, SequencesLong DEF Apart, Kept
  <2> QED
    BY <1>1, <2>1, RowsStay, SequencesLong DEF Kept
<1>8. EndsDue(op', next', sections', infos', ch)
  BY <1>1 DEF EndsDue
<1>9. ASSUME NEW s \in Sections, IsLadder(s) PROVE next'[LastOf(s)] = None
  <2>1. LastOf(s) \in Of(s) /\ LastOf(s) \in Rungs
    BY <1>2, <1>9, IInvShape, EndsTyped DEF Shape
  <2> QED
    BY <1>4, <1>5, <1>9, <2>1 DEF DeadEnds
<1>10. DeadEnds'
  BY <1>1, <1>3, <1>4, <1>9 DEF DeadEnds
<1> QED
  BY <1>7, <1>8, <1>10 DEF Reached, Kept

(* The links and the ends of one section change, and give it row.          *)
OneRow(nx, nx2, sec, sec2, ch, s, row) ==
    /\ ch \in Sequences /\ RowsOf(nx, sec, ch)
    /\ s \in Sections /\ row \in Seq(Rungs) /\ sec2[s].used /\ sec2[s].ladder
    /\ Linked(nx2, row, sec2[s].first, sec2[s].last)
    /\ \A t \in Sections \ {s} :
          sec2[t] = sec[t] /\ \A i \in 1 .. Len(ch[t]) : nx2[ch[t][i]] = nx[ch[t][i]]

LEMMA RowChanged ==
  ASSUME NEW nx, NEW nx2, NEW sec, NEW sec2, NEW ch, NEW s, NEW row,
         OneRow(nx, nx2, sec, sec2, ch, s, row)
  PROVE  RowsOf(nx2, sec2, [ch EXCEPT ![s] = row]) /\ [ch EXCEPT ![s] = row] \in Sequences
<1> USE DEF OneRow
<1> DEFINE ch2 == [ch EXCEPT ![s] = row]
<1>1. ch2 \in Sequences /\ ch2[s] = row /\ \A t \in Sections \ {s} : ch2[t] = ch[t]
  BY DEF Sequences
<1> HIDE DEF ch2
<1>2. ASSUME NEW t \in Sections \ {s}, sec2[t].used /\ sec2[t].ladder
      PROVE  Linked(nx2, ch[t], sec2[t].first, sec2[t].last)
  <2>1. Linked(nx, ch[t], sec2[t].first, sec2[t].last)
    BY <1>2 DEF RowsOf
  <2>2. Len(ch[t]) \in Nat \ {0}
    BY <2>1, SequencesLong, LinkedRungs DEF Linked
  <2>3. /\ \A i \in 1 .. Len(ch[t]) - 1 : i \in 1 .. Len(ch[t])
        /\ Len(ch[t]) \in 1 .. Len(ch[t])
    BY <2>2
  <2>4. \A i \in 1 .. Len(ch[t]) : nx2[ch[t][i]] = nx[ch[t][i]]
    OBVIOUS
  <2> QED
    BY <2>1, <2>3, <2>4 DEF Linked
<1>3. RowsOf(nx2, sec2, ch2)
  BY <1>1, <1>2 DEF RowsOf
<1> QED
  BY <1>1, <1>3 DEF ch2

LEMMA RowInserted ==
  ASSUME NEW ch \in Sequences, NEW s \in Sections, ch[s] # << >>, NEW n \in Rungs, Apart(ch, n),
         NEW i \in 1 .. Len(ch[s]) + 1
  PROVE  /\ Moved(ch, [ch EXCEPT ![s] = InsertAt(ch[s], i, n)])
         /\ InsertAt(ch[s], i, n) \in Seq(Rungs) /\ n \notin Places(ch[s])
<1>1. ch[s] \in Seq(Rungs)
  BY SequencesLong
<1> QED
  BY <1>1, InsertedAt DEF Moved, Apart, Places

LEMMA RowCut ==
  ASSUME NEW ch \in Sequences, NEW s \in Sections, Len(ch[s]) > 1, NEW i \in 1 .. Len(ch[s])
  PROVE  /\ Moved(ch, [ch EXCEPT ![s] = RemoveAt(ch[s], i)])
         /\ RemoveAt(ch[s], i) \in Seq(Rungs)
<1>1. ch[s] \in Seq(Rungs)
  BY SequencesLong
<1> QED
  BY <1>1, RemovedAt DEF Moved

(* The rungs of the other sections are not those of s. *)
LEMMA OtherRows ==
  ASSUME IInv, NEW ch \in Sequences, RowsOf(next, sections, ch),
         NEW s \in Sections, s = infos.section \/ op \notin {"first", "last"},
         NEW t \in Sections \ {s}, NEW i \in 1 .. Len(ch[t])
  PROVE  ch[t][i] \in Rungs /\ ch[t][i] \notin Of(s) /\ ch[t][i] \in Of(t)
<1>1. IsLadder(t)
  <2>1. SUFFICES ASSUME ~IsLadder(t) PROVE FALSE
    OBVIOUS
  <2>2. ch[t] = << >>
    BY <2>1 DEF RowsOf, IsLadder
  <2> QED
    BY <2>2
<1>2. ch[t][i] \in Of(t)
  BY <1>1, RowIsOf DEF Places
<1> QED
  BY <1>2, IInvShape DEF Shape

(* The write that a refresh sees: a rung linked in in the middle. At an    *)
(* end nothing is seen before the end is copied.                           *)
LEMMA LinkInMoves ==
  ASSUME IInv, IInv', DeadEnds, NEW ch, Kept(ch), LinkIn
  PROVE  DeadEnds' /\ Reached(ch)
<1>0. PICK s \in Sections, n \in Rungs, c \in Rungs :
         s = infos.section /\ n = edit.num /\ c = infos.current
  BY DEF IInv, TypeOK
<1> DEFINE row == ch[s]
           N == Len(ch[s])
<1>1. /\ op = "in" /\ op' = "first" /\ infos'.section = s
      /\ UNCHANGED << sections, edit >>
      /\ edit.mode = "add" =>
            /\ next' = [next EXCEPT ![c] = n]
            /\ infos'.first = infos.first
            /\ infos'.last = IF c = infos.last THEN n ELSE infos.last
      /\ edit.mode = "insert" =>
            /\ next' = IF c = infos.first THEN next ELSE [next EXCEPT ![prev[c]] = n]
            /\ infos'.first = IF c = infos.first THEN n ELSE infos.first
            /\ infos'.last = infos.last
  <2>1. infos \in [first : Rungs, last : Rungs, current : Rungs, section : Sections]
    BY DEF IInv, TypeOK
  <2> QED
    BY <1>0, <2>1 DEF LinkIn, AutoSelect
<1>2. /\ TypeOK /\ next \in [Rungs -> Links]
      /\ prev \in [Rungs -> Links] /\ None \notin Rungs
  <2>1. None \notin Rungs
    BY DEF None, Rungs
  <2> QED
    BY <2>1 DEF IInv, TypeOK
<1>3. Linking /\ IsLadder(s) /\ edit.mode \in {"add", "insert"} /\ NewLinked
  BY <1>0, <1>1 DEF IInv, Pending, Linking, IsLadder
<1>4. (\A t \in Sections : n \notin Of(t)) /\ Apart(ch, n)
  BY <1>0, <1>1, <1>3, IInvShape, ApartFromAll DEF Shape, Kept
<1>5. /\ ch \in Sequences /\ RowsOf(next, sections, ch)
  BY DEF Kept
<1>6. /\ Linked(next, row, infos.first, infos.last)
      /\ sections[s].first = infos.first /\ sections[s].last = infos.last
      /\ row \in Seq(Rungs) /\ N \in Nat \ {0} /\ Places(row) = Of(s) /\ row[N] = infos.last
  BY <1>0, <1>1, <1>3, <1>5, RowIsOf DEF FirstOf, LastOf
<1>7. PICK i \in 1 .. N : row[i] = c
  BY <1>0, <1>3, <1>6, IInvShape DEF Shape, Places
<1>8. /\ \A j \in 1 .. N : row[j] \in Rungs /\ row[j] # n
      /\ \A j, k \in 1 .. N : row[j] = row[k] => j = k
      /\ \A j \in 1 .. N - 1 : row[j] # infos.last /\ next[row[j]] = row[j + 1]
      /\ row[1] = infos.first
  <2>1. \A j \in 1 .. N : row[j] \in Rungs
    BY <1>6
  <2>2. \A j \in 1 .. N : row[j] # n
    BY <1>2, <1>4 DEF Apart
  <2> QED
    BY <1>6, <2>1, <2>2 DEF Linked
<1>9. \A t \in Sections \ {s} : \A j \in 1 .. Len(ch[t]) :
         ch[t][j] \in Rungs /\ ch[t][j] \notin Of(s)
  BY <1>0, <1>5, OtherRows
<1>10. ASSUME NEW t \in Sections \ {s}, IsLadder(t)
       PROVE  LastOf(t)' = LastOf(t) /\ LastOf(t) \in Rungs \ Of(s) /\ next[LastOf(t)] = None
  <2>1. LastOf(t) \in Of(t) /\ LastOf(t) \in Rungs
    BY <1>2, <1>10, IInvShape, EndsTyped DEF Shape
  <2> QED
    BY <1>0, <1>1, <1>10, <2>1, IInvShape DEF Shape, DeadEnds, LastOf
<1>11. LastOf(s) = infos.last /\ LastOf(s)' = infos'.last /\ next[infos.last] = None
  BY <1>0, <1>1, <1>3 DEF LastOf, DeadEnds
<1>12. \A t \in Sections : IsLadder(t)' <=> IsLadder(t)
  BY <1>1 DEF IsLadder
<1> HIDE DEF row, N
<1>13. sections'[s].used /\ sections'[s].ladder
  BY <1>1, <1>3 DEF IsLadder
<1>20. CASE edit.mode = "add" /\ c = infos.last
  <2>1. i = N
    BY <1>6, <1>7, <1>8, <1>20
  <2>2. \A r \in Rungs : next'[r] = IF r = c THEN n ELSE next[r]
    BY <1>1, <1>2, <1>20
  <2>3. Linked(next', row, infos.first, infos.last)
    BY <1>6, <1>7, <1>8, <1>20, <2>1, <2>2 DEF Linked, N
  <2>4. RowsOf(next', sections', [ch EXCEPT ![s] = row])
    <3>1. \A t \in Sections \ {s} : \A j \in 1 .. Len(ch[t]) : next'[ch[t][j]] = next[ch[t][j]]
      BY <1>3, <1>9, <2>2, <1>0, IInvShape DEF Shape
    <3>2. sections' = sections
      BY <1>1
    <3>3. Linked(next', row, sections'[s].first, sections'[s].last)
      BY <1>6, <2>3, <3>2
    <3>4. \A u \in Sections \ {s} : sections'[u] = sections[u]
      BY <3>2
    <3>5. OneRow(next, next', sections, sections', ch, s, row)
      BY <1>5, <1>6, <1>13, <3>1, <3>3, <3>4 DEF OneRow
    <3> QED
      BY <3>5, RowChanged
  <2>5. [ch EXCEPT ![s] = row] = ch
    BY <1>5 DEF row, Sequences
  <2>6. FirstDue(next', sections', infos', ch)
    BY <1>1, <1>6, <1>20 DEF FirstDue
  <2>7. LastDue(next', sections', infos', ch)
    <3>1. ch[infos'.section] = row /\ sections'[infos'.section].last = infos.last
      BY <1>1, <1>6 DEF row
    <3>2. infos'.last = n /\ Apart(ch, n) /\ row[Len(row)] = infos.last /\ next'[infos.last] = n
      BY <1>1, <1>2, <1>4, <1>6, <1>20, <2>2 DEF N, row
    <3> QED
      BY <3>1, <3>2 DEF LastDue
  <2>8. EndsDue(op', next', sections', infos', ch)
    BY <2>6, <2>7 DEF EndsDue
  <2>9. DeadEnds'
    <3>1. next'[n] = None
      BY <1>1, <1>2, <1>7, <1>8, <1>20, <2>2, <1>0 DEF DeadEnds
    <3>2. ASSUME NEW t \in Sections, IsLadder(t)' PROVE next'[LastOf(t)'] = None
      <4>1. CASE t = s
        BY <1>1, <1>11, <1>20, <3>1, <4>1
      <4>2. CASE t # s
        <5>1. LastOf(t)' = LastOf(t) /\ LastOf(t) \in Rungs \ Of(s) /\ next[LastOf(t)] = None
          BY <1>10, <1>12, <3>2, <4>2
        <5>2. c \in Of(s)
          BY <1>3, <1>0, IInvShape DEF Shape
        <5> QED
          BY <2>2, <5>1, <5>2
      <4> QED
        BY <4>1, <4>2
    <3> QED
      BY <1>1, <3>2 DEF DeadEnds
  <2> QED
    BY <1>5, <2>4, <2>5, <2>8, <2>9 DEF Reached
<1>21. CASE edit.mode = "add" /\ c # infos.last
  <2> DEFINE ch2 == [ch EXCEPT ![s] = InsertAt(row, i + 1, n)]
  <2>1. i < N
    BY <1>6, <1>7, <1>21
  <2>2. \A r \in Rungs : next'[r] = IF r = c THEN n ELSE next[r]
    BY <1>1, <1>2, <1>21
  <2>3. next[n] = row[i + 1]
    <3>1. next[n] = next[c]
      BY <1>0, <1>3, <1>21 DEF NewLinked
    <3>2. i \in 1 .. N - 1
      BY <1>6, <2>1
    <3> QED
      BY <1>7, <1>8, <3>1, <3>2
  <2>4. Linked(next', InsertAt(row, i + 1, n), infos.first, infos.last)
    <3>1. i + 1 \in 1 .. Len(row) + 1 /\ i + 1 > 1 /\ i + 1 # Len(row) + 1 /\ i + 1 - 1 = i
      BY <2>1, <1>6 DEF N, row
    <3>2. next'[row[i + 1 - 1]] = n
      BY <1>2, <1>7, <2>2, <3>1
    <3>3. next'[n] = row[i + 1]
      BY <1>2, <1>7, <1>8, <2>2, <2>3
    <3>4. row[i + 1 - 1] # infos.last
      BY <1>7, <1>21, <3>1
    <3>5. \A j \in 1 .. Len(row) : j # i + 1 - 1 => next'[row[j]] = next[row[j]]
      BY <1>7, <1>8, <2>2, <3>1 DEF N, row
    <3>6. n \notin Places(row) /\ n # infos.last
      BY <1>4, <1>6, <1>2, <1>8 DEF Places, N, row
    <3>7. Linked(next', InsertAt(row, i + 1, n), IF i + 1 = 1 THEN n ELSE infos.first,
                 IF i + 1 = Len(row) + 1 THEN n ELSE infos.last)
      <4> DEFINE k == i + 1
      <4>1. k \in 1 .. Len(row) + 1 /\ (k > 1 => next'[row[k - 1]] = n)
        BY <3>1, <3>2
      <4>2. k <= Len(row) => next'[n] = row[k] /\ (k > 1 => row[k - 1] # infos.last)
        BY <3>3, <3>4
      <4>3. \A j \in 1 .. Len(row) : j # k - 1 => next'[row[j]] = next[row[j]]
        BY <3>5
      <4> HIDE DEF k
      <4>4. Linked(next', InsertAt(row, k, n), IF k = 1 THEN n ELSE infos.first,
                   IF k = Len(row) + 1 THEN n ELSE infos.last)
        BY <1>6, <3>6, <4>1, <4>2, <4>3, LinkedIn
      <4> QED
        BY <4>4 DEF k
    <3>8. i + 1 # 1 /\ i + 1 # Len(row) + 1
      BY <3>1
    <3> QED
      BY <3>7, <3>8
  <2>5. RowsOf(next', sections', ch2) /\ ch2 \in Sequences /\ Moved(ch, ch2)
    <3>1. \A t \in Sections \ {s} : \A j \in 1 .. Len(ch[t]) : next'[ch[t][j]] = next[ch[t][j]]
      BY <1>3, <1>9, <2>2, <1>0, IInvShape DEF Shape
    <3>2. row # << >> /\ i + 1 \in 1 .. Len(row) + 1
      BY <2>1, <1>6 DEF N, row
    <3>3. Moved(ch, ch2) /\ InsertAt(row, i + 1, n) \in Seq(Rungs)
      BY <1>2, <1>4, <1>5, <3>2, RowInserted DEF row
    <3>4. sections' = sections
      BY <1>1
    <3>5. Linked(next', InsertAt(row, i + 1, n), sections'[s].first, sections'[s].last)
      BY <1>6, <2>4, <3>4
    <3>6. \A u \in Sections \ {s} : sections'[u] = sections[u]
      BY <3>4
    <3>7. InsertAt(row, i + 1, n) \in Seq(Rungs)
      BY <3>3
    <3>8. OneRow(next, next', sections, sections', ch, s, InsertAt(row, i + 1, n))
      BY <1>5, <1>13, <3>1, <3>5, <3>6, <3>7 DEF OneRow
    <3> QED
      BY <3>3, <3>8, RowChanged
  <2>6. FirstDue(next', sections', infos', ch2) /\ LastDue(next', sections', infos', ch2)
    BY <1>1, <1>6, <1>21 DEF FirstDue, LastDue
  <2>7. DeadEnds'
    <3>2. ASSUME NEW t \in Sections, IsLadder(t)' PROVE next'[LastOf(t)'] = None
      <4>1. CASE t = s
        BY <1>1, <1>2, <1>6, <1>8, <1>11, <1>21, <2>2, <4>1
      <4>2. CASE t # s
        <5>1. LastOf(t)' = LastOf(t) /\ LastOf(t) \in Rungs \ Of(s) /\ next[LastOf(t)] = None
          BY <1>10, <1>12, <3>2, <4>2
        <5>2. c \in Of(s)
          BY <1>3, <1>0, IInvShape DEF Shape
        <5> QED
          BY <2>2, <5>1, <5>2
      <4> QED
        BY <4>1, <4>2
    <3> QED
      BY <1>1, <3>2 DEF DeadEnds
  <2> HIDE DEF ch2
  <2>8. EndsDue(op', next', sections', infos', ch2)
    BY <2>6 DEF EndsDue
  <2> QED
    BY <2>5, <2>7, <2>8 DEF Reached
<1>22. CASE edit.mode = "insert" /\ c = infos.first
  <2>1. next' = next
    BY <1>1, <1>22
  <2>2. next[n] = infos.first
    BY <1>3, <1>22, <1>0 DEF NewLinked
  <2>3. FirstDue(next', sections', infos', ch) /\ LastDue(next', sections', infos', ch)
    BY <1>1, <1>4, <1>6, <1>22, <2>1, <2>2 DEF FirstDue, LastDue
  <2>4. EndsDue(op', next', sections', infos', ch)
    BY <2>3 DEF EndsDue
  <2>5. \A t \in Sections : IsLadder(t) => LastOf(t)' = LastOf(t)
    BY <1>1, <1>10, <1>11, <1>22
  <2>6. DeadEnds'
    BY <1>1, <1>12, <2>1, <2>5 DEF DeadEnds
  <2> QED
    BY <1>1, <1>5, <2>1, <2>4, <2>6 DEF Reached
<1>23. CASE edit.mode = "insert" /\ c # infos.first
  <2> DEFINE ch2 == [ch EXCEPT ![s] = InsertAt(row, i, n)]
             p == row[i - 1]
  <2>1. i \in 2 .. N /\ i - 1 \in 1 .. N - 1 /\ i - 1 \in 1 .. N /\ i - 1 + 1 = i
    BY <1>6, <1>7, <1>8, <1>23
  <2>2. next[p] = c /\ p # infos.last /\ p \in Rungs /\ p \in Of(s)
    <3>1. next[row[i - 1]] = row[i - 1 + 1] /\ row[i - 1] # infos.last
      BY <1>8, <2>1
    <3>2. row[i - 1] \in Of(s)
      BY <1>6, <2>1 DEF Places, N, row
    <3> QED
      BY <1>7, <1>8, <2>1, <3>1, <3>2
  <2>3. prev[c] = p
    <3>1. Back = prev
      BY <1>23 DEF Back
    <3>2. Back[next[p]] = p
      BY <1>2, <1>3, <1>11, <2>2, <1>0, IInvShape DEF Shape
    <3> QED
      BY <2>2, <3>1, <3>2
  <2> HIDE DEF p
  <2>4. \A r \in Rungs : next'[r] = IF r = p THEN n ELSE next[r]
    BY <1>1, <1>2, <1>23, <2>2, <2>3
  <2>5. Linked(next', InsertAt(row, i, n), infos.first, infos.last)
    <3>1. i \in 1 .. Len(row) + 1 /\ i > 1 /\ i # Len(row) + 1 /\ i # 1
      BY <2>1, <1>6 DEF N, row
    <3>2. next'[row[i - 1]] = n /\ row[i - 1] # infos.last
      BY <2>2, <2>4 DEF p
    <3>3. next'[n] = row[i]
      <4>1. next[n] = c
        BY <1>3, <1>23, <1>0 DEF NewLinked
      <4> QED
        BY <1>2, <1>7, <1>8, <2>1, <2>4, <4>1 DEF p
    <3>5. \A j \in 1 .. Len(row) : j # i - 1 => next'[row[j]] = next[row[j]]
      BY <1>8, <2>1, <2>4 DEF N, row, p
    <3>6. n \notin Places(row) /\ n # infos.last
      BY <1>4, <1>6, <1>2, <1>8 DEF Places, N, row
    <3> QED
      BY <1>2, <1>6, <3>1, <3>2, <3>3, <3>5, <3>6, LinkedIn
  <2>6. RowsOf(next', sections', ch2) /\ ch2 \in Sequences /\ Moved(ch, ch2)
    <3>1. \A t \in Sections \ {s} : \A j \in 1 .. Len(ch[t]) : next'[ch[t][j]] = next[ch[t][j]]
      BY <1>9, <2>2, <2>4
    <3>2. row # << >> /\ i \in 1 .. Len(row) + 1
      BY <2>1, <1>6 DEF N, row
    <3>3. Moved(ch, ch2) /\ InsertAt(row, i, n) \in Seq(Rungs)
      BY <1>2, <1>4, <1>5, <3>2, RowInserted DEF row
    <3>4. sections' = sections
      BY <1>1
    <3>5. Linked(next', InsertAt(row, i, n), sections'[s].first, sections'[s].last)
      BY <1>6, <2>5, <3>4
    <3>6. \A u \in Sections \ {s} : sections'[u] = sections[u]
      BY <3>4
    <3>7. InsertAt(row, i, n) \in Seq(Rungs)
      BY <3>3
    <3>8. OneRow(next, next', sections, sections', ch, s, InsertAt(row, i, n))
      BY <1>5, <1>13, <3>1, <3>5, <3>6, <3>7 DEF OneRow
    <3> QED
      BY <3>3, <3>8, RowChanged
  <2>7. FirstDue(next', sections', infos', ch2) /\ LastDue(next', sections', infos', ch2)
    BY <1>1, <1>6, <1>23 DEF FirstDue, LastDue
  <2>8. DeadEnds'
    <3>2. ASSUME NEW t \in Sections, IsLadder(t)' PROVE next'[LastOf(t)'] = None
      <4>1. CASE t = s
        BY <1>1, <1>2, <1>6, <1>8, <1>11, <1>23, <2>2, <2>4, <4>1
      <4>2. CASE t # s
        <5>1. LastOf(t)' = LastOf(t) /\ LastOf(t) \in Rungs \ Of(s) /\ next[LastOf(t)] = None
          BY <1>10, <1>12, <3>2, <4>2
        <5> QED
          BY <2>2, <2>4, <5>1
      <4> QED
        BY <4>1, <4>2
    <3> QED
      BY <1>1, <3>2 DEF DeadEnds
  <2> HIDE DEF ch2
  <2>9. EndsDue(op', next', sections', infos', ch2)
    BY <2>7 DEF EndsDue
  <2> QED
    BY <2>6, <2>8, <2>9 DEF Reached
<1> QED
  BY <1>3, <1>20, <1>21, <1>22, <1>23

(* A rung deleted in the middle or last; the first one goes with SaveFirst. *)
LEMMA DeleteMoves ==
  ASSUME IInv, IInv', DeadEnds, NEW ch, Kept(ch), DeleteCurrentRung
  PROVE  DeadEnds' /\ Reached(ch)
<1>0. PICK s \in Sections, r \in Rungs : s = infos.section /\ r = infos.current
  BY DEF IInv, TypeOK
<1> DEFINE row == ch[s]
           N == Len(ch[s])
<1>1. /\ op = "idle" /\ op' = "first" /\ infos'.section = s
      /\ UNCHANGED << sections, edit >>
      /\ IsLadder(s) /\ infos.first # infos.last
      /\ next' = IF r = infos.first THEN next ELSE [next EXCEPT ![prev[r]] = next[r]]
      /\ infos'.first = IF r = infos.first THEN next[r] ELSE infos.first
      /\ infos'.last = IF r = infos.last THEN prev[r] ELSE infos.last
  <2>1. infos \in [first : Rungs, last : Rungs, current : Rungs, section : Sections]
    BY DEF IInv, TypeOK
  <2> QED
    BY <1>0, <2>1 DEF DeleteCurrentRung, AutoSelect, Idle
<1>2. /\ TypeOK /\ next \in [Rungs -> Links] /\ prev \in [Rungs -> Links] /\ None \notin Rungs
  <2>1. None \notin Rungs
    BY DEF None, Rungs
  <2> QED
    BY <2>1 DEF IInv, TypeOK
<1>5. ch \in Sequences /\ RowsOf(next, sections, ch)
  BY DEF Kept
<1>6. /\ Linked(next, row, infos.first, infos.last)
      /\ sections[s].first = infos.first /\ sections[s].last = infos.last
      /\ row \in Seq(Rungs) /\ N \in Nat \ {0} /\ Places(row) = Of(s) /\ row[N] = infos.last
  BY <1>0, <1>1, <1>5, RowIsOf DEF FirstOf, LastOf
<1>7. PICK i \in 1 .. N : row[i] = r
  BY <1>0, <1>1, <1>6, IInvShape DEF Shape, Places
<1>8. /\ \A j \in 1 .. N : row[j] \in Rungs
      /\ \A j, k \in 1 .. N : row[j] = row[k] => j = k
      /\ \A j \in 1 .. N - 1 : row[j] # infos.last /\ next[row[j]] = row[j + 1]
      /\ row[1] = infos.first
  <2>1. \A j \in 1 .. N : row[j] \in Rungs
    BY <1>6
  <2> QED
    BY <1>6, <2>1 DEF Linked
<1>9. \A t \in Sections \ {s} : \A j \in 1 .. Len(ch[t]) :
         ch[t][j] \in Rungs /\ ch[t][j] \notin Of(s)
  BY <1>0, <1>5, OtherRows
<1>10. ASSUME NEW t \in Sections \ {s}, IsLadder(t)
       PROVE  LastOf(t)' = LastOf(t) /\ LastOf(t) \in Rungs \ Of(s) /\ next[LastOf(t)] = None
  <2>1. LastOf(t) \in Of(t) /\ LastOf(t) \in Rungs
    BY <1>2, <1>10, IInvShape, EndsTyped DEF Shape
  <2> QED
    BY <1>0, <1>1, <1>10, <2>1, IInvShape DEF Shape, DeadEnds, LastOf
<1>11. LastOf(s) = infos.last /\ LastOf(s)' = infos'.last /\ next[infos.last] = None
  BY <1>0, <1>1 DEF LastOf, DeadEnds
<1>12. \A t \in Sections : IsLadder(t)' <=> IsLadder(t)
  BY <1>1 DEF IsLadder
<1>13. sections' = sections /\ sections'[s].used /\ sections'[s].ladder
  BY <1>1 DEF IsLadder
<1>14. N > 1
  BY <1>1, <1>6, <1>8
<1> HIDE DEF row, N
<1>20. CASE r = infos.first
  <2>1. next' = next /\ infos'.last = infos.last /\ infos'.first = next[r]
    BY <1>1, <1>20
  <2>2. infos'.first = row[2]
    <3>1. i = 1 /\ 1 \in 1 .. N - 1
      BY <1>6, <1>7, <1>8, <1>14, <1>20
    <3> QED
      BY <1>7, <1>8, <2>1, <3>1
  <2>3. FirstDue(next', sections', infos', ch) /\ LastDue(next', sections', infos', ch)
    BY <1>1, <1>6, <1>13, <1>14, <2>1, <2>2 DEF FirstDue, LastDue, row, N
  <2>4. EndsDue(op', next', sections', infos', ch)
    BY <2>3 DEF EndsDue
  <2>5. \A t \in Sections : IsLadder(t) => LastOf(t)' = LastOf(t)
    BY <1>10, <1>11, <2>1
  <2>6. DeadEnds'
    BY <1>1, <1>12, <2>1, <2>5 DEF DeadEnds
  <2> QED
    BY <1>5, <1>13, <2>1, <2>4, <2>6 DEF Reached
<1>21. CASE r # infos.first
  <2> DEFINE ch2 == [ch EXCEPT ![s] = RemoveAt(row, i)]
             p == row[i - 1]
  <2>1. i \in 2 .. N /\ i - 1 \in 1 .. N - 1 /\ i - 1 \in 1 .. N /\ i - 1 + 1 = i
    BY <1>6, <1>7, <1>8, <1>21
  <2>2. next[p] = r /\ p # infos.last /\ p \in Rungs /\ p \in Of(s)
    <3>1. next[row[i - 1]] = row[i - 1 + 1] /\ row[i - 1] # infos.last
      BY <1>8, <2>1
    <3>2. row[i - 1] \in Of(s)
      BY <1>6, <2>1 DEF Places, N, row
    <3> QED
      BY <1>7, <1>8, <2>1, <3>1, <3>2
  <2>3. prev[r] = p
    <3>1. Back = prev
      BY <1>1 DEF Back
    <3>2. Back[next[p]] = p
      BY <1>1, <1>11, <2>2, IInvShape DEF Shape
    <3> QED
      BY <2>2, <3>1, <3>2
  <2>4. next[r] = IF i = N THEN None ELSE row[i + 1]
    <3>1. CASE i = N
      BY <1>6, <1>7, <1>11, <3>1
    <3>2. CASE i # N
      <4>1. i \in 1 .. N - 1
        BY <1>6, <3>2
      <4> QED
        BY <1>7, <1>8, <3>2, <4>1
    <3> QED
      BY <3>1, <3>2
  <2> HIDE DEF p
  <2>5. \A q \in Rungs : next'[q] = IF q = p THEN next[r] ELSE next[q]
    BY <1>1, <1>2, <1>21, <2>2, <2>3
  <2>6. Linked(next', RemoveAt(row, i), infos.first, infos.last)
    <3>1. Len(row) > 1 /\ i \in 1 .. Len(row) /\ i # 1
      BY <1>14, <2>1 DEF N, row
    <3>2. next'[row[i - 1]] = IF i = Len(row) THEN None ELSE row[i + 1]
      BY <2>2, <2>4, <2>5 DEF p, N, row
    <3>3. \A j \in 1 .. Len(row) : j \notin {i, i - 1} => next'[row[j]] = next[row[j]]
      BY <1>8, <2>1, <2>5 DEF N, row, p
    <3> QED
      BY <1>6, <3>1, <3>2, <3>3, LinkedOut
  <2>7. RowsOf(next', sections', ch2) /\ ch2 \in Sequences /\ Moved(ch, ch2)
    <3>1. \A t \in Sections \ {s} : \A j \in 1 .. Len(ch[t]) : next'[ch[t][j]] = next[ch[t][j]]
      BY <1>9, <2>2, <2>5
    <3>2. Moved(ch, ch2) /\ RemoveAt(row, i) \in Seq(Rungs)
      BY <1>5, <1>14, RowCut DEF row, N
    <3>3. Linked(next', RemoveAt(row, i), sections'[s].first, sections'[s].last)
      BY <1>6, <1>13, <2>6
    <3>4. \A u \in Sections \ {s} : sections'[u] = sections[u]
      BY <1>13
    <3>5. OneRow(next, next', sections, sections', ch, s, RemoveAt(row, i))
      BY <1>5, <1>13, <3>1, <3>2, <3>3, <3>4 DEF OneRow
    <3> QED
      BY <3>2, <3>5, RowChanged
  <2>8. r = infos.last <=> i = N
    BY <1>6, <1>7, <1>8
  <2>9. FirstDue(next', sections', infos', ch2)
    BY <1>1, <1>6, <1>13, <1>21 DEF FirstDue
  <2>10. LastDue(next', sections', infos', ch2)
    <3>1. CASE r # infos.last
      BY <1>1, <1>6, <1>13, <3>1 DEF LastDue
    <3>2. CASE r = infos.last
      <4>1. infos'.last = p /\ i = N
        BY <1>1, <2>3, <2>8, <3>2
      <4>2. ch2[s] = RemoveAt(row, i)
        BY <1>5 DEF Sequences
      <4>3. Len(RemoveAt(row, i)) = N - 1 /\ RemoveAt(row, i)[N - 1] = row[N - 1]
        <5>1. /\ Len(RemoveAt(row, i)) = N - 1
              /\ \A j \in 1 .. N - 1 : RemoveAt(row, i)[j] = IF j < i THEN row[j] ELSE row[j + 1]
          BY <1>6, RemovedAt DEF N, row
        <5>2. N - 1 \in 1 .. N - 1 /\ N - 1 < i
          BY <1>14, <1>6, <4>1
        <5> QED
          BY <5>1, <5>2
      <4> HIDE DEF ch2
      <4>4. ch2[s][Len(ch2[s])] = p
        BY <4>1, <4>2, <4>3 DEF p
      <4> QED
        BY <1>1, <4>1, <4>4 DEF LastDue
    <3> QED
      BY <3>1, <3>2
  <2>11. ASSUME NEW t \in Sections, IsLadder(t)' PROVE next'[LastOf(t)'] = None
    <3>1. CASE t = s /\ r # infos.last
      <4>1. LastOf(t)' = infos.last /\ infos.last \in Rungs /\ infos.last # p
        BY <1>1, <1>2, <1>11, <2>2, <3>1 DEF TypeOK
      <4> QED
        BY <1>11, <2>5, <4>1
    <3>2. CASE t = s /\ r = infos.last
      <4>1. LastOf(t)' = p /\ next[r] = None
        BY <1>1, <1>11, <2>3, <3>2
      <4> QED
        BY <2>2, <2>5, <4>1
    <3>3. CASE t # s
      <4>1. LastOf(t)' = LastOf(t) /\ LastOf(t) \in Rungs \ Of(s) /\ next[LastOf(t)] = None
        BY <1>10, <1>12, <2>11, <3>3
      <4> QED
        BY <2>2, <2>5, <4>1
    <3> QED
      BY <3>1, <3>2, <3>3
  <2>12. DeadEnds'
    BY <1>1, <2>11 DEF DeadEnds
  <2> HIDE DEF ch2
  <2>13. EndsDue(op', next', sections', infos', ch2)
    BY <2>9, <2>10 DEF EndsDue
  <2> QED
    BY <2>7, <2>12, <2>13 DEF Reached
<1> QED
  BY <1>20, <1>21

(* SectionArray's copy of the first rung: a rung put before the section    *)
(* or taken off is seen now.                                               *)
LEMMA SaveFirstMoves ==
  ASSUME IInv, IInv', DeadEnds, NEW ch, Kept(ch), SaveFirst
  PROVE  DeadEnds' /\ Reached(ch)
<1>0. PICK s \in Sections : s = infos.section
  BY DEF IInv, TypeOK
<1> DEFINE row == ch[s]
           n == infos.first
<1>1. /\ op = "first" /\ op' = "last" /\ UNCHANGED << next, infos, edit >>
      /\ sections' = [sections EXCEPT ![s].first = n]
  BY <1>0 DEF SaveFirst, rungs
<1>2. /\ TypeOK /\ sections \in [Sections -> SectionType] /\ n \in Rungs
      /\ next \in [Rungs -> Links] /\ None \notin Rungs
  <2>1. None \notin Rungs
    BY DEF None, Rungs
  <2> QED
    BY <2>1 DEF IInv, TypeOK
<1>3. IsLadder(s)
  BY <1>0, <1>1 DEF IInv, Pending, IsLadder
<1>4. /\ sections'[s].used /\ sections'[s].ladder /\ sections'[s].first = n
      /\ sections'[s].last = sections[s].last
      /\ \A t \in Sections \ {s} : sections'[t] = sections[t]
      /\ sections[s].first \in Rungs /\ sections[s].last \in Rungs
  BY <1>1, <1>2, <1>3 DEF SectionType, IsLadder
<1>5. /\ ch \in Sequences /\ RowsOf(next, sections, ch)
      /\ FirstDue(next, sections, infos, ch) /\ LastDue(next, sections, infos, ch)
  BY <1>1 DEF Kept, EndsDue
<1>6. Linked(next, row, sections[s].first, sections[s].last) /\ row \in Seq(Rungs)
  BY <1>3, <1>5, SequencesLong DEF RowsOf, IsLadder
<1>7. Len(row) \in Nat \ {0}
  BY <1>6, LinkedRungs DEF Linked
<1>8. \A t \in Sections : (IsLadder(t)' <=> IsLadder(t)) /\ LastOf(t)' = LastOf(t)
  <2>1. ASSUME NEW t \in Sections PROVE (IsLadder(t)' <=> IsLadder(t)) /\ LastOf(t)' = LastOf(t)
    BY <1>0, <1>1, <1>3, <1>4 DEF IsLadder, LastOf
  <2> QED
    BY <2>1
<1>9. DeadEnds'
  BY <1>1, <1>8 DEF DeadEnds
<1> HIDE DEF row, n
<1>10. CASE n = sections[s].first
  <2>1. sections' = sections
    BY <1>1, <1>2, <1>10 DEF SectionType
  <2>2. EndsDue(op', next', sections', infos', ch)
    BY <1>1, <1>5, <2>1 DEF EndsDue
  <2> QED
    BY <1>1, <1>5, <1>9, <2>1, <2>2 DEF Reached
<1>11. CASE n # sections[s].first
  <2>1. infos.last = sections[s].last /\ next[infos.last] = None
    BY <1>0, <1>3, <1>5, <1>11 DEF FirstDue, DeadEnds, LastOf, n
  <2>2. \A ch2 : EndsDue(op', next', sections', infos', ch2)
    BY <1>0, <1>1, <1>4, <2>1 DEF EndsDue, LastDue
  <2>3. \A t \in Sections \ {s} : \A i \in 1 .. Len(ch[t]) : next'[ch[t][i]] = next[ch[t][i]]
    BY <1>1
  <2>4. CASE Apart(ch, n) /\ next[n] = sections[s].first
    <3> DEFINE ch2 == [ch EXCEPT ![s] = InsertAt(row, 1, n)]
    <3>1. n # sections[s].last
      BY <1>2, <1>4, <2>1, <2>4
    <3>2. row # << >> /\ 1 \in 1 .. Len(row) + 1 /\ row[1] = sections[s].first
          /\ 1 # Len(row) + 1 /\ ~(1 > 1)
      BY <1>6, <1>7 DEF Linked
    <3>3. Moved(ch, ch2) /\ InsertAt(row, 1, n) \in Seq(Rungs) /\ n \notin Places(row)
      BY <1>2, <1>5, <2>4, <3>2, RowInserted DEF row
    <3>4. Linked(next', InsertAt(row, 1, n), sections'[s].first, sections'[s].last)
      <4>1. next'[n] = row[1] /\ \A j \in 1 .. Len(row) : next'[row[j]] = next[row[j]]
        BY <1>1, <2>4, <3>2
      <4>2. Linked(next', InsertAt(row, 1, n), IF 1 = 1 THEN n ELSE sections[s].first,
                   IF 1 = Len(row) + 1 THEN n ELSE sections[s].last)
        BY <1>2, <1>6, <3>1, <3>2, <3>3, <4>1, LinkedIn
      <4> QED
        BY <1>4, <3>2, <4>2 DEF n
    <3>5. OneRow(next, next', sections, sections', ch, s, InsertAt(row, 1, n))
      BY <1>4, <1>5, <2>3, <3>3, <3>4 DEF OneRow
    <3>6. RowsOf(next', sections', ch2) /\ ch2 \in Sequences
      BY <3>5, RowChanged
    <3> HIDE DEF ch2
    <3> QED
      BY <1>9, <2>2, <3>3, <3>6 DEF Reached
  <2>5. CASE Len(row) > 1 /\ row[2] = n
    <3> DEFINE ch2 == [ch EXCEPT ![s] = RemoveAt(row, 1)]
    <3>1. 1 \in 1 .. Len(row)
      BY <1>7
    <3>2. Moved(ch, ch2) /\ RemoveAt(row, 1) \in Seq(Rungs)
      BY <1>5, <2>5, <3>1, RowCut DEF row
    <3>3. Linked(next', RemoveAt(row, 1), sections'[s].first, sections'[s].last)
      <4>1. \A j \in 1 .. Len(row) : next'[row[j]] = next[row[j]]
        BY <1>1
      <4>2. Linked(next', RemoveAt(row, 1), IF 1 = 1 THEN row[2] ELSE sections[s].first, sections[s].last)
        BY <1>6, <2>5, <3>1, <4>1, LinkedOut
      <4> QED
        BY <1>4, <2>5, <4>2
    <3>5. OneRow(next, next', sections, sections', ch, s, RemoveAt(row, 1))
      BY <1>4, <1>5, <2>3, <3>2, <3>3 DEF OneRow
    <3>6. RowsOf(next', sections', ch2) /\ ch2 \in Sequences
      BY <3>5, RowChanged
    <3> HIDE DEF ch2
    <3> QED
      BY <1>9, <2>2, <3>2, <3>6 DEF Reached
  <2> QED
    BY <1>0, <1>5, <1>11, <2>4, <2>5 DEF FirstDue, row, n
<1> QED
  BY <1>10, <1>11

(* And of the last rung: a rung put after the section is seen now.         *)
LEMMA SaveLastMoves ==
  ASSUME IInv, IInv', DeadEnds, NEW ch, Kept(ch), SaveLast
  PROVE  DeadEnds' /\ Reached(ch)
<1>0. PICK s \in Sections : s = infos.section
  BY DEF IInv, TypeOK
<1> DEFINE row == ch[s]
           n == infos.last
<1>1. /\ op = "last" /\ op' = "idle" /\ UNCHANGED << next, infos >> /\ edit' = NoEdit
      /\ sections' = [sections EXCEPT ![s].last = n]
  BY <1>0 DEF SaveLast, rungs
<1>2. /\ TypeOK /\ sections \in [Sections -> SectionType] /\ n \in Rungs
      /\ next \in [Rungs -> Links] /\ None \notin Rungs
  <2>1. None \notin Rungs
    BY DEF None, Rungs
  <2> QED
    BY <2>1 DEF IInv, TypeOK
<1>3. IsLadder(s)
  BY <1>0, <1>1 DEF IInv, Pending, IsLadder
<1>4. /\ sections'[s].used /\ sections'[s].ladder /\ sections'[s].first = sections[s].first
      /\ sections'[s].last = n
      /\ \A t \in Sections \ {s} : sections'[t] = sections[t]
      /\ sections[s].first \in Rungs /\ sections[s].last \in Rungs
  BY <1>1, <1>2, <1>3 DEF SectionType, IsLadder
<1>5. /\ ch \in Sequences /\ RowsOf(next, sections, ch)
      /\ LastDue(next, sections, infos, ch)
  BY <1>1 DEF Kept, EndsDue
<1>6. Linked(next, row, sections[s].first, sections[s].last) /\ row \in Seq(Rungs)
  BY <1>3, <1>5, SequencesLong DEF RowsOf, IsLadder
<1>7. Len(row) \in Nat \ {0}
  BY <1>6, LinkedRungs DEF Linked
<1>8. \A t \in Sections : (IsLadder(t)' <=> IsLadder(t)) /\ LastOf(t)' = LastOf(t)
  <2>1. ASSUME NEW t \in Sections PROVE (IsLadder(t)' <=> IsLadder(t)) /\ LastOf(t)' = LastOf(t)
    BY <1>0, <1>1, <1>3, <1>4 DEF IsLadder, LastOf
  <2> QED
    BY <2>1
<1>9. DeadEnds'
  BY <1>1, <1>8 DEF DeadEnds, NoEdit
<1>10. \A ch2 : EndsDue(op', next', sections', infos', ch2)
  BY <1>1 DEF EndsDue
<1>11. \A t \in Sections \ {s} : \A i \in 1 .. Len(ch[t]) : next'[ch[t][i]] = next[ch[t][i]]
  BY <1>1
<1> HIDE DEF row, n
<1>20. CASE n = sections[s].last
  <2>1. sections' = sections
    BY <1>1, <1>2, <1>20 DEF SectionType
  <2> QED
    BY <1>1, <1>5, <1>9, <1>10, <2>1 DEF Reached
<1>21. CASE Apart(ch, n) /\ row[Len(row)] = sections[s].last /\ next[sections[s].last] = n
  <2> DEFINE k == Len(row) + 1
             ch2 == [ch EXCEPT ![s] = InsertAt(row, k, n)]
  <2>2. row # << >> /\ k \in 1 .. Len(row) + 1 /\ k # 1 /\ ~(k <= Len(row)) /\ k - 1 = Len(row)
    BY <1>6, <1>7 DEF Linked
  <2>3. Moved(ch, ch2) /\ InsertAt(row, k, n) \in Seq(Rungs) /\ n \notin Places(row)
    BY <1>2, <1>5, <1>21, <2>2, RowInserted DEF row
  <2>1. n # sections[s].last
    BY <1>7, <1>21, <2>3 DEF Places
  <2> HIDE DEF k
  <2>4. Linked(next', InsertAt(row, k, n), sections'[s].first, sections'[s].last)
    <3>1. /\ k > 1 => next'[row[k - 1]] = n
          /\ k <= Len(row) => next'[n] = row[k] /\ (k > 1 => row[k - 1] # sections[s].last)
          /\ \A j \in 1 .. Len(row) : j # k - 1 => next'[row[j]] = next[row[j]]
      BY <1>1, <1>21, <2>2
    <3>2. Linked(next', InsertAt(row, k, n), IF k = 1 THEN n ELSE sections[s].first,
                 IF k = Len(row) + 1 THEN n ELSE sections[s].last)
      <4>1. k \in 1 .. Len(row) + 1 /\ row \in Seq(Rungs) /\ n \in Rungs
        BY <1>2, <1>6, <2>2
      <4> QED
        BY <1>6, <2>1, <2>3, <3>1, <4>1, LinkedIn
    <3> QED
      BY <1>4, <2>2, <3>2 DEF n, k
  <2>5. OneRow(next, next', sections, sections', ch, s, InsertAt(row, k, n))
    BY <1>4, <1>5, <1>11, <2>3, <2>4 DEF OneRow
  <2>6. RowsOf(next', sections', ch2) /\ ch2 \in Sequences
    BY <2>5, RowChanged
  <2> HIDE DEF ch2
  <2> QED
    BY <1>9, <1>10, <2>3, <2>6 DEF Reached
<1>22. CASE row[Len(row)] = n
  <2>1. Linked(next', row, sections'[s].first, sections'[s].last)
    <3>1. \A i \in 1 .. Len(row) - 1 : i \in 1 .. Len(row) /\ Len(row) \in 1 .. Len(row) /\ i # Len(row)
      BY <1>7
    <3>2. \A i \in 1 .. Len(row) - 1 : row[i] # n
      BY <1>6, <1>22, <3>1 DEF Linked
    <3> QED
      BY <1>1, <1>4, <1>6, <1>22, <3>2 DEF Linked, n
  <2>2. OneRow(next, next', sections, sections', ch, s, row)
    BY <1>4, <1>5, <1>6, <1>11, <2>1 DEF OneRow
  <2>3. [ch EXCEPT ![s] = row] = ch
    BY <1>5 DEF row, Sequences
  <2>4. RowsOf(next', sections', ch)
    BY <2>2, <2>3, RowChanged
  <2> QED
    BY <1>5, <1>9, <1>10, <2>4 DEF Reached
<1> QED
  BY <1>0, <1>5, <1>20, <1>21, <1>22 DEF LastDue, row, n

(* The sections manager, between two edits.                                *)
LEMMA ManagedMoves ==
  ASSUME IInv', op' = "idle", edit'.mode = "none", NEW ch, NEW ch2 \in Sequences,
         RowsOf(next', sections', ch2), ch2 = ch \/ Moved(ch, ch2),
         \A s \in Sections : sections'[s].used /\ sections'[s].ladder =>
                                next'[sections'[s].last] = None
  PROVE  DeadEnds' /\ Reached(ch)
<1>1. ASSUME NEW s \in Sections, IsLadder(s)' PROVE next'[LastOf(s)'] = None
  <2>1. LastOf(s)' = sections'[s].last
    BY <1>1, IdleCopiedNext DEF Copied, Idle
  <2> QED
    BY <1>1, <2>1 DEF IsLadder
<1>2. DeadEnds'
  BY <1>1 DEF DeadEnds
<1>3. EndsDue(op', next', sections', infos', ch2)
  BY DEF EndsDue
<1> QED
  BY <1>2, <1>3 DEF Reached

LEMMA ManagedFrom ==
  ASSUME IInv, Manageable, DeadEnds, NEW ch, Kept(ch)
  PROVE  /\ op = "idle" /\ edit.mode = "none" /\ ch \in Sequences /\ RowsOf(next, sections, ch)
         /\ \A s \in Sections : sections[s].used /\ sections[s].ladder =>
               next[sections[s].last] = None
<1>1. Idle /\ op = "idle" /\ edit.mode = "none"
  BY DEF Manageable, Idle, Editing
<1>2. \A s \in Sections : sections[s].used /\ sections[s].ladder => LastOf(s) = sections[s].last
  BY <1>1, IdleCopied DEF Copied, IsLadder
<1> QED
  BY <1>1, <1>2 DEF Kept, DeadEnds, IsLadder

LEMMA SwapMoves ==
  ASSUME IInv, IInv', DeadEnds, NEW ch, Kept(ch), SwapSections
  PROVE  DeadEnds' /\ Reached(ch)
<1>1. Manageable /\ UNCHANGED << next, edit, op >>
  BY DEF SwapSections, rungs
<1>2. PICK s \in Sections, t \in Sections :
         sections' = [sections EXCEPT ![s] = sections[t], ![t] = sections[s]]
  <2>1. PICK d \in {-1, 1} :
           /\ GetPrevNextSection(d) # None
           /\ sections' = [sections EXCEPT ![infos.section] = sections[GetPrevNextSection(d)],
                                           ![GetPrevNextSection(d)] = sections[infos.section]]
    BY DEF SwapSections
  <2>2. GetPrevNextSection(d) \in Sections /\ infos.section \in Sections
    BY <2>1 DEF GetPrevNextSection, IInv, TypeOK
  <2> QED
    BY <2>1, <2>2
<1>3. /\ op = "idle" /\ edit.mode = "none" /\ ch \in Sequences /\ RowsOf(next, sections, ch)
      /\ \A x \in Sections : sections[x].used /\ sections[x].ladder =>
            next[sections[x].last] = None
  BY <1>1, ManagedFrom
<1> DEFINE ch2 == [ch EXCEPT ![s] = ch[t], ![t] = ch[s]]
<1>4. ASSUME NEW x \in Sections
      PROVE  \E y \in Sections : ch2[x] = ch[y] /\ sections'[x] = sections[y]
  <2>1. sections \in [Sections -> SectionType] /\ ch \in [Sections -> Seq(Rungs)]
    BY <1>3 DEF IInv, TypeOK, Sequences
  <2> QED
    BY <1>2, <2>1
<1>5. ch2 \in Sequences /\ Moved(ch, ch2)
  BY <1>3 DEF Sequences, Moved
<1> HIDE DEF ch2
<1>6. RowsOf(next', sections', ch2)
  BY <1>1, <1>3, <1>4 DEF RowsOf
<1>7. \A x \in Sections : sections'[x].used /\ sections'[x].ladder =>
                                next'[sections'[x].last] = None
  BY <1>1, <1>3, <1>4
<1> QED
  BY <1>1, <1>3, <1>5, <1>6, <1>7, ManagedMoves

LEMMA DeleteSectionMoves ==
  ASSUME IInv, IInv', DeadEnds, NEW ch, Kept(ch), DelSection
  PROVE  DeadEnds' /\ Reached(ch)
<1>1. Manageable /\ UNCHANGED << next, edit, op >>
  BY DEF DelSection
<1>2. PICK s \in Sections : sections' = [sections EXCEPT ![s].used = FALSE]
  BY DEF DelSection, IInv, TypeOK
<1>3. /\ op = "idle" /\ edit.mode = "none" /\ ch \in Sequences /\ RowsOf(next, sections, ch)
      /\ \A x \in Sections : sections[x].used /\ sections[x].ladder =>
            next[sections[x].last] = None
  BY <1>1, ManagedFrom
<1> DEFINE ch2 == [ch EXCEPT ![s] = << >>]
<1>4. /\ ~sections'[s].used
      /\ \A x \in Sections \ {s} : sections'[x] = sections[x] /\ ch2[x] = ch[x]
      /\ ch2[s] = << >>
  BY <1>2, <1>3, ZenonT(60) DEF IInv, TypeOK, SectionType, Sequences
<1>5. ch2 \in Sequences /\ Moved(ch, ch2)
  <2>1. << >> \in Seq(Rungs)
    OBVIOUS
  <2>2. ch2 \in Sequences
    BY <1>3, <2>1 DEF Sequences
  <2> QED
    BY <2>2 DEF Moved
<1> HIDE DEF ch2
<1>6. RowsOf(next', sections', ch2)
  BY <1>1, <1>3, <1>4 DEF RowsOf
<1>7. \A x \in Sections : sections'[x].used /\ sections'[x].ladder =>
                                next'[sections'[x].last] = None
  BY <1>1, <1>3, <1>4
<1> QED
  BY <1>1, <1>3, <1>5, <1>6, <1>7, ManagedMoves

LEMMA AddSectionMoves ==
  ASSUME IInv, IInv', DeadEnds, NEW ch, Kept(ch), AddSection
  PROVE  DeadEnds' /\ Reached(ch)
<1>1. Manageable /\ UNCHANGED << edit, op >>
  BY DEF AddSection
<1>2. PICK s \in Sections : s = Min(FreeSections) /\ ~sections[s].used
  <2>1. FreeSections # {} /\ FreeSections \in SUBSET Nat
    BY DEF AddSection, FreeSections, Sections
  <2>2. Min(FreeSections) \in FreeSections
    BY <2>1, MinIsMember
  <2> QED
    BY <2>2 DEF FreeSections
<1>3. /\ op = "idle" /\ edit.mode = "none" /\ ch \in Sequences /\ RowsOf(next, sections, ch)
      /\ \A x \in Sections : sections[x].used /\ sections[x].ladder =>
            next[sections[x].last] = None
  BY <1>1, ManagedFrom
<1>4. ch[s] = << >>
  BY <1>2, <1>3 DEF RowsOf
<1>5. sections \in [Sections -> SectionType] /\ next \in [Rungs -> Links]
  BY DEF IInv, TypeOK
<1>6. \/ /\ UNCHANGED next
         /\ ~(sections'[s].used /\ sections'[s].ladder)
         /\ \A x \in Sections \ {s} : sections'[x] = sections[x]
      \/ /\ FindFreeRung # None
         /\ next' = [next EXCEPT ![FindFreeRung] = None]
         /\ sections'[s].used /\ sections'[s].ladder
         /\ sections'[s].first = FindFreeRung /\ sections'[s].last = FindFreeRung
         /\ \A x \in Sections \ {s} : sections'[x] = sections[x]
  <2>1. PICK sub \in SubRoutines \cup {None}, ladder \in BOOLEAN, old \in SubRoutines \cup {None} :
        LET r == FindFreeRung
            fields == [NewSection EXCEPT !.ladder = ladder, !.sub = IF ladder THEN sub ELSE old]
        IN  IF ladder /\ r = None
            THEN sections' = [sections EXCEPT ![s] = fields] /\ UNCHANGED next
            ELSE IF ladder
            THEN /\ sections' = [sections EXCEPT
                       ![s] = [fields EXCEPT !.used = TRUE, !.first = r, !.last = r]]
                 /\ next' = [next EXCEPT ![r] = None]
            ELSE /\ sections' = [sections EXCEPT ![s] = [fields EXCEPT !.used = TRUE]]
                 /\ UNCHANGED next
    <3>1. sections[s].sub \in SubRoutines \cup {None}
      BY <1>5 DEF SectionType
    <3> QED
      BY <1>2, <3>1 DEF AddSection, rungs
  <2>2. CASE ladder /\ FindFreeRung = None
    BY <1>5, <2>1, <2>2 DEF NewSection
  <2>3. CASE ladder /\ FindFreeRung # None
    <3> DEFINE new == [[NewSection EXCEPT !.ladder = ladder, !.sub = IF ladder THEN sub ELSE old]
                          EXCEPT !.used = TRUE, !.first = FindFreeRung, !.last = FindFreeRung]
    <3>1. sections' = [sections EXCEPT ![s] = new] /\ next' = [next EXCEPT ![FindFreeRung] = None]
      BY <2>1, <2>3
    <3>2. new.used /\ new.ladder = ladder /\ new.first = FindFreeRung /\ new.last = FindFreeRung
      BY DEF NewSection
    <3> HIDE DEF new
    <3>3. sections'[s] = new /\ \A x \in Sections \ {s} : sections'[x] = sections[x]
      BY <1>5, <3>1
    <3> QED
      BY <2>3, <3>1, <3>2, <3>3
  <2>4. CASE ~ladder
    BY <1>5, <2>1, <2>4 DEF NewSection
  <2> QED
    BY <2>2, <2>3, <2>4
<1>7. CASE /\ UNCHANGED next
           /\ ~(sections'[s].used /\ sections'[s].ladder)
           /\ \A x \in Sections \ {s} : sections'[x] = sections[x]
  <2>1. RowsOf(next', sections', ch)
    BY <1>3, <1>4, <1>7 DEF RowsOf
  <2>2. \A x \in Sections : sections'[x].used /\ sections'[x].ladder =>
                                next'[sections'[x].last] = None
    BY <1>3, <1>7
  <2> QED
    BY <1>1, <1>3, <2>1, <2>2, ManagedMoves
<1>8. CASE /\ FindFreeRung # None
           /\ next' = [next EXCEPT ![FindFreeRung] = None]
           /\ sections'[s].used /\ sections'[s].ladder
           /\ sections'[s].first = FindFreeRung /\ sections'[s].last = FindFreeRung
           /\ \A x \in Sections \ {s} : sections'[x] = sections[x]
  <2>1. PICK r \in Rungs : r = FindFreeRung /\ ~used[r]
    BY <1>8, FreeRungFound
  <2>2. \A t \in Sections : r \notin Of(t)
    BY <2>1, IInvShape DEF Shape
  <2>3. Apart(ch, r)
    BY <1>3, <2>2, ApartFromAll
  <2>4. \A q \in Rungs : next'[q] = IF q = r THEN None ELSE next[q]
    BY <1>5, <1>8, <2>1
  <2> DEFINE row == << r >>
             ch2 == [ch EXCEPT ![s] = row]
  <2>5. row \in Seq(Rungs) /\ Len(row) = 1 /\ row[1] = r
    OBVIOUS
  <2> HIDE DEF row
  <2>6. Linked(next', row, sections'[s].first, sections'[s].last)
    <3>1. \A j \in 1 .. Len(row) : j = 1
      BY <2>5
    <3>2. 1 .. Len(row) - 1 = {}
      BY <2>5
    <3>3. row # << >>
      BY <2>5, SMTT(60)
    <3> QED
      BY <1>8, <2>1, <2>5, <3>1, <3>2, <3>3 DEF Linked
  <2>7. \A t \in Sections \ {s} : \A i \in 1 .. Len(ch[t]) : next'[ch[t][i]] = next[ch[t][i]]
    BY <1>3, <2>3, <2>4, SequencesLong DEF Apart
  <2>8. OneRow(next, next', sections, sections', ch, s, row)
    BY <1>3, <1>8, <2>5, <2>6, <2>7 DEF OneRow
  <2>9. RowsOf(next', sections', ch2) /\ ch2 \in Sequences
    BY <2>8, RowChanged
  <2>10. Moved(ch, ch2)
    BY <1>4, <2>3 DEF Moved, row
  <2> HIDE DEF ch2
  <2>11. ASSUME NEW x \in Sections, sections'[x].used, sections'[x].ladder
         PROVE  next'[sections'[x].last] = None
    <3>1. CASE x = s
      BY <1>8, <2>1, <2>4, <3>1
    <3>2. CASE x # s
      <4>1. sections'[x] = sections[x]
        BY <1>8, <3>2
      <4>2. IsLadder(x) /\ next[sections[x].last] = None
        BY <1>3, <2>11, <4>1 DEF IsLadder
      <4>3. sections[x].last \in Rungs
        BY <1>5 DEF SectionType
      <4> QED
        BY <2>4, <4>1, <4>2, <4>3
    <3> QED
      BY <3>1, <3>2
  <2> QED
    BY <1>1, <1>3, <2>9, <2>10, <2>11, ManagedMoves
<1> QED
  BY <1>6, <1>7, <1>8

LEMMA InitCInv == Init => CInv /\ Chains!Init
<1> SUFFICES ASSUME Init PROVE CInv /\ Chains!Init
  OBVIOUS
<1> DEFINE ch == [s \in Sections |-> IF s = 0 THEN << 0 >> ELSE << >>]
<1>1. 0 \in Rungs /\ 0 \in Sections
  BY NumbersAssumption DEF Rungs, Sections
<1>2. ch \in Sequences
  BY <1>1 DEF Sequences
<1>3. /\ \A s \in Sections : (sections[s].used <=> s = 0) /\ sections[s].ladder
                             /\ sections[s].first = 0 /\ sections[s].last = 0
      /\ next = [r \in Rungs |-> None] /\ op = "idle" /\ edit = NoEdit
      /\ infos.first = 0 /\ infos.last = 0 /\ infos.section = 0
  BY DEF Init, NewSection
<1>4. RowsOf(next, sections, ch)
  <2>1. Linked(next, << 0 >>, 0, 0)
    BY DEF Linked
  <2> QED
    BY <1>3, <2>1 DEF RowsOf
<1>5. EndsDue(op, next, sections, infos, ch)
  BY <1>3 DEF EndsDue
<1>6. DeadEnds
  BY <1>1, <1>3 DEF DeadEnds, LastOf, NoEdit, IsLadder
<1>7. CInv
  <2> HIDE DEF ch
  <2> QED
    BY <1>2, <1>4, <1>5, <1>6 DEF CInv
<1>8. Rows = ch
  BY <1>2, <1>4, InitIInv, TypedRows DEF RowsAre, IInv
<1>9. Chains!Init
  BY <1>1, <1>8 DEF Chains!Init, Rows
<1> QED
  BY <1>7, <1>9

LEMMA NextMoves ==
  ASSUME IInv, IInv', DeadEnds, NEW ch, Kept(ch), [Next]_vars
  PROVE  DeadEnds' /\ Reached(ch)
<1>1. CASE Scan \/ DoFlipFlopRunStop \/ UNCHANGED vars
  <2>1. UNCHANGED << next, sections, infos, edit, op >>
    BY <1>1 DEF Scan, Refresh, ScanBegin, Jump, Call, RefreshRung, Return, FollowNext,
                DoFlipFlopRunStop, rungs, vars
  <2> QED
    BY <2>1, QuietMoves
<1>2. CASE ChoiceOfTheCurrentRung \/ SetSectionSelected \/ AddRung \/ ModifyCurrentRung
           \/ CancelRungEdited \/ ApplyOnSequential
  <2>1. Idle /\ UNCHANGED << next, sections, op >>
    BY <1>2 DEF ChoiceOfTheCurrentRung, SetSectionSelected, AddRung, ModifyCurrentRung,
                CancelRungEdited, ApplyOnSequential, rungs
  <2>2. edit'.mode \in {"add", "insert"} => edit'.next = None
    <3>1. CASE ChoiceOfTheCurrentRung \/ SetSectionSelected
      BY <2>1, <3>1 DEF ChoiceOfTheCurrentRung, SetSectionSelected, DeadEnds, Idle, NoEdit
    <3>2. CASE AddRung
      BY <3>2 DEF AddRung, NoEdit
    <3>3. CASE ModifyCurrentRung \/ CancelRungEdited \/ ApplyOnSequential
      BY <3>3 DEF ModifyCurrentRung, CancelRungEdited, ApplyOnSequential, NoEdit
    <3> QED
      BY <1>2, <3>1, <3>2, <3>3
  <2> QED
    BY <2>1, <2>2, IdleMoves
<1>3. CASE ApplyRungEdited \/ LinkOwn \/ LinkIn \/ DeleteCurrentRung \/ SaveFirst \/ SaveLast
  BY <1>3, ApplyMoves, LinkOwnMoves, LinkInMoves, DeleteMoves, SaveFirstMoves, SaveLastMoves
<1>4. CASE AddSection \/ DelSection \/ SwapSections
  BY <1>4, AddSectionMoves, DeleteSectionMoves, SwapMoves
<1> QED
  BY <1>1, <1>2, <1>3, <1>4 DEF Next, Edit

LEMMA NextCInv == IInv /\ CInv /\ [Next]_vars => CInv' /\ (Chains!Next \/ Rows' = Rows)
<1> SUFFICES ASSUME IInv, CInv, [Next]_vars PROVE CInv' /\ (Chains!Next \/ Rows' = Rows)
  OBVIOUS
<1>1. IInv'
  BY NextIInv
<1>2. DeadEnds
  BY DEF CInv
<1>3. PICK ch \in Sequences :
         RowsOf(next, sections, ch) /\ EndsDue(op, next, sections, infos, ch)
  BY DEF CInv
<1>4. DeadEnds' /\ Reached(ch)
  BY <1>1, <1>2, <1>3, NextMoves DEF Kept
<1>5. PICK ch2 \in Sequences :
         /\ RowsOf(next', sections', ch2) /\ EndsDue(op', next', sections', infos', ch2)
         /\ ch2 = ch \/ Moved(ch, ch2)
  BY <1>4 DEF Reached
<1>6. CInv'
  BY <1>4, <1>5 DEF CInv
<1>7. TypeOK /\ TypeOK'
  BY <1>1 DEF IInv
<1> QED
  BY <1>3, <1>5, <1>6, <1>7, MovedIsChange

(* Seen by the engine, from FirstRung through NextRung to LastRung, every  *)
(* single write of the editor and of the manager (edit.c, manager.c) is    *)
(* one whole operation of RungChains or none, whatever the engine does:    *)
(* Program implements RungChains.                                          *)
THEOREM ChainsAreImplemented == Spec => ChainsImplemented /\ Chains!Spec
<1>1. Init => IInv /\ CInv /\ Chains!Init
  BY InitIInv, InitCInv
<1>2. IInv /\ CInv /\ [Next]_vars => (IInv /\ CInv)'
  BY NextIInv, NextCInv
<1>3. IInv /\ CInv /\ [Next]_vars => [Chains!Next]_Rows
  BY NextCInv
<1>4. [Chains!Next]_Rows => [Chains!Next]_([s \in Sections |-> Chain(s)])
  BY DEF Rows
<1>5. [Chains!Next]_([s \in Sections |-> Chain(s)]) => [Chains!Step]_<< next, sections >>
  BY DEF Chains!Next, Chains!Step
<1>6. Spec => [][Chains!Next]_([s \in Sections |-> Chain(s)])
  BY <1>1, <1>2, <1>3, <1>4, PTL DEF Spec
<1>7. Spec => [][Chains!Step]_<< next, sections >>
  BY <1>5, <1>6, PTL
<1> QED
  BY <1>1, <1>6, <1>7, PTL DEF Spec, ChainsImplemented, Chains!Spec
=============================================================================
