------------------------ MODULE ReleasedServerProofs ------------------------
(* Proofs about Releases, for any items and forms of them, any versions and  *)
(* any number of pull requests and releases; and about Serving, what a server *)
(* of a release does, for any settings written, any tokens and any scopes    *)
(* left unticked.                                                            *)
EXTENDS Releases, Serving, SequenceTheorems, WellFoundedInduction, TLAPS

\* The release commit on main, until it is tagged, is what main's heading and
\* baseline come from, and it left nothing unreleased.
PendingIsMains ==
    pending.on => /\ main.heading = pending.tree.heading
                  /\ main.baseline = pending.tree.baseline
                  /\ pending.tree.entries = FALSE

\* A release commit is never for a version that was tagged.
PreparedIsNew ==
    rel.on => rel.tree.heading # shipped.version /\ rel.tree.entries = FALSE

IInv == TypeOK /\ BaselineIsWhatShipped /\ PendingIsMains /\ PreparedIsNew

-----------------------------------------------------------------------------
(* What the comparison and the merge return.                                 *)

LEMMA SurfaceIs ==
    ASSUME NEW s \in Surfaces
    PROVE  /\ DOMAIN s \subseteq Items
           /\ s \in [DOMAIN s -> DOMAIN Schema]
           /\ \A i \in DOMAIN s : s[i] \in NewForms[i]
BY DEF Surfaces

LEMMA SurfaceOf ==
    ASSUME NEW is \in SUBSET Items, NEW s \in [is -> DOMAIN Schema],
           \A i \in is : s[i] \in NewForms[i]
    PROVE  s \in Surfaces
BY DEF Surfaces

\* With nothing added, changed or broken, two surfaces are one.
LEMMA NoChangeIsSame ==
    ASSUME NEW was \in Surfaces, NEW now \in Surfaces, NoChange(Diffs[was][now])
    PROVE  was = now
<1> DEFINE c == CompareSurfaces(Published(was), Published(now))
<1>1. Diffs[was][now] = c
  BY DEF Diffs
<1>2. c.added = {} /\ c.changed = {} /\ c.breaking = {}
  BY <1>1 DEF NoChange
<1>3. DOMAIN Published(was) = DOMAIN was /\ DOMAIN Published(now) = DOMAIN now
  BY DEF Published
<1>4. DOMAIN now \subseteq DOMAIN was
  BY <1>2, <1>3 DEF CompareSurfaces
<1>5. DOMAIN was \subseteq DOMAIN now
  <2>1. {Spot(i, "removed", Top) : i \in DOMAIN Published(was) \ DOMAIN Published(now)} = {}
    BY <1>2 DEF CompareSurfaces
  <2> QED BY <2>1, <1>3
<1>6. \A i \in DOMAIN was : Published(was)[i] = Published(now)[i]
  BY <1>2, <1>3, <1>4, <1>5 DEF CompareSurfaces
<1>7. \A i \in DOMAIN was : was[i] = now[i]
  <2>1. SUFFICES ASSUME NEW i \in DOMAIN was PROVE was[i] = now[i]
    OBVIOUS
  <2>2. i \in DOMAIN now
    BY <1>5
  <2>3. was[i] \in DOMAIN Schema /\ now[i] \in DOMAIN Schema
    BY <2>2, SurfaceIs
  <2>4. Published(was)[i] = Schema[was[i]] /\ Published(now)[i] = Schema[now[i]]
    BY <2>2 DEF Published
  <2> QED BY <1>6, <2>3, <2>4, FormsNamed
<1> QED BY <1>4, <1>5, <1>7, SurfaceIs

LEMMA MergedIs ==
    ASSUME NEW base \in Surfaces, NEW ours \in Surfaces, NEW theirs \in Surfaces
    PROVE  Merged(base, ours, theirs) \in Surfaces
<1> DEFINE form(i) == IF Form(theirs, i) # Form(base, i) THEN Form(theirs, i)
                                                         ELSE Form(ours, i)
           is == {j \in Items : form(j) # "absent"}
<1>1. Merged(base, ours, theirs) = [i \in is |-> form(i)]
  BY DEF Merged
<1>2. \A i \in is : form(i) \in DOMAIN Schema /\ form(i) \in NewForms[i]
  BY SurfaceIs DEF Form
<1> HIDE DEF form
<1>3. [i \in is |-> form(i)] \in [is -> DOMAIN Schema]
  BY <1>2
<1> QED BY <1>1, <1>2, <1>3, SurfaceOf

LEMMA ReformedIs ==
    ASSUME NEW s \in Surfaces, NEW i \in Items, NEW f \in NewForms[i] \union {"absent"}
    PROVE  Reformed(s, i, f) \in Surfaces
<1> DEFINE is == {k \in Items : IF k = i THEN f # "absent" ELSE k \in DOMAIN s}
           r == [j \in is |-> IF j = i THEN f ELSE s[j]]
<1>1. Reformed(s, i, f) = r
  BY DEF Reformed
<1>2. \A j \in is : r[j] \in NewForms[j] /\ r[j] \in DOMAIN Schema
  BY SurfaceIs, FormsNamed
<1>3. r \in [is -> DOMAIN Schema]
  BY <1>2
<1> QED BY <1>1, <1>2, <1>3, SurfaceOf

LEMMA MergeTreeIs ==
    ASSUME NEW t \in Tree, NEW kept \in BOOLEAN,
           NEW p \in CheckedIn
    PROVE  /\ MergeTree(t, p, kept) \in Tree
           /\ MergeTree(t, p, kept).heading = t.heading
           /\ MergeTree(t, p, kept).baseline = t.baseline
<1>1. Merged(p.base, t.surface, p.head) \in Surfaces
  BY MergedIs DEF Tree, CheckedIn
<1> QED BY <1>1 DEF MergeTree, Tree, CheckedIn

LEMMA RenamedIs ==
    ASSUME NEW t \in Tree, NEW b \in Baseline, NEW v \in Versions
    PROVE  /\ Renamed(t, b, v) \in Tree
           /\ Renamed(t, b, v).heading = v
           /\ Renamed(t, b, v).entries = FALSE
BY DEF Renamed, Tree

LEMMA RecordedIs ==
    ASSUME NEW t \in Tree, NEW b \in Baseline
    PROVE  /\ Recorded(t, b) \in Tree
           /\ Recorded(t, b).heading = t.heading
           /\ Recorded(t, b).entries = t.entries
           /\ Recorded(t, b).surface = t.surface
BY DEF Recorded, Tree

-----------------------------------------------------------------------------
(* The inductive invariant holds at the start, and one lemma for each        *)
(* action: what it keeps.                                                    *)

LEMMA InitHolds == Init => IInv
<1> SUFFICES ASSUME Init PROVE IInv
  OBVIOUS
<1>1. shipped \in Baseline /\ shipped = [version |-> shipped.version, surface |-> FirstSurface]
  BY FormsNamed DEF Init, Baseline
<1>2. main \in Tree /\ main.baseline = shipped
  BY <1>1, FormsNamed DEF Init, Tree, Baseline
<1>3. TypeOK
  BY <1>1, <1>2, FormsNamed DEF Init, TypeOK
<1> QED
  BY <1>2, <1>3 DEF Init, IInv, BaselineIsWhatShipped, PendingIsMains, PreparedIsNew,
     NotPreparing, NothingToTag

\* What is on is a record of its kind.
LEMMA OnIs ==
    ASSUME TypeOK
    PROVE  /\ rel.on => rel \in PreparedIn
           /\ pending.on => pending \in PendingIn
           /\ pr.phase = "cut" => pr \in CutIn
           /\ pr.phase = "checked" => pr \in CheckedIn
<1>1. NotPreparing.on = FALSE /\ NothingToTag.on = FALSE /\ NoBranch.phase = "none"
  BY DEF NotPreparing, NothingToTag, NoBranch
<1>2. \A r \in CutIn : r.phase = "cut"
  BY DEF CutIn
<1>3. \A r \in CheckedIn : r.phase = "checked"
  BY DEF CheckedIn
<1>4. rel = NotPreparing \/ rel \in PreparedIn
  BY DEF TypeOK
<1>5. pending = NothingToTag \/ pending \in PendingIn
  BY DEF TypeOK
<1>6. pr = NoBranch \/ pr \in CutIn \/ pr \in CheckedIn
  BY DEF TypeOK
<1>7. rel.on => rel \in PreparedIn
  BY <1>1, <1>4
<1>8. pending.on => pending \in PendingIn
  BY <1>1, <1>5
<1> QED BY <1>1, <1>2, <1>3, <1>6, <1>7, <1>8

LEMMA BranchKeeps == IInv /\ Branch => IInv'
<1> SUFFICES ASSUME IInv, Branch PROVE IInv'
  OBVIOUS
<1>1. pr' \in CutIn
  BY DEF IInv, TypeOK, Tree, Branch, CutIn
<1>2. TypeOK'
  BY <1>1 DEF IInv, TypeOK, Branch
<1> QED BY <1>2 DEF IInv, Branch, BaselineIsWhatShipped, PendingIsMains, PreparedIsNew

LEMMA CheckKeeps == IInv /\ Check => IInv'
<1> SUFFICES ASSUME IInv, Check PROVE IInv'
  OBVIOUS
<1>1. pr \in CutIn
  BY OnIs DEF IInv, Check
<1>2. pr' \in CheckedIn
  <2>1. PICK i \in Items : \E f \in (NewForms[i] \union {"absent"}) \ {Form(pr.base, i)} :
          \E acked \in {{}, {i}}, breaks \in {{}, {i}} :
            /\ Acked(Reformed(pr.base, i, f), acked, breaks)
            /\ \E entries \in BOOLEAN, breaking \in {{}, {i}} :
                 Pushed(Reformed(pr.base, i, f), acked \union breaks, entries, breaking)
    BY DEF Check
  <2>2. PICK f \in NewForms[i] \union {"absent"} :
          \E acked \in {{}, {i}}, breaks \in {{}, {i}} :
            \E entries \in BOOLEAN, breaking \in {{}, {i}} :
                 Pushed(Reformed(pr.base, i, f), acked \union breaks, entries, breaking)
    BY <2>1
  <2> DEFINE head == Reformed(pr.base, i, f)
  <2>3. head \in Surfaces
    BY <1>1, ReformedIs DEF CutIn
  <2> HIDE DEF head
  <2>4. PICK acked \in {{}, {i}}, breaks \in {{}, {i}}, entries \in BOOLEAN,
             breaking \in {{}, {i}} : Pushed(head, acked \union breaks, entries, breaking)
    BY <2>2 DEF head
  <2> QED BY <1>1, <2>3, <2>4 DEF Pushed, CheckedIn, CutIn
<1>3. TypeOK'
  BY <1>2 DEF IInv, TypeOK, Check
<1> QED BY <1>3 DEF IInv, Check, BaselineIsWhatShipped, PendingIsMains, PreparedIsNew

LEMMA MergeKeeps == IInv /\ Merge => IInv'
<1> SUFFICES ASSUME IInv, Merge PROVE IInv'
  OBVIOUS
<1>1. pr \in CheckedIn
  BY OnIs DEF IInv, Merge
<1>2. /\ main' \in Tree
      /\ main'.heading = main.heading
      /\ main'.baseline = main.baseline
  <2>1. PICK kept \in BOOLEAN : main' = MergeTree(main, pr, kept)
    BY DEF Merge
  <2> QED BY <1>1, <2>1, MergeTreeIs DEF IInv, TypeOK
<1>3. /\ rel' \in {NotPreparing} \union PreparedIn
      /\ rel'.on = rel.on
      /\ rel.on => rel'.tree = rel.tree
  BY DEF IInv, TypeOK, Merge, NotPreparing, PreparedIn
<1>4. /\ pending' \in {NothingToTag} \union PendingIn
      /\ pending'.on = pending.on
      /\ pending.on => pending'.tree = pending.tree
  BY <1>1 DEF IInv, TypeOK, Merge, NothingToTag, PendingIn, CheckedIn
<1>5. named' \subseteq Items /\ merges' \in 0..MaxMerges /\ pr' = NoBranch
  BY <1>1, FormsNamed DEF IInv, TypeOK, Merge, CheckedIn
<1>6. TypeOK'
  BY <1>2, <1>3, <1>4, <1>5 DEF IInv, TypeOK, Merge
<1>7. BaselineIsWhatShipped' /\ PendingIsMains' /\ PreparedIsNew'
  BY <1>2, <1>3, <1>4 DEF IInv, Merge, BaselineIsWhatShipped, PendingIsMains, PreparedIsNew
<1> QED BY <1>6, <1>7 DEF IInv

LEMMA PrepareKeeps == IInv /\ Prepare => IInv'
<1> SUFFICES ASSUME IInv, Prepare PROVE IInv'
  OBVIOUS
<1>1. PICK v \in Versions :
        /\ rel' = [on |-> TRUE, fresh |-> TRUE, tree |-> Renamed(main, main.baseline, v)]
        /\ IF main.heading = shipped.version THEN Later(shipped.version, v) ELSE v = main.heading
  BY DEF IInv, TypeOK, Tree, Prepare
<1>2. v # shipped.version
  <2>1. shipped.version \in Int \X Int /\ v \in Int \X Int
    BY FormsNamed DEF IInv, TypeOK, Baseline
  <2> QED BY <1>1, <2>1 DEF Later
<1>3. /\ Renamed(main, main.baseline, v) \in Tree
      /\ Renamed(main, main.baseline, v).heading = v
      /\ Renamed(main, main.baseline, v).entries = FALSE
  BY RenamedIs DEF IInv, TypeOK, Tree
<1>4. rel' \in PreparedIn /\ rel'.tree = Renamed(main, main.baseline, v)
  BY <1>1, <1>3 DEF PreparedIn
<1>5. TypeOK'
  BY <1>4 DEF IInv, TypeOK, Prepare
<1> QED BY <1>2, <1>3, <1>4, <1>5 DEF IInv, Prepare, BaselineIsWhatShipped, PendingIsMains,
        PreparedIsNew

\* A step that writes another baseline in the commit being prepared, and
\* nothing else but what schema-baseline printed.
LEMMA RecordKeeps ==
    ASSUME IInv, rel.on, NEW b \in Baseline,
           rel' = [rel EXCEPT !.tree = Recorded(rel.tree, b)],
           printed' \subseteq Items,
           UNCHANGED <<main, pr, pending, shipped, named, merges>>
    PROVE  IInv'
<1>1. rel \in PreparedIn
  BY OnIs DEF IInv
<1>2. rel' \in PreparedIn /\ rel'.tree = Recorded(rel.tree, b)
  BY <1>1, RecordedIs DEF PreparedIn
<1>3. rel'.tree.heading = rel.tree.heading /\ rel'.tree.entries = rel.tree.entries
  BY <1>1, <1>2, RecordedIs DEF PreparedIn
<1>4. TypeOK'
  BY <1>2 DEF IInv, TypeOK
<1> QED BY <1>2, <1>3, <1>4 DEF IInv, BaselineIsWhatShipped, PendingIsMains, PreparedIsNew

LEMMA WriteBaselineKeeps == IInv /\ WriteBaseline => IInv'
<1> SUFFICES ASSUME IInv, WriteBaseline PROVE IInv'
  OBVIOUS
<1> DEFINE b == [version |-> rel.tree.heading, surface |-> rel.tree.surface]
<1>1. rel \in PreparedIn
  BY OnIs DEF IInv, WriteBaseline
<1>2. b \in Baseline
  BY <1>1 DEF PreparedIn, Tree, Baseline
<1>3. Diffs[rel.tree.baseline.surface][rel.tree.surface].notes \subseteq Items
  <2>1. rel.tree.baseline.surface \in Surfaces /\ rel.tree.surface \in Surfaces
    BY <1>1 DEF PreparedIn, Tree, Baseline
  <2> QED BY <2>1, SurfaceIs DEF Diffs, CompareSurfaces, ValueNotes, Published
<1>4. printed' \subseteq Items
  BY <1>3 DEF WriteBaseline, IInv, TypeOK
<1> QED BY <1>2, <1>4, RecordKeeps DEF WriteBaseline

LEMMA EditBaselineKeeps == IInv /\ EditBaseline => IInv'
<1> SUFFICES ASSUME IInv, EditBaseline PROVE IInv'
  OBVIOUS
<1>1. rel \in PreparedIn
  BY OnIs DEF IInv, EditBaseline
<1>2. [rel.tree.baseline EXCEPT !.version = rel.tree.heading] \in Baseline /\ shipped \in Baseline
  BY <1>1 DEF IInv, TypeOK, PreparedIn, Tree, Baseline
<1>3. printed' \subseteq Items
  BY DEF EditBaseline, IInv, TypeOK
<1> QED BY <1>2, <1>3, RecordKeeps DEF EditBaseline

LEMMA RebaseKeeps == IInv /\ Rebase => IInv'
<1> SUFFICES ASSUME IInv, Rebase PROVE IInv'
  OBVIOUS
<1>1. rel \in PreparedIn
  BY OnIs DEF IInv, Rebase
<1> DEFINE t == Renamed(main, rel.tree.baseline, rel.tree.heading)
<1>2. t \in Tree /\ t.heading = rel.tree.heading /\ t.entries = FALSE
  <2>1. rel.tree.baseline \in Baseline /\ rel.tree.heading \in Versions /\ main \in Tree
    BY <1>1 DEF IInv, TypeOK, PreparedIn, Tree
  <2> QED BY <2>1, RenamedIs
<1>3. rel' \in PreparedIn /\ rel'.tree = t
  BY <1>2 DEF Rebase, PreparedIn
<1>4. TypeOK'
  BY <1>3 DEF IInv, TypeOK, Rebase
<1> QED BY <1>2, <1>3, <1>4 DEF IInv, Rebase, BaselineIsWhatShipped, PendingIsMains,
        PreparedIsNew

LEMMA LandKeeps == IInv /\ Land => IInv'
<1> SUFFICES ASSUME IInv, Land PROVE IInv'
  OBVIOUS
<1>1. rel \in PreparedIn
  BY OnIs DEF IInv, Land
<1>2. pending' \in PendingIn /\ pending'.tree = rel.tree /\ main' = rel.tree
  BY <1>1 DEF Land, PreparedIn, PendingIn
<1>3. TypeOK'
  BY <1>1, <1>2 DEF IInv, TypeOK, Land, PreparedIn
<1> QED BY <1>2, <1>3 DEF IInv, Land, BaselineIsWhatShipped, PendingIsMains, PreparedIsNew,
        NotPreparing

LEMMA TagKeeps == IInv /\ Tag => IInv'
<1> SUFFICES ASSUME IInv, Tag PROVE IInv'
  OBVIOUS
<1>1. pending \in PendingIn /\ pending.on /\ ~rel.on
  BY OnIs DEF IInv, Tag
<1>2. pending.tree \in Tree
  BY <1>1 DEF PendingIn
<1>3. pending.tree.baseline.surface = pending.tree.surface
  BY <1>1, <1>2, NoChangeIsSame
     DEF IInv, PendingIsMains, Tag, SchemaDiff, Tree, Baseline
<1>4. shipped' \in Baseline /\ pending.tree.baseline = shipped'
  BY <1>2, <1>3 DEF Tag, SchemaDiff, Tree, Baseline
<1>5. main.baseline = shipped'
  BY <1>1, <1>4 DEF IInv, PendingIsMains
<1>6. TypeOK'
  BY <1>1, <1>4 DEF IInv, TypeOK, Tag, PendingIn
<1> QED BY <1>1, <1>5, <1>6 DEF IInv, Tag, BaselineIsWhatShipped, PendingIsMains,
        PreparedIsNew, NothingToTag

-----------------------------------------------------------------------------
LEMMA StepKeeps == IInv /\ [Next]_vars => IInv'
<1> SUFFICES ASSUME IInv, [Next]_vars PROVE IInv'
  OBVIOUS
<1>1. CASE UNCHANGED vars
  BY <1>1 DEF vars, IInv, TypeOK, BaselineIsWhatShipped, PendingIsMains, PreparedIsNew
<1> QED
  BY <1>1, BranchKeeps, CheckKeeps, MergeKeeps, PrepareKeeps, WriteBaselineKeeps,
     EditBaselineKeeps, RebaseKeeps, LandKeeps, TagKeeps DEF Next

\* Every tree, surface, branch and release commit is well formed throughout.
THEOREM TypeCorrect == Spec => []TypeOK
<1>1. IInv => TypeOK
  BY DEF IInv
<1> QED BY <1>1, InitHolds, StepKeeps, PTL DEF Spec

\* For any items, forms, versions and number of releases: while main's newest
\* heading is the newest tag's, the recorded baseline is the surface it
\* shipped, so what the next release is compared with is what callers have.
THEOREM RecordedIsShipped == Spec => []BaselineIsWhatShipped
<1>1. IInv => BaselineIsWhatShipped
  BY DEF IInv
<1> QED BY <1>1, InitHolds, StepKeeps, PTL DEF Spec
-----------------------------------------------------------------------------
(* What every change is named by, and what a minor release keeps: the        *)
(* invariants.                                                               *)

\* The items two surfaces have in another form.
Differ(s, t) == {i \in Items : Form(s, i) # Form(t, i)}

\* What a branch, a release commit and main changed is named by somebody.
FootersName ==
    /\ pr.phase = "checked" => Differ(pr.base, pr.head) \subseteq pr.named
    /\ rel.on /\ rel.fresh => rel.tree.surface = main.surface
    /\ pending.on => Differ(pending.tree.surface, main.surface) \subseteq pending.after
    /\ Differ(shipped.surface, main.surface) \subseteq named

\* A side that takes whatever the other took, and one that gives nothing the
\* other did not give.
TakesAll(was, now) ==
    /\ DOMAIN was.fields \subseteq DOMAIN now.fields
    /\ \A p \in DOMAIN was.fields :
        /\ TypesCover(now.fields[p].typ, was.fields[p].typ)
        /\ \/ now.fields[p].enum = Unlimited
           \/ /\ was.fields[p].enum # Unlimited
              /\ was.fields[p].enum \subseteq now.fields[p].enum
    /\ \A p \in now.required \ was.required : ~ThereIn(was, ParentPath(p))

GivesNoMore(was, now) ==
    /\ DOMAIN was.fields \subseteq DOMAIN now.fields
    /\ \A p \in DOMAIN was.fields :
        /\ TypesCover(was.fields[p].typ, now.fields[p].typ)
        /\ \/ was.fields[p].enum = Unlimited
           \/ /\ now.fields[p].enum # Unlimited
              /\ now.fields[p].enum \subseteq was.fields[p].enum
    /\ was.required \subseteq now.required

Compatible(was, now) ==
    TakesAll(was.inputs, now.inputs) /\ GivesNoMore(was.outputs, now.outputs)

\* Every item that was shipped is kept, and compatible unless it was noted.
KeptSince(s) ==
    \A i \in DOMAIN shipped.surface :
        /\ i \in DOMAIN s
        /\ i \notin printed => Compatible(Schema[shipped.surface[i]], Schema[s[i]])

\* A baseline in a tree that becomes version v.
KeepsFor(b, v) ==
    /\ b.version \in {shipped.version, v}
    /\ ~NewMajor(shipped.version, v) => KeptSince(b.surface)

BaselinesKeep ==
    /\ KeepsFor(main.baseline, main.heading)
    /\ rel.on => /\ KeepsFor(rel.tree.baseline, rel.tree.heading)
                 /\ main.heading \in {shipped.version, rel.tree.heading}



-----------------------------------------------------------------------------
(* The comparison of two surfaces: what it says when nothing breaks.         *)

\* A set of numbers has a least.
LEMMA Least ==
    ASSUME NEW T \in SUBSET Nat, T # {}
    PROVE  \E x \in T : \A y \in T : x <= y
<1> DEFINE R == OpToRel(<, Nat)
<1>1. IsWellFoundedOn(R, Nat)
  BY NatLessThanWellFounded
<1>2. \A x, y \in Nat : <<x, y>> \in R <=> x < y
  BY DEF OpToRel
<1> HIDE DEF R
<1>3. \E x \in T : \A y \in T : ~(<<y, x>> \in R)
  BY <1>1, WFMin
<1>4. PICK x \in T : \A y \in T : ~(<<y, x>> \in R)
  BY <1>3
<1>5. \A y \in T : ~(y < x)
  BY <1>2, <1>4
<1> QED BY <1>5

\* A list without its last is one shorter.
LEMMA FrontShorter ==
    ASSUME NEW S, NEW p \in Seq(S), p # <<>>
    PROVE  Len(SubSeq(p, 1, Len(p) - 1)) = Len(p) - 1
<1> DEFINE n == Len(p) - 1
<1>1. Len(p) \in Nat \ {0}
  OBVIOUS
<1>2. n \in Int /\ 1 \in Int /\ n >= 0 /\ \A i \in 1 .. n : p[i] \in S
  BY <1>1
<1> HIDE DEF n
<1> DEFINE l == Len(SubSeq(p, 1, n))
<1>3. l = IF 1 <= n THEN n - 1 + 1 ELSE 0
  BY <1>2, SubSeqProperties
<1> HIDE DEF l
<1>4. l = n
  BY <1>2, <1>3
<1> QED BY <1>4 DEF l, n

\* A field sits in one with a shorter path.
LEMMA ParentShorter ==
    ASSUME NEW p \in Seq(STRING), p # Top
    PROVE  Len(p) \in Nat /\ Len(ParentPath(p)) \in Nat /\ Len(ParentPath(p)) < Len(p)
<1>1. p # <<>> /\ ParentPath(p) = SubSeq(p, 1, Len(p) - 1)
  BY DEF ParentPath, Front, Top
<1>2. Len(p) \in Nat \ {0}
  BY <1>1
<1>3. Len(SubSeq(p, 1, Len(p) - 1)) = Len(p) - 1
  BY <1>1, FrontShorter
<1> QED BY <1>1, <1>2, <1>3

\* When no field is listed as removed, none was: of one that was, the
\* outermost it sits in would be listed.
LEMMA NoneRemoved ==
    ASSUME NEW was, NEW now, IsSide(was), Removed(was, now) = {}
    PROVE  DOMAIN was.fields \subseteq DOMAIN now.fields
<1> DEFINE gone == DOMAIN was.fields \ DOMAIN now.fields
           lengths == {Len(p) : p \in gone}
<1>1. SUFFICES ASSUME gone # {} PROVE FALSE
  OBVIOUS
<1>2. \A p \in gone : /\ p \in Seq(STRING) /\ p # Top
                      /\ ParentPath(p) = Top \/ ParentPath(p) \in DOMAIN was.fields
  BY DEF IsSide
<1>3. lengths \in SUBSET Nat /\ lengths # {}
  BY <1>1, <1>2, ParentShorter
<1> HIDE DEF lengths
<1>4. PICK n \in lengths : \A m \in lengths : n <= m
  BY <1>3, Least
<1>5. PICK p \in gone : Len(p) = n
  BY <1>4 DEF lengths
<1>6. \A q \in gone : Len(p) <= Len(q)
  BY <1>4, <1>5 DEF lengths
<1>7. ParentPath(p) \notin gone
  BY <1>2, <1>5, <1>6, ParentShorter
<1>8. ThereIn(now, ParentPath(p))
  BY <1>2, <1>5, <1>7 DEF ThereIn
<1> QED BY <1>5, <1>8 DEF Removed

\* A tool in which nothing broke and nothing is noted is compatible.
LEMMA UnbrokenIsCompatible ==
    ASSUME NEW was, NEW now,
           IsSide(was.inputs), IsSide(was.outputs), IsSide(now.inputs), IsSide(now.outputs),
           BrokenInputs(was.inputs, now.inputs) = {},
           BrokenOutputs(was.outputs, now.outputs) = {},
           ~NotedFields(was, now)
    PROVE  Compatible(was, now)
<1>1. TakesAll(was.inputs, now.inputs)
  <2> DEFINE w == was.inputs
             n == now.inputs
  <2>1. /\ Removed(w, n) = {} /\ Retyped(w, n, TRUE) = {} /\ ValueRefused(w, n) = {}
        /\ NewlyRequired(w, n) = {}
    BY DEF BrokenInputs
  <2>2. DOMAIN w.fields \subseteq DOMAIN n.fields
    BY <2>1, NoneRemoved
  <2>3. Kept(w, n) = DOMAIN w.fields
    BY <2>2 DEF Kept
  <2>4. \A p \in DOMAIN w.fields : TypesCover(n.fields[p].typ, w.fields[p].typ)
    BY <2>1, <2>3 DEF Retyped, TypeBreaks
  <2>5. \A p \in DOMAIN w.fields : n.fields[p].enum = Unlimited
                                     \/ w.fields[p].enum \subseteq n.fields[p].enum
    BY <2>1, <2>3 DEF ValueRefused
  <2>6. \A p \in DOMAIN w.fields : w.fields[p].enum = Unlimited => n.fields[p].enum = Unlimited
    BY <2>3 DEF NotedFields
  <2>7. \A p \in n.required \ w.required : ~ThereIn(w, ParentPath(p))
    BY <2>1 DEF NewlyRequired
  <2> HIDE DEF w, n
  <2> QED BY <2>2, <2>4, <2>5, <2>6, <2>7 DEF TakesAll, w, n
<1>2. GivesNoMore(was.outputs, now.outputs)
  <2> DEFINE w == was.outputs
             n == now.outputs
  <2>1. Removed(w, n) = {} /\ Retyped(w, n, FALSE) = {} /\ MayBeMissing(w, n) = {}
    BY DEF BrokenOutputs
  <2>2. DOMAIN w.fields \subseteq DOMAIN n.fields
    BY <2>1, NoneRemoved
  <2>3. Kept(w, n) = DOMAIN w.fields
    BY <2>2 DEF Kept
  <2>4. \A p \in DOMAIN w.fields : TypesCover(w.fields[p].typ, n.fields[p].typ)
    BY <2>1, <2>3 DEF Retyped, TypeBreaks
  <2>5. \A p \in DOMAIN w.fields :
            w.fields[p].enum = Unlimited
              \/ (n.fields[p].enum # Unlimited /\ n.fields[p].enum \subseteq w.fields[p].enum)
    BY <2>3 DEF NotedFields
  <2>6. w.required \subseteq n.required
    BY <2>1, <2>3 DEF MayBeMissing, IsSide
  <2> HIDE DEF w, n
  <2> QED BY <2>2, <2>4, <2>5, <2>6 DEF GivesNoMore, w, n
<1> QED BY <1>1, <1>2 DEF Compatible

\* A list of types covers itself, and what a covered one covers.
LEMMA CoverIsOrder ==
    /\ \A a : TypesCover(a, a)
    /\ \A a, b, c : TypesCover(a, b) /\ TypesCover(b, c) => TypesCover(a, c)
BY DEF TypesCover, AnyType

LEMMA TakesOrder ==
    ASSUME NEW a, NEW b, NEW c, IsSide(a), IsSide(b), IsSide(c)
    PROVE  /\ TakesAll(a, a)
           /\ TakesAll(a, b) /\ TakesAll(b, c) => TakesAll(a, c)
<1>1. TakesAll(a, a)
  BY CoverIsOrder DEF TakesAll
<1>2. ASSUME TakesAll(a, b), TakesAll(b, c) PROVE TakesAll(a, c)
  <2>1. DOMAIN a.fields \subseteq DOMAIN b.fields /\ DOMAIN b.fields \subseteq DOMAIN c.fields
    BY <1>2 DEF TakesAll
  <2>2. \A p \in DOMAIN a.fields : TypesCover(c.fields[p].typ, a.fields[p].typ)
    BY <1>2, <2>1, CoverIsOrder DEF TakesAll
  <2>3. ASSUME NEW p \in DOMAIN a.fields
        PROVE  \/ c.fields[p].enum = Unlimited
               \/ a.fields[p].enum # Unlimited /\ a.fields[p].enum \subseteq c.fields[p].enum
    <3>1. \/ b.fields[p].enum = Unlimited
          \/ a.fields[p].enum # Unlimited /\ a.fields[p].enum \subseteq b.fields[p].enum
      BY <1>2 DEF TakesAll
    <3>2. \/ c.fields[p].enum = Unlimited
          \/ b.fields[p].enum # Unlimited /\ b.fields[p].enum \subseteq c.fields[p].enum
      BY <1>2, <2>1 DEF TakesAll
    <3> QED BY <3>1, <3>2
  <2>4. ASSUME NEW p \in c.required \ a.required PROVE ~ThereIn(a, ParentPath(p))
    <3>1. ThereIn(a, ParentPath(p)) => ThereIn(b, ParentPath(p))
      BY <2>1 DEF ThereIn
    <3>2. CASE p \in b.required
      BY <1>2, <3>2 DEF TakesAll
    <3>3. CASE p \notin b.required
      BY <1>2, <3>1, <3>3 DEF TakesAll
    <3> QED BY <3>2, <3>3
  <2> QED BY <2>1, <2>2, <2>3, <2>4 DEF TakesAll
<1> QED BY <1>1, <1>2

LEMMA GivesOrder ==
    ASSUME NEW a, NEW b, NEW c
    PROVE  /\ GivesNoMore(a, a)
           /\ GivesNoMore(a, b) /\ GivesNoMore(b, c) => GivesNoMore(a, c)
<1>1. GivesNoMore(a, a)
  BY CoverIsOrder DEF GivesNoMore
<1>2. ASSUME GivesNoMore(a, b), GivesNoMore(b, c) PROVE GivesNoMore(a, c)
  <2>1. DOMAIN a.fields \subseteq DOMAIN b.fields /\ DOMAIN b.fields \subseteq DOMAIN c.fields
        /\ a.required \subseteq c.required
    BY <1>2 DEF GivesNoMore
  <2>2. \A p \in DOMAIN a.fields : TypesCover(a.fields[p].typ, c.fields[p].typ)
    BY <1>2, <2>1, CoverIsOrder DEF GivesNoMore
  <2>3. ASSUME NEW p \in DOMAIN a.fields
        PROVE  \/ a.fields[p].enum = Unlimited
               \/ c.fields[p].enum # Unlimited /\ c.fields[p].enum \subseteq a.fields[p].enum
    <3>1. \/ a.fields[p].enum = Unlimited
          \/ b.fields[p].enum # Unlimited /\ b.fields[p].enum \subseteq a.fields[p].enum
      BY <1>2 DEF GivesNoMore
    <3>2. \/ b.fields[p].enum = Unlimited
          \/ c.fields[p].enum # Unlimited /\ c.fields[p].enum \subseteq b.fields[p].enum
      BY <1>2, <2>1 DEF GivesNoMore
    <3> QED BY <3>1, <3>2
  <2> QED BY <2>1, <2>2, <2>3 DEF GivesNoMore
<1> QED BY <1>1, <1>2

\* Compatible is reflexive and transitive over what is published.
LEMMA CompatibleOrder ==
    ASSUME NEW f \in DOMAIN Schema, NEW g \in DOMAIN Schema, NEW h \in DOMAIN Schema
    PROVE  /\ Compatible(Schema[f], Schema[f])
           /\ Compatible(Schema[f], Schema[g]) /\ Compatible(Schema[g], Schema[h])
                => Compatible(Schema[f], Schema[h])
BY TakesOrder, GivesOrder, SchemasPublished DEF Compatible

\* A value that fits a list of types fits one that covers it.
LEMMA FitsWider ==
    ASSUME NEW v \in Values, NEW f, NEW g, Fits(v, f), TypesCover(g.typ, f.typ),
           g.enum = Unlimited \/ (f.enum # Unlimited /\ f.enum \subseteq g.enum)
    PROVE  Fits(v, g)
<1>1. AnyType \in g.typ \/ TypesOf[v] \intersect g.typ # {}
  <2>1. CASE AnyType \notin g.typ
    <3>1. AnyType \notin f.typ /\ f.typ \subseteq g.typ \union
            (IF "number" \in g.typ THEN {"integer"} ELSE {})
      BY <2>1 DEF TypesCover
    <3>2. PICK t \in TypesOf[v] : t \in f.typ
      BY <3>1 DEF Fits
    <3>3. CASE t \in g.typ
      BY <3>2, <3>3
    <3>4. CASE t \notin g.typ
      <4>1. t = "integer" /\ "number" \in g.typ
        BY <3>1, <3>2, <3>4
      <4> QED BY <3>2, <4>1, SchemasPublished
    <3> QED BY <3>3, <3>4
  <2> QED BY <2>1
<1> QED BY <1>1 DEF Fits

\* What a compatible tool takes and gives serves the callers of the other.
LEMMA CompatibleServes ==
    ASSUME NEW f \in DOMAIN Schema, NEW g \in DOMAIN Schema,
           Compatible(Schema[f], Schema[g])
    PROVE  ServesCallersOf(Schema[f], Schema[g])
<1> DEFINE old == Schema[f]
           new == Schema[g]
<1>t. IsSide(old.outputs)
  BY SchemasPublished
<1>c. TakesAll(old.inputs, new.inputs) /\ GivesNoMore(old.outputs, new.outputs)
  BY DEF Compatible
<1>d. \A ps, d : d \in Documents(ps) => \A p \in DOMAIN d : d[p] \in Values
  BY DEF Documents
<1>1. ASSUME NEW d \in Documents(DOMAIN old.inputs.fields), Allows(old.inputs, d)
      PROVE  Allows(new.inputs, d)
  <2> DEFINE w == old.inputs
             n == new.inputs
  <2>w. TakesAll(w, n) /\ Allows(w, d) /\ \A p \in DOMAIN d : d[p] \in Values
    BY <1>1, <1>c, <1>d
  <2> HIDE DEF w, n
  <2>1. DOMAIN d \subseteq DOMAIN w.fields /\ DOMAIN d \subseteq DOMAIN n.fields
    BY <2>w DEF TakesAll, Allows
  <2>2. \A p \in DOMAIN d : Fits(d[p], n.fields[p])
    BY <2>w, <2>1, FitsWider DEF TakesAll, Allows
  <2>3. ASSUME NEW p \in n.required, ParentPath(p) = Top \/ ParentPath(p) \in DOMAIN d
        PROVE  p \in DOMAIN d
    <3>1. ThereIn(w, ParentPath(p))
      BY <2>1, <2>3 DEF ThereIn
    <3>2. p \in w.required
      BY <2>w, <3>1 DEF TakesAll
    <3> QED BY <2>w, <2>3, <3>2 DEF Allows
  <2> QED BY <2>1, <2>2, <2>3 DEF Allows, n
<1>2. ASSUME NEW d \in Documents(DOMAIN new.outputs.fields), Allows(new.outputs, d)
      PROVE  Allows(old.outputs, ReadBy(old.outputs, d))
  <2> DEFINE w == old.outputs
             n == new.outputs
             r == ReadBy(w, d)
  <2>w. GivesNoMore(w, n) /\ Allows(n, d) /\ (\A p \in DOMAIN d : d[p] \in Values)
        /\ w.required \subseteq DOMAIN w.fields
    BY <1>2, <1>c, <1>d, <1>t DEF IsSide
  <2> HIDE DEF w, n
  <2>1. /\ DOMAIN r = DOMAIN d \intersect DOMAIN w.fields
        /\ \A p \in DOMAIN r : r[p] = d[p]
    BY DEF ReadBy
  <2> HIDE DEF r
  <2>2. ASSUME NEW p \in DOMAIN r PROVE Fits(r[p], w.fields[p])
    <3>1. p \in DOMAIN d /\ p \in DOMAIN w.fields /\ r[p] = d[p] /\ d[p] \in Values
      BY <2>w, <2>1
    <3>2. Fits(d[p], n.fields[p]) /\ TypesCover(w.fields[p].typ, n.fields[p].typ)
      BY <2>w, <3>1 DEF GivesNoMore, Allows
    <3>3. \/ w.fields[p].enum = Unlimited
          \/ n.fields[p].enum # Unlimited /\ n.fields[p].enum \subseteq w.fields[p].enum
      BY <2>w, <3>1 DEF GivesNoMore
    <3> QED BY <3>1, <3>2, <3>3, FitsWider
  <2>3. ASSUME NEW p \in w.required, ParentPath(p) = Top \/ ParentPath(p) \in DOMAIN r
        PROVE  p \in DOMAIN r
    <3>1. p \in n.required /\ p \in DOMAIN w.fields
      BY <2>w DEF GivesNoMore
    <3>2. p \in DOMAIN d
      BY <2>w, <2>1, <2>3, <3>1 DEF Allows
    <3> QED BY <2>1, <3>1, <3>2
  <2> QED BY <2>1, <2>2, <2>3 DEF Allows, w, r
<1> QED BY <1>1, <1>2 DEF ServesCallersOf

-----------------------------------------------------------------------------
(* What the comparison says of the items two surfaces have.                  *)

LEMMA FormIs ==
    ASSUME NEW s \in Surfaces, NEW i \in Items
    PROVE  IF i \in DOMAIN s THEN Form(s, i) = s[i] /\ Form(s, i) # "absent"
                             ELSE Form(s, i) = "absent"
BY SurfaceIs, FormsNamed DEF Form

\* A tool breaks nothing against itself.
LEMMA SameBreaksNothing ==
    ASSUME NEW a
    PROVE  BrokenInputs(a, a) = {} /\ BrokenOutputs(a, a) = {}
<1>1. \A t : TypesCover(t, t)
  BY CoverIsOrder
<1>2. Retyped(a, a, TRUE) = {} /\ Retyped(a, a, FALSE) = {}
  BY <1>1 DEF Retyped, TypeBreaks
<1>3. Removed(a, a) = {} /\ ValueRefused(a, a) = {} /\ NewlyRequired(a, a) = {}
      /\ MayBeMissing(a, a) = {}
  BY DEF Removed, ValueRefused, NewlyRequired, MayBeMissing
<1> QED BY <1>2, <1>3 DEF BrokenInputs, BrokenOutputs

\* What is broken of the surfaces is an item that is gone, or one of both.
LEMMA BrokenItems ==
    ASSUME NEW s \in Surfaces, NEW t \in Surfaces, NEW i \in ItemsOf(Diffs[s][t].breaking)
    PROVE  \/ i \in DOMAIN s \ DOMAIN t
           \/ /\ i \in DOMAIN s \intersect DOMAIN t
              /\ \/ BrokenInputs(Schema[s[i]].inputs, Schema[t[i]].inputs) # {}
                 \/ BrokenOutputs(Schema[s[i]].outputs, Schema[t[i]].outputs) # {}
<1> DEFINE a == Published(s)
           b == Published(t)
<1>1. /\ DOMAIN a = DOMAIN s /\ DOMAIN b = DOMAIN t
      /\ \A j \in DOMAIN s : a[j] = Schema[s[j]]
      /\ \A j \in DOMAIN t : b[j] = Schema[t[j]]
  BY DEF Published
<1>2. Diffs[s][t].breaking =
        {Spot(j, "removed", Top) : j \in DOMAIN a \ DOMAIN b} \union BrokenFields(a, b)
  BY DEF Diffs, CompareSurfaces
<1> HIDE DEF a, b
<1>3. PICK x \in Diffs[s][t].breaking : x.item = i
  BY DEF ItemsOf
<1>4. CASE x \in {Spot(j, "removed", Top) : j \in DOMAIN a \ DOMAIN b}
  BY <1>1, <1>3, <1>4 DEF Spot
<1>5. CASE x \in BrokenFields(a, b)
  <2>1. PICK j \in DOMAIN a \intersect DOMAIN b :
           x \in {Spot(j, "input", p) : p \in BrokenInputs(a[j].inputs, b[j].inputs)}
             \union {Spot(j, "output", p) : p \in BrokenOutputs(a[j].outputs, b[j].outputs)}
    BY <1>5 DEF BrokenFields
  <2>2. x.item = j
    BY <2>1 DEF Spot
  <2>3. BrokenInputs(a[j].inputs, b[j].inputs) # {}
        \/ BrokenOutputs(a[j].outputs, b[j].outputs) # {}
    BY <2>1
  <2> QED BY <1>1, <1>3, <2>2, <2>3
<1> QED BY <1>2, <1>3, <1>4, <1>5

\* What the comparison lists is what differs.
LEMMA ListedIsDifferent ==
    ASSUME NEW s \in Surfaces, NEW t \in Surfaces
    PROVE  LET c == Diffs[s][t]
           IN  c.added \union c.changed \union ItemsOf(c.breaking) = Differ(s, t)
<1> DEFINE c == Diffs[s][t]
           all == c.added \union c.changed \union ItemsOf(c.breaking)
<1>1. /\ DOMAIN Published(s) = DOMAIN s /\ DOMAIN Published(t) = DOMAIN t
      /\ \A j \in DOMAIN s : Published(s)[j] = Schema[s[j]]
      /\ \A j \in DOMAIN t : Published(t)[j] = Schema[t[j]]
  BY DEF Published
<1>2. /\ c.added = DOMAIN t \ DOMAIN s
      /\ c.changed = {j \in DOMAIN s \intersect DOMAIN t : Schema[s[j]] # Schema[t[j]]}
      /\ \A j \in DOMAIN s \ DOMAIN t : Spot(j, "removed", Top) \in c.breaking
  BY <1>1 DEF Diffs, CompareSurfaces
<1> HIDE DEF c
<1>3. \A j \in DOMAIN s \ DOMAIN t : j \in ItemsOf(c.breaking)
  <2>1. \A j : Spot(j, "removed", Top).item = j
    BY DEF Spot
  <2> QED BY <1>2, <2>1 DEF ItemsOf
<1>4. DOMAIN s \subseteq Items /\ DOMAIN t \subseteq Items
  BY SurfaceIs
<1>5. \A j \in Items : j \in Differ(s, t) <=>
        \/ j \in DOMAIN t \ DOMAIN s
        \/ j \in DOMAIN s \ DOMAIN t
        \/ j \in DOMAIN s \intersect DOMAIN t /\ s[j] # t[j]
  <2>1. ASSUME NEW j \in Items
        PROVE  j \in Differ(s, t) <=>
                  \/ j \in DOMAIN t \ DOMAIN s
                  \/ j \in DOMAIN s \ DOMAIN t
                  \/ j \in DOMAIN s \intersect DOMAIN t /\ s[j] # t[j]
    <3>1. IF j \in DOMAIN s THEN Form(s, j) = s[j] /\ Form(s, j) # "absent"
                            ELSE Form(s, j) = "absent"
      BY FormIs
    <3>2. IF j \in DOMAIN t THEN Form(t, j) = t[j] /\ Form(t, j) # "absent"
                            ELSE Form(t, j) = "absent"
      BY FormIs
    <3> QED BY <3>1, <3>2 DEF Differ
  <2> QED BY <2>1
<1>6. \A j \in DOMAIN s \intersect DOMAIN t : s[j] # t[j] <=> Schema[s[j]] # Schema[t[j]]
  BY SurfaceIs, FormsNamed
<1>7. Differ(s, t) \subseteq all
  <2>1. Differ(s, t) \subseteq Items
    BY DEF Differ
  <2> QED BY <1>2, <1>3, <1>5, <1>6, <2>1
<1>8. ItemsOf(c.breaking) \subseteq Differ(s, t)
  <2>1. ASSUME NEW i \in ItemsOf(c.breaking) PROVE i \in Differ(s, t)
    <3>1. \/ i \in DOMAIN s \ DOMAIN t
          \/ /\ i \in DOMAIN s \intersect DOMAIN t
             /\ \/ BrokenInputs(Schema[s[i]].inputs, Schema[t[i]].inputs) # {}
                \/ BrokenOutputs(Schema[s[i]].outputs, Schema[t[i]].outputs) # {}
      BY BrokenItems DEF c
    <3>2. i \in DOMAIN s \intersect DOMAIN t /\ s[i] = t[i] => FALSE
      BY <3>1, SameBreaksNothing
    <3> QED BY <1>4, <1>5, <3>1, <3>2
  <2> QED BY <2>1
<1>9. c.added \union c.changed \subseteq Differ(s, t)
  BY <1>2, <1>4, <1>5, <1>6
<1> QED BY <1>7, <1>8, <1>9 DEF c

\* Nothing breaks between a and b but what is noted: all is kept, and the
\* rest is compatible.
LEMMA UnbrokenKeeps ==
    ASSUME NEW s \in Surfaces, NEW t \in Surfaces, Diffs[s][t].breaking = {},
           NEW i \in DOMAIN s
    PROVE  /\ i \in DOMAIN t
           /\ i \notin Diffs[s][t].notes => Compatible(Schema[s[i]], Schema[t[i]])
<1> DEFINE a == Published(s)
           b == Published(t)
<1>1. /\ DOMAIN a = DOMAIN s /\ DOMAIN b = DOMAIN t
      /\ \A j \in DOMAIN s : a[j] = Schema[s[j]]
      /\ \A j \in DOMAIN t : b[j] = Schema[t[j]]
  BY DEF Published
<1>2. /\ {Spot(j, "removed", Top) : j \in DOMAIN a \ DOMAIN b} = {}
      /\ BrokenFields(a, b) = {}
      /\ Diffs[s][t].notes = ValueNotes(a, b)
  BY DEF Diffs, CompareSurfaces
<1> HIDE DEF a, b
<1>3. i \in DOMAIN a /\ i \in DOMAIN b
  BY <1>1, <1>2
<1>4. ASSUME i \notin Diffs[s][t].notes
      PROVE  Compatible(Schema[s[i]], Schema[t[i]])
  <2>1. ~NotedFields(a[i], b[i])
    BY <1>2, <1>3, <1>4 DEF ValueNotes
  <2>2. /\ {Spot(i, "input", p) : p \in BrokenInputs(a[i].inputs, b[i].inputs)} = {}
        /\ {Spot(i, "output", p) : p \in BrokenOutputs(a[i].outputs, b[i].outputs)} = {}
    BY <1>2, <1>3 DEF BrokenFields
  <2>3. BrokenInputs(a[i].inputs, b[i].inputs) = {}
        /\ BrokenOutputs(a[i].outputs, b[i].outputs) = {}
    BY <2>2
  <2>4. s[i] \in DOMAIN Schema /\ t[i] \in DOMAIN Schema
        /\ a[i] = Schema[s[i]] /\ b[i] = Schema[t[i]]
    BY <1>1, <1>3, SurfaceIs
  <2> QED BY <2>1, <2>3, <2>4, UnbrokenIsCompatible, SchemasPublished
<1> QED BY <1>1, <1>3, <1>4

\* Differences add up, and a merge brings those of the branch.
LEMMA DifferAdds ==
    ASSUME NEW a, NEW b, NEW c
    PROVE  Differ(a, a) = {} /\ Differ(a, c) \subseteq Differ(a, b) \union Differ(b, c)
BY DEF Differ

LEMMA MergeBrings ==
    ASSUME NEW base \in Surfaces, NEW ours \in Surfaces, NEW theirs \in Surfaces
    PROVE  Differ(ours, Merged(base, ours, theirs)) \subseteq Differ(base, theirs)
<1> DEFINE form(i) == IF Form(theirs, i) # Form(base, i) THEN Form(theirs, i)
                                                         ELSE Form(ours, i)
           is == {j \in Items : form(j) # "absent"}
           m == Merged(base, ours, theirs)
<1>1. m = [i \in is |-> form(i)]
  BY DEF Merged
<1>2. \A i \in Items : Form(m, i) = form(i)
  <2> HIDE DEF form, m
  <2> QED BY <1>1 DEF Form
<1> HIDE DEF m
<1> QED BY <1>2 DEF Differ, m

-----------------------------------------------------------------------------
(* Footers: one lemma for each action that moves a surface.                  *)

LEMMA CheckFooters ==
    ASSUME IInv, FootersName, Check
    PROVE  FootersName'
<1>1. pr \in CutIn
  BY OnIs DEF IInv, Check
<1>2. Differ(pr'.base, pr'.head) \subseteq pr'.named
  <2>1. PICK i \in Items : \E f \in (NewForms[i] \union {"absent"}) \ {Form(pr.base, i)} :
          \E acked \in {{}, {i}}, breaks \in {{}, {i}} :
            /\ Acked(Reformed(pr.base, i, f), acked, breaks)
            /\ \E entries \in BOOLEAN, breaking \in {{}, {i}} :
                 Pushed(Reformed(pr.base, i, f), acked \union breaks, entries, breaking)
    BY DEF Check
  <2>a. PICK f \in NewForms[i] \union {"absent"} :
          \E acked \in {{}, {i}}, breaks \in {{}, {i}} :
            /\ Acked(Reformed(pr.base, i, f), acked, breaks)
            /\ \E entries \in BOOLEAN, breaking \in {{}, {i}} :
                 Pushed(Reformed(pr.base, i, f), acked \union breaks, entries, breaking)
    BY <2>1
  <2> DEFINE head == Reformed(pr.base, i, f)
  <2>2. head \in Surfaces /\ pr.base \in Surfaces
    BY <1>1, ReformedIs DEF CutIn
  <2> HIDE DEF head
  <2>b. PICK acked, breaks :
          /\ Acked(head, acked, breaks)
          /\ \E entries, breaking : Pushed(head, acked \union breaks, entries, breaking)
    BY <2>a DEF head
  <2>3. Acked(head, acked, breaks)
    BY <2>b
  <2> DEFINE c == Diffs[pr.base][head]
             released == Diffs[main.baseline.surface][head].breaking
  <2>4. /\ ItemsOf(c.breaking \intersect released) \subseteq breaks
        /\ c.added \subseteq acked \union breaks
        /\ c.changed \union ItemsOf(c.breaking \ released) \subseteq acked \union breaks
    <3> DEFINE r == ReleaseBreaksOnly(c, released)
    <3>1. /\ r.breaking = c.breaking \intersect released /\ r.added = c.added
          /\ r.changed = c.changed \union ItemsOf(c.breaking \ released)
      BY <2>2 DEF ReleaseBreaksOnly, Diffs, CompareSurfaces
    <3>2. ItemsOf(r.breaking) \subseteq breaks
          /\ r.added \union r.changed \subseteq acked \union breaks
      BY <2>3 DEF Acked, CheckAck
    <3> HIDE DEF r
    <3> QED BY <3>1, <3>2
  <2>5. ItemsOf(c.breaking) \subseteq acked \union breaks
    <3> HIDE DEF c, released
    <3> QED BY <2>4 DEF ItemsOf
  <2>6. Differ(pr.base, head) \subseteq acked \union breaks
    <3>1. c.added \union c.changed \union ItemsOf(c.breaking) = Differ(pr.base, head)
      BY <2>2, ListedIsDifferent
    <3> HIDE DEF c, released
    <3> QED BY <2>4, <2>5, <3>1
  <2>7. pr'.base = pr.base /\ pr'.head = head /\ pr'.named = acked \union breaks
    BY <2>b DEF Pushed
  <2> QED BY <2>6, <2>7
<1> QED BY <1>2 DEF Check, FootersName

LEMMA MergeFooters ==
    ASSUME IInv, FootersName, Merge
    PROVE  FootersName'
<1>1. pr \in CheckedIn
  BY OnIs DEF IInv, Merge
<1>2. Differ(main.surface, main'.surface) \subseteq pr.named
  <2>1. PICK kept \in BOOLEAN : main' = MergeTree(main, pr, kept)
    BY DEF Merge
  <2>2. main'.surface = Merged(pr.base, main.surface, pr.head)
    BY <2>1 DEF MergeTree
  <2>3. pr.base \in Surfaces /\ pr.head \in Surfaces /\ main.surface \in Surfaces
    BY <1>1 DEF CheckedIn, IInv, TypeOK, Tree
  <2>4. Differ(pr.base, pr.head) \subseteq pr.named
    BY DEF FootersName, Merge
  <2> QED BY <2>2, <2>3, <2>4, MergeBrings
<1>3. Differ(shipped.surface, main'.surface) \subseteq named \union pr.named
  BY <1>2, DifferAdds DEF FootersName
<1>4. rel'.on => ~rel'.fresh
  BY OnIs DEF Merge, IInv, PreparedIn
<1>5. pending'.on => Differ(pending'.tree.surface, main'.surface) \subseteq pending'.after
  <2>1. SUFFICES ASSUME pending.on
                 PROVE  Differ(pending'.tree.surface, main'.surface) \subseteq pending'.after
    BY DEF Merge
  <2>2. pending'.tree = pending.tree /\ pending'.after = pending.after \union pr.named
    BY <2>1, OnIs DEF Merge, IInv, PendingIn
  <2>3. Differ(pending.tree.surface, main.surface) \subseteq pending.after
    BY <2>1 DEF FootersName
  <2> QED BY <1>2, <2>2, <2>3, DifferAdds
<1>6. pr'.phase # "checked"
  BY DEF Merge, NoBranch
<1> QED BY <1>3, <1>4, <1>5, <1>6 DEF FootersName, Merge

\* The release commit holds main's surface, whatever its baseline.
LEMMA ReleaseFooters ==
    ASSUME IInv, FootersName, Prepare \/ WriteBaseline \/ EditBaseline \/ Rebase
    PROVE  FootersName'
<1>1. /\ UNCHANGED <<main, pr, pending, shipped, named>>
      /\ rel'.fresh => rel'.tree.surface = main.surface
  <2>1. CASE Prepare
    BY <2>1 DEF Prepare, Renamed
  <2>2. CASE Rebase
    BY <2>2 DEF Rebase, Renamed
  <2>3. ASSUME rel.on, NEW b \in Baseline, rel' = [rel EXCEPT !.tree = Recorded(rel.tree, b)]
        PROVE  rel'.fresh => rel'.tree.surface = main.surface
    <3>1. rel \in PreparedIn
      BY <2>3, OnIs DEF IInv
    <3>2. rel'.tree = Recorded(rel.tree, b) /\ rel'.fresh = rel.fresh
      BY <2>3, <3>1 DEF PreparedIn
    <3>3. rel'.tree.surface = rel.tree.surface
      BY <3>1, <3>2, RecordedIs DEF PreparedIn
    <3> QED BY <2>3, <3>2, <3>3 DEF FootersName
  <2>4. rel.on => /\ [version |-> rel.tree.heading, surface |-> rel.tree.surface] \in Baseline
                  /\ [rel.tree.baseline EXCEPT !.version = rel.tree.heading] \in Baseline
                  /\ shipped \in Baseline
    BY OnIs DEF IInv, TypeOK, PreparedIn, Tree, Baseline
  <2>5. CASE WriteBaseline
    BY <2>3, <2>4, <2>5 DEF WriteBaseline
  <2>6. CASE EditBaseline
    BY <2>3, <2>4, <2>6 DEF EditBaseline
  <2> QED BY <2>1, <2>2, <2>5, <2>6 DEF Prepare, WriteBaseline, EditBaseline, Rebase
<1> QED BY <1>1 DEF FootersName

LEMMA LandFooters ==
    ASSUME IInv, FootersName, Land
    PROVE  FootersName'
<1>1. main'.surface = main.surface /\ pending'.tree.surface = main'.surface
  BY DEF Land, FootersName
<1>2. Differ(pending'.tree.surface, main'.surface) = {}
  BY <1>1, DifferAdds
<1> QED BY <1>1, <1>2 DEF Land, FootersName, NotPreparing

LEMMA TagFooters ==
    ASSUME IInv, FootersName, Tag
    PROVE  FootersName'
<1>1. shipped'.surface = pending.tree.surface /\ named' = pending.after /\ pending.on
  BY DEF Tag
<1> QED BY <1>1 DEF Tag, FootersName, NothingToTag

LEMMA FootersStep ==
    ASSUME IInv, FootersName, [Next]_vars
    PROVE  FootersName'
<1>1. CASE Branch
  BY <1>1 DEF Branch, FootersName
<1>2. CASE UNCHANGED vars
  BY <1>2 DEF vars, FootersName
<1> QED BY <1>1, <1>2, CheckFooters, MergeFooters, ReleaseFooters, LandFooters, TagFooters
        DEF Next

\* However branches and releases cross: what main has changed since the
\* newest release, some commit since then names in a footer.
THEOREM ChangesAreNamed == Spec => []EveryChangeNamed
<1>1. Init => FootersName
  BY DifferAdds DEF Init, FootersName, NoBranch, NotPreparing, NothingToTag
<1>2. IInv /\ FootersName /\ [Next]_vars => FootersName'
  BY FootersStep
<1>3. IInv /\ FootersName => EveryChangeNamed
  <2> SUFFICES ASSUME IInv, FootersName PROVE EveryChangeNamed
    OBVIOUS
  <2>1. shipped.surface \in Surfaces /\ main.surface \in Surfaces
    BY DEF IInv, TypeOK, Tree, Baseline
  <2> QED BY <2>1, ListedIsDifferent DEF EveryChangeNamed, FootersName
<1> QED BY <1>1, <1>2, <1>3, InitHolds, StepKeeps, PTL DEF Spec

-----------------------------------------------------------------------------
(* Baselines: what the recorded one keeps of what was shipped.               *)

\* A surface keeps what it has itself.
LEMMA SurfaceKeepsItself ==
    ASSUME NEW s \in Surfaces
    PROVE  \A i \in DOMAIN s : Compatible(Schema[s[i]], Schema[s[i]])
BY SurfaceIs, CompatibleOrder

LEMMA KeepsItself ==
    ASSUME TypeOK
    PROVE  KeptSince(shipped.surface)
<1>1. shipped.surface \in Surfaces
  BY DEF TypeOK, Baseline
<1> QED BY <1>1, SurfaceKeepsItself DEF KeptSince

\* More items noted, or other variables, leave what is kept.
LEMMA KeptStays ==
    ASSUME NEW s, shipped' = shipped, printed \subseteq printed', KeptSince(s)
    PROVE  \A i \in DOMAIN shipped'.surface :
             /\ i \in DOMAIN s
             /\ i \notin printed' => Compatible(Schema[shipped'.surface[i]], Schema[s[i]])
BY DEF KeptSince

\* What schema-baseline writes keeps what the baseline it replaces kept.
LEMMA WriteKeepsAll ==
    ASSUME IInv, BaselinesKeep, WriteBaseline
    PROVE  BaselinesKeep'
<1> DEFINE b == rel.tree.baseline.surface
           s == rel.tree.surface
           v == rel.tree.heading
<1>1. rel \in PreparedIn /\ rel.on /\ shipped' = shipped /\ main' = main
  BY OnIs DEF IInv, WriteBaseline
<1>2. b \in Surfaces /\ s \in Surfaces /\ shipped.surface \in Surfaces
  BY <1>1 DEF PreparedIn, Tree, Baseline, IInv, TypeOK
<1>3. /\ Diffs[b][s].breaking = {} \/ NewMajor(rel.tree.baseline.version, v)
      /\ printed' = printed \union Diffs[b][s].notes
  BY DEF WriteBaseline
<1>4. /\ rel'.on /\ rel'.tree.heading = v
      /\ rel'.tree.baseline = [version |-> v, surface |-> s]
  BY <1>1 DEF WriteBaseline, Recorded, PreparedIn, Tree
<1>5. KeepsFor(rel.tree.baseline, v) /\ KeepsFor(main.baseline, main.heading)
      /\ main.heading \in {shipped.version, v}
  BY <1>1 DEF BaselinesKeep
<1>6. ~NewMajor(shipped.version, v) => ~NewMajor(rel.tree.baseline.version, v)
  <2>1. v \in Versions /\ v[1] \in Int
    BY <1>1, FormsNamed DEF PreparedIn, Tree
  <2> QED BY <1>5, <2>1 DEF KeepsFor, NewMajor
<1> HIDE DEF b, s, v
<1>7. ASSUME ~NewMajor(shipped.version, v), NEW i \in DOMAIN shipped.surface
      PROVE  /\ i \in DOMAIN s
             /\ i \notin printed' => Compatible(Schema[shipped.surface[i]], Schema[s[i]])
  <2>1. /\ i \in DOMAIN b
        /\ i \notin printed => Compatible(Schema[shipped.surface[i]], Schema[b[i]])
    BY <1>5, <1>7 DEF KeepsFor, KeptSince, b
  <2>2. /\ i \in DOMAIN s
        /\ i \notin Diffs[b][s].notes => Compatible(Schema[b[i]], Schema[s[i]])
    BY <1>2, <1>3, <1>6, <1>7, <2>1, UnbrokenKeeps
  <2>3. shipped.surface[i] \in DOMAIN Schema /\ b[i] \in DOMAIN Schema /\ s[i] \in DOMAIN Schema
    BY <1>2, <2>1, <2>2, SurfaceIs
  <2> QED BY <1>3, <2>1, <2>2, <2>3, CompatibleOrder
<1>8. KeepsFor(rel.tree.baseline, rel.tree.heading)'
  BY <1>1, <1>4, <1>7 DEF KeepsFor, KeptSince
<1>9. KeepsFor(main.baseline, main.heading)'
  <2>1. printed \subseteq printed'
    BY <1>3
  <2> QED BY <1>1, <1>5, <2>1, KeptStays DEF KeepsFor, KeptSince
<1> QED BY <1>1, <1>4, <1>5, <1>8, <1>9 DEF BaselinesKeep

\* A baseline that is relabelled or restored.
LEMMA EditKeepsAll ==
    ASSUME IInv, BaselinesKeep, EditBaseline
    PROVE  BaselinesKeep'
<1>1. rel \in PreparedIn /\ rel.on
  BY OnIs DEF IInv, EditBaseline
<1>2. PICK b \in {[rel.tree.baseline EXCEPT !.version = rel.tree.heading], shipped} :
        rel' = [rel EXCEPT !.tree = Recorded(rel.tree, b)]
  BY DEF EditBaseline
<1>3. rel'.on /\ rel'.tree.heading = rel.tree.heading /\ rel'.tree.baseline = b
  BY <1>1, <1>2 DEF Recorded, PreparedIn, Tree
<1>4. KeepsFor(b, rel.tree.heading)
  <2>1. CASE b = shipped
    BY <2>1, KeepsItself DEF KeepsFor, IInv
  <2>2. CASE b = [rel.tree.baseline EXCEPT !.version = rel.tree.heading]
    <3>1. b.version = rel.tree.heading /\ b.surface = rel.tree.baseline.surface
      BY <1>1, <2>2 DEF PreparedIn, Tree, Baseline
    <3> QED BY <1>1, <3>1 DEF BaselinesKeep, KeepsFor
  <2> QED BY <1>2, <2>1, <2>2
<1>5. main' = main /\ shipped' = shipped /\ printed' = printed
  BY DEF EditBaseline
<1> QED BY <1>1, <1>3, <1>4, <1>5 DEF BaselinesKeep, KeepsFor, KeptSince

\* A release is started from main's baseline, or mended under its heading.
LEMMA PrepareKeepsAll ==
    ASSUME IInv, BaselinesKeep, Prepare
    PROVE  BaselinesKeep'
<1>1. PICK v \in Versions :
        /\ rel' = [on |-> TRUE, fresh |-> TRUE, tree |-> Renamed(main, main.baseline, v)]
        /\ main.heading = shipped.version \/ v = main.heading
  BY DEF IInv, TypeOK, Tree, Prepare
<1>2. rel'.on /\ rel'.tree.heading = v /\ rel'.tree.baseline = main.baseline
  BY <1>1 DEF Renamed
<1>3. main' = main /\ shipped' = shipped /\ printed' = printed
  BY DEF Prepare
<1>4. KeepsFor(main.baseline, main.heading)
  BY DEF BaselinesKeep
<1>5. KeepsFor(main.baseline, v)
  <2>1. CASE main.heading = shipped.version
    <3>1. main.baseline = shipped
      BY <2>1 DEF IInv, BaselineIsWhatShipped
    <3> QED BY <3>1, KeepsItself DEF KeepsFor, IInv
  <2>2. CASE v = main.heading
    BY <1>4, <2>2
  <2> QED BY <1>1, <2>1, <2>2
<1> QED BY <1>1, <1>2, <1>3, <1>4, <1>5 DEF BaselinesKeep, KeepsFor, KeptSince

LEMMA RebaseKeepsAll ==
    ASSUME IInv, BaselinesKeep, Rebase
    PROVE  BaselinesKeep'
<1>1. rel'.tree.heading = rel.tree.heading /\ rel'.tree.baseline = rel.tree.baseline
      /\ rel.on
  BY DEF Rebase, Renamed
<1>2. main' = main /\ shipped' = shipped /\ printed' = printed
  BY DEF Rebase
<1> QED BY <1>1, <1>2 DEF BaselinesKeep, KeepsFor, KeptSince

LEMMA MergeKeepsAll ==
    ASSUME IInv, BaselinesKeep, Merge
    PROVE  BaselinesKeep'
<1>1. pr \in CheckedIn
  BY OnIs DEF IInv, Merge
<1>2. main'.heading = main.heading /\ main'.baseline = main.baseline
  <2>1. PICK kept \in BOOLEAN : main' = MergeTree(main, pr, kept)
    BY DEF Merge
  <2> QED BY <1>1, <2>1, MergeTreeIs DEF IInv, TypeOK
<1>3. rel'.on = rel.on /\ (rel.on => rel'.tree = rel.tree)
  BY OnIs DEF IInv, Merge, PreparedIn
<1>4. shipped' = shipped /\ printed' = printed
  BY DEF Merge
<1> QED BY <1>2, <1>3, <1>4 DEF BaselinesKeep, KeepsFor, KeptSince

LEMMA LandKeepsAll ==
    ASSUME IInv, BaselinesKeep, Land
    PROVE  BaselinesKeep'
<1>1. main' = rel.tree /\ rel' = NotPreparing /\ rel.on
      /\ shipped' = shipped /\ printed' = printed
  BY DEF Land
<1> QED BY <1>1 DEF BaselinesKeep, KeepsFor, KeptSince, NotPreparing

\* What is tagged is what the baseline keeps.
LEMMA Tagged ==
    ASSUME IInv, BaselinesKeep, Tag
    PROVE  /\ shipped' = main.baseline /\ shipped'.version = main.heading
           /\ main' = main /\ ~rel'.on
           /\ KeepsFor(main.baseline, main.heading)
<1>1. pending \in PendingIn /\ pending.on /\ ~rel.on
  BY OnIs DEF IInv, Tag
<1>2. pending.tree \in Tree
  BY <1>1 DEF PendingIn
<1>3. pending.tree.baseline.surface = pending.tree.surface
  BY <1>1, <1>2, NoChangeIsSame
     DEF IInv, PendingIsMains, Tag, SchemaDiff, Tree, Baseline
<1>4. pending.tree.baseline = shipped'
  BY <1>2, <1>3 DEF Tag, SchemaDiff, Tree, Baseline
<1>5. main.baseline = shipped' /\ main.heading = pending.tree.heading
  BY <1>1, <1>4 DEF IInv, PendingIsMains
<1> QED BY <1>1, <1>5 DEF Tag, BaselinesKeep

LEMMA TagKeepsAll ==
    ASSUME IInv, IInv', BaselinesKeep, Tag
    PROVE  BaselinesKeep'
<1>1. shipped' = main'.baseline /\ shipped'.version = main'.heading /\ ~rel'.on
  BY Tagged
<1>2. KeptSince(shipped.surface)'
  <2>1. shipped'.surface \in Surfaces
    BY DEF IInv, TypeOK, Baseline
  <2> QED BY <2>1, SurfaceKeepsItself DEF KeptSince
<1> QED BY <1>1, <1>2 DEF BaselinesKeep, KeepsFor

LEMMA BaselinesStep ==
    ASSUME IInv, BaselinesKeep, [Next]_vars
    PROVE  BaselinesKeep'
<1>1. CASE Branch \/ Check
  <2>1. main' = main /\ rel' = rel /\ shipped' = shipped /\ printed' = printed
    BY <1>1 DEF Branch, Check
  <2> QED BY <2>1 DEF BaselinesKeep, KeepsFor, KeptSince
<1>2. CASE UNCHANGED vars
  BY <1>2 DEF vars, BaselinesKeep, KeepsFor, KeptSince
<1>3. IInv'
  BY StepKeeps
<1> QED BY <1>1, <1>2, <1>3, MergeKeepsAll, PrepareKeepsAll, WriteKeepsAll, EditKeepsAll,
           RebaseKeepsAll, LandKeepsAll, TagKeepsAll DEF Next

\* For any items, schemas, versions and pull requests, and however often the
\* baseline was relabelled, restored or written again: a release that is no
\* new major serves every caller of the one before it, but for the items
\* schema-baseline noted.
THEOREM CallersAreKept == Spec => MinorKeepsCallers
<1>1. Init => BaselinesKeep
  <2> SUFFICES ASSUME Init PROVE BaselinesKeep
    OBVIOUS
  <2>1. main.baseline = shipped /\ main.heading = shipped.version /\ ~rel.on
    BY DEF Init, NotPreparing
  <2> QED BY <2>1, InitHolds, KeepsItself DEF BaselinesKeep, KeepsFor, IInv
<1>2. IInv /\ BaselinesKeep /\ [Next]_vars => BaselinesKeep'
  BY BaselinesStep
<1>3. IInv /\ BaselinesKeep /\ [Next]_vars =>
        [shipped' # shipped /\ ~NewMajor(shipped.version, shipped'.version)
           => ServesOld(shipped.surface, shipped'.surface)]_vars
  <2> SUFFICES ASSUME IInv, BaselinesKeep, Next, shipped' # shipped,
                      ~NewMajor(shipped.version, shipped'.version)
               PROVE  ServesOld(shipped.surface, shipped'.surface)
    BY DEF vars
  <2>1. Tag
    BY DEF Next, Branch, Check, Merge, Prepare, WriteBaseline, EditBaseline, Rebase, Land
  <2>2. KeptSince(shipped'.surface)
    BY <2>1, Tagged DEF KeepsFor
  <2>3. shipped.surface \in Surfaces /\ shipped'.surface \in Surfaces
    BY StepKeeps DEF IInv, TypeOK, Baseline
  <2>4. ASSUME NEW i \in DOMAIN shipped.surface, i \notin printed
        PROVE  Serves[shipped.surface[i]][shipped'.surface[i]]
    <3>1. /\ shipped.surface[i] \in DOMAIN Schema /\ shipped'.surface[i] \in DOMAIN Schema
          /\ Compatible(Schema[shipped.surface[i]], Schema[shipped'.surface[i]])
      BY <2>2, <2>3, <2>4, SurfaceIs DEF KeptSince
    <3> QED BY <3>1, CompatibleServes DEF Serves
  <2> QED BY <2>2, <2>4 DEF ServesOld, KeptSince
<1> QED BY <1>1, <1>2, <1>3, InitHolds, StepKeeps, PTL DEF Spec, MinorKeepsCallers


-----------------------------------------------------------------------------
(* What the switches are, whatever was written.                            *)

\* A configuration within what was written.
Within(cfg, wrote) ==
    /\ wrote.readOnly => cfg.readOnly
    /\ wrote.noSharing => ~cfg.sharing
    /\ cfg.destructive => wrote.destructive
    /\ cfg.declineAll => wrote.declineAll

LEMMA BuiltAsWritten ==
    ASSUME NEW raw \in RawSettings, NEW cfg \in Build(raw)
    PROVE  cfg \in Configs /\ Within(cfg, Wrote(raw))
<1> DEFINE readOnly == Winner(raw.readOnly, "off")
           destructive == Winner(raw.destructive, "off")
           sharing == Winner(raw.sharing, "on")
           declineAll == Winner(raw.declineAll, "off")
<1>1. /\ cfg = [readOnly |-> On(readOnly), destructive |-> On(destructive),
                sharing |-> OnOrUnsaid(sharing), declineAll |-> On(declineAll)]
      /\ RemovedSet(raw) = {}
  BY DEF Build
<1>2. cfg \in Configs
  <2>1. \A v : On(v) \in BOOLEAN /\ OnOrUnsaid(v) \in BOOLEAN
    BY DEF On, OnOrUnsaid
  <2> HIDE DEF readOnly, destructive, sharing, declineAll
  <2> QED BY <1>1, <2>1 DEF Configs
<1>3. raw.removed.READONLY \in {"", "off"}
  BY <1>1, SettingsRead DEF RemovedSet, SettingsRead, RemovedSettings
<1>4. /\ cfg.readOnly = (readOnly = "on") /\ cfg.destructive = (destructive = "on")
      /\ cfg.sharing = (sharing \in {"", "on"}) /\ cfg.declineAll = (declineAll = "on")
  BY <1>1 DEF On, OnOrUnsaid
<1>5. SaysOn(raw.readOnly) => readOnly = "on"
  BY DEF SaysOn, Winner
<1>6. SaysOff(raw.sharing) => sharing = "off"
  BY DEF SaysOff, Winner
<1>7. (destructive = "on" => SaysOn(raw.destructive)) /\ (declineAll = "on" => SaysOn(raw.declineAll))
  BY DEF SaysOn, Winner
<1> HIDE DEF readOnly, destructive, sharing, declineAll
<1> QED BY <1>2, <1>3, <1>4, <1>5, <1>6, <1>7 DEF Within, Wrote

-----------------------------------------------------------------------------
(* What steps send.                                                        *)

Tries(step) == {step.try[j] : j \in DOMAIN step.try}
TriesOf(steps) == UNION {Tries(steps[i]) : i \in DOMAIN steps}

LEMMA SentIsTried ==
    ASSUME NEW steps, NEW tok, NEW access, NEW down
    PROVE  Sent(steps, tok, access, down) \subseteq TriesOf(steps)
<1>1. \A i \in DOMAIN steps : Tried(steps[i], tok, access, down) \subseteq Tries(steps[i])
  BY DEF Tried, Tries
<1>2. Ran(steps, tok, access, down) \subseteq DOMAIN steps
  BY DEF Ran
<1> QED BY <1>1, <1>2 DEF Sent, TriesOf

\* One step's requests: one, or both that resolve a calendar.
LEMMA StepTries ==
    /\ \A m : Tries(Must(m)) = {m} /\ Tries(May(m)) = {m}
    /\ Tries(Resolve) = {"calendarList.get", "calendars.get"}
    /\ Tries(UserZone) = {"settings.list"}
<1>1. \A m : DOMAIN <<m>> = {1} /\ <<m>>[1] = m
  OBVIOUS
<1>2. \A m : Tries(Must(m)) = {m} /\ Tries(May(m)) = {m}
  BY <1>1 DEF Tries, Must, May
<1>3. Tries(Resolve) = {"calendarList.get", "calendars.get"}
  <2> DEFINE two == <<"calendarList.get", "calendars.get">>
  <2>1. DOMAIN two = {1, 2} /\ two[1] = "calendarList.get" /\ two[2] = "calendars.get"
    OBVIOUS
  <2>2. Resolve.try = two
    BY DEF Resolve
  <2> HIDE DEF two
  <2> QED BY <2>1, <2>2 DEF Tries
<1> QED BY <1>2, <1>3 DEF UserZone

\* The steps of a list, of a longer one and of two.
LEMMA ListTries ==
    /\ TriesOf(<<>>) = {}
    /\ \A a : TriesOf(<<a>>) = Tries(a)
    /\ \A a, b : TriesOf(<<a, b>>) = Tries(a) \union Tries(b)
    /\ \A a, b, c : TriesOf(<<a, b, c>>) = Tries(a) \union Tries(b) \union Tries(c)
<1>1. TriesOf(<<>>) = {}
  BY DEF TriesOf
<1>2. ASSUME NEW a PROVE TriesOf(<<a>>) = Tries(a)
  <2>1. DOMAIN <<a>> = {1} /\ <<a>>[1] = a
    OBVIOUS
  <2> QED BY <2>1 DEF TriesOf
<1>3. ASSUME NEW a, NEW b PROVE TriesOf(<<a, b>>) = Tries(a) \union Tries(b)
  <2>1. DOMAIN <<a, b>> = {1, 2} /\ <<a, b>>[1] = a /\ <<a, b>>[2] = b
    OBVIOUS
  <2> QED BY <2>1 DEF TriesOf
<1>4. ASSUME NEW a, NEW b, NEW c
      PROVE  TriesOf(<<a, b, c>>) = Tries(a) \union Tries(b) \union Tries(c)
  <2>1. DOMAIN <<a, b, c>> = {1, 2, 3}
        /\ <<a, b, c>>[1] = a /\ <<a, b, c>>[2] = b /\ <<a, b, c>>[3] = c
    OBVIOUS
  <2> QED BY <2>1 DEF TriesOf
<1> QED BY <1>1, <1>2, <1>3, <1>4

LEMMA JoinTries ==
    ASSUME NEW S, NEW s \in Seq(S), NEW w \in Seq(S)
    PROVE  TriesOf(s \o w) = TriesOf(s) \union TriesOf(w)
<1>1. /\ DOMAIN s = 1 .. Len(s) /\ DOMAIN w = 1 .. Len(w) /\ Len(s) \in Nat /\ Len(w) \in Nat
      /\ DOMAIN (s \o w) = 1 .. Len(s) + Len(w)
      /\ \A i \in 1 .. Len(s) : (s \o w)[i] = s[i]
      /\ \A i \in 1 .. Len(w) : (s \o w)[Len(s) + i] = w[i]
  OBVIOUS
<1>2. \A i \in 1 .. Len(s) + Len(w) : i \in 1 .. Len(s) \/ \E j \in 1 .. Len(w) : i = Len(s) + j
  <2> TAKE i \in 1 .. Len(s) + Len(w)
  <2>1. i \in 1 .. Len(s) \/ (i - Len(s) \in 1 .. Len(w) /\ i = Len(s) + (i - Len(s)))
    BY <1>1
  <2> QED BY <2>1
<1>3. \A j \in 1 .. Len(w) : Len(s) + j \in 1 .. Len(s) + Len(w)
  BY <1>1
<1>4. \A i \in 1 .. Len(s) : i \in 1 .. Len(s) + Len(w)
  BY <1>1
<1> DEFINE both == s \o w
<1>5. /\ DOMAIN both = 1 .. Len(s) + Len(w)
      /\ \A i \in 1 .. Len(s) : both[i] = s[i]
      /\ \A i \in 1 .. Len(w) : both[Len(s) + i] = w[i]
  BY <1>1
<1> HIDE DEF both
<1>6. TriesOf(both) \subseteq TriesOf(s) \union TriesOf(w)
  <2> SUFFICES ASSUME NEW i \in 1 .. Len(s) + Len(w)
               PROVE  Tries(both[i]) \subseteq TriesOf(s) \union TriesOf(w)
    BY <1>5 DEF TriesOf
  <2>1. CASE i \in 1 .. Len(s)
    BY <1>1, <1>5, <2>1 DEF TriesOf
  <2>2. CASE \E j \in 1 .. Len(w) : i = Len(s) + j
    BY <1>1, <1>5, <2>2 DEF TriesOf
  <2> QED BY <1>2, <2>1, <2>2
<1>7. TriesOf(s) \subseteq TriesOf(both)
  BY <1>1, <1>4, <1>5 DEF TriesOf
<1>8. TriesOf(w) \subseteq TriesOf(both)
  BY <1>1, <1>3, <1>5 DEF TriesOf
<1> QED BY <1>6, <1>7, <1>8 DEF both

Steps == {Must(m) : m \in Methods} \union {May(m) : m \in Methods} \union {Resolve}

LEMMA AddTries ==
    ASSUME NEW s \in Seq(Steps), NEW a \in Steps
    PROVE  /\ Append(s, a) \in Seq(Steps)
           /\ TriesOf(Append(s, a)) = TriesOf(s) \union Tries(a)
<1>1. Append(s, a) = s \o <<a>> /\ <<a>> \in Seq(Steps)
  OBVIOUS
<1>2. TriesOf(s \o <<a>>) = TriesOf(s) \union TriesOf(<<a>>)
  BY <1>1, JoinTries
<1>3. TriesOf(<<a>>) = Tries(a)
  BY ListTries
<1> QED BY <1>1, <1>2, <1>3

-----------------------------------------------------------------------------
(* The tools' kinds and requests.                                          *)

LEMMA Kinds ==
    /\ \A t \in ReadTools : KindOf[t] = "Read"
    /\ \A t \in {"create_event", "create_calendar"} : KindOf[t] = "Adding"
    /\ \A t \in {"update_event", "cancel_event", "respond_to_event", "manage_calendar"} :
         KindOf[t] = "IdempotentWrite"
    /\ \A t \in {"share_calendar", "unshare_calendar"} : KindOf[t] = "Sharing"
    /\ \A t \in {"publish_calendar", "widen_calendar_access"} : KindOf[t] = "WideSharing"
    /\ \A t \in {"delete_calendar", "clear_calendar"} : KindOf[t] = "Destructive"
    /\ KindOf["move_event"] = "Write" /\ KindOf["list_sharing"] = "SharingRead"
    /\ KindOf["create_event_declining_all"] = "DecliningAll"
BY DEF KindOf, Tools, ReadTools, WriteTools

SharingTools == {"list_sharing", "share_calendar", "widen_calendar_access", "unshare_calendar",
                 "publish_calendar"}

LEMMA ReadRequests ==
    ASSUME NEW t \in Tools
    PROVE  /\ ReadSteps(t) \in Seq(Steps)
           /\ TriesOf(ReadSteps(t)) \subseteq Reads
           /\ "acl.list" \in TriesOf(ReadSteps(t)) => t \in SharingTools
<1>1. /\ \A m \in Methods : Must(m) \in Steps /\ May(m) \in Steps
      /\ Resolve \in Steps
      /\ UserZone \in Steps
  BY DEF Steps, UserZone, Methods, Reads
<1>2. Reads \subseteq Methods
  BY DEF Methods
<1>3. /\ PrepareWrite \in Seq(Steps) /\ OwnCalendar \in Seq(Steps)
      /\ TriesOf(PrepareWrite) = {"calendarList.list", "calendarList.get", "calendars.get", "settings.list"}
      /\ TriesOf(OwnCalendar) = {"calendarList.list", "calendarList.get", "calendars.get"}
  <2>1. May("calendarList.list") \in Steps
    BY <1>1, <1>2 DEF Reads
  <2>2. PrepareWrite \in Seq(Steps) /\ OwnCalendar \in Seq(Steps)
    BY <1>1, <2>1 DEF PrepareWrite, OwnCalendar
  <2>3. TriesOf(PrepareWrite) = {"calendarList.list", "calendarList.get", "calendars.get", "settings.list"}
    BY StepTries, ListTries DEF PrepareWrite
  <2>4. TriesOf(OwnCalendar) = {"calendarList.list", "calendarList.get", "calendars.get"}
    BY StepTries, ListTries DEF OwnCalendar
  <2> QED BY <2>2, <2>3, <2>4
<1>4. \A m \in Reads : Must(m) \in Steps /\ May(m) \in Steps /\ Tries(Must(m)) = {m} /\ Tries(May(m)) = {m}
  BY <1>1, <1>2, StepTries
<1>5. CASE t = "list_calendars"
  <2>1. ReadSteps(t) = <<Must("calendarList.list")>>
    BY <1>5 DEF ReadSteps
  <2> QED BY <1>4, <2>1, ListTries DEF Reads
<1>6. CASE t \in {"list_events", "search_events", "list_changes", "get_event", "list_instances",
                  "check_availability"}
  <2>1. PICK m \in {"events.list", "events.get", "events.instances", "freebusy.query"} :
          ReadSteps(t) = <<Resolve, UserZone, Must(m)>>
    BY <1>6 DEF ReadSteps
  <2>2. m \in Reads
    BY DEF Reads
  <2>3. Must(m) \in Steps /\ Tries(Must(m)) = {m}
    BY <1>4, <2>2
  <2>4. TriesOf(ReadSteps(t)) = {"calendarList.get", "calendars.get", "settings.list", m}
    BY <2>1, <2>3, StepTries, ListTries
  <2>5. ReadSteps(t) \in Seq(Steps)
    BY <1>1, <2>1, <2>3
  <2> QED BY <2>1, <2>4, <2>5 DEF Reads
<1>7. CASE t = "get_settings"
  <2>1. ReadSteps(t) = <<Must("settings.list"), May("colors.get")>>
    BY <1>7 DEF ReadSteps
  <2>2. "settings.list" \in Reads /\ "colors.get" \in Reads
    BY DEF Reads
  <2>3. ReadSteps(t) \in Seq(Steps)
    BY <1>4, <2>1, <2>2
  <2>4. TriesOf(ReadSteps(t)) = {"settings.list", "colors.get"}
    BY <1>4, <2>1, <2>2, ListTries
  <2> QED BY <2>2, <2>3, <2>4
<1>8. CASE t \in {"create_event", "create_event_declining_all"}
  <2>1. ReadSteps(t) = PrepareWrite
    BY <1>8 DEF ReadSteps
  <2> QED BY <1>3, <2>1 DEF Reads
<1>9. CASE t \in {"update_event", "cancel_event", "respond_to_event", "move_event"}
  <2>1. ReadSteps(t) = Append(PrepareWrite, Must("events.get"))
    BY <1>9 DEF ReadSteps
  <2>2. Must("events.get") \in Steps /\ Tries(Must("events.get")) = {"events.get"}
    BY <1>4 DEF Reads
  <2> QED BY <1>3, <2>1, <2>2, AddTries DEF Reads
<1>10. CASE t = "create_calendar"
  <2>1. ReadSteps(t) = <<UserZone>>
    BY <1>10 DEF ReadSteps
  <2> QED BY <1>1, <2>1, StepTries, ListTries DEF Reads
<1>11. CASE t = "list_sharing"
  <2>1. ReadSteps(t) = <<Resolve, Must("acl.list")>>
    BY <1>11 DEF ReadSteps
  <2>2. Must("acl.list") \in Steps /\ Tries(Must("acl.list")) = {"acl.list"}
    BY <1>4 DEF Reads
  <2>3. ReadSteps(t) \in Seq(Steps)
    BY <1>1, <2>1, <2>2
  <2>4. TriesOf(ReadSteps(t)) = {"calendarList.get", "calendars.get", "acl.list"}
    BY <2>1, <2>2, StepTries, ListTries
  <2> QED BY <1>11, <2>3, <2>4 DEF Reads, SharingTools
<1>12. CASE t \in {"share_calendar", "widen_calendar_access", "unshare_calendar"}
  <2>1. ReadSteps(t) = Append(OwnCalendar, Must("acl.list"))
    BY <1>12 DEF ReadSteps
  <2>2. Must("acl.list") \in Steps /\ Tries(Must("acl.list")) = {"acl.list"}
    BY <1>4 DEF Reads
  <2> QED BY <1>3, <1>12, <2>1, <2>2, AddTries DEF Reads, SharingTools
<1>13. CASE t = "publish_calendar"
  <2>1. ReadSteps(t) = OwnCalendar
    BY <1>13 DEF ReadSteps
  <2> QED BY <1>3, <2>1 DEF Reads
<1>14. CASE t \in {"list_calendars", "get_calendar", "manage_calendar", "delete_calendar",
                   "clear_calendar"} \ {"list_calendars"}
  <2>1. ReadSteps(t) = <<Resolve>>
    BY <1>14 DEF ReadSteps
  <2> QED BY <1>1, <2>1, StepTries, ListTries DEF Reads
<1> QED BY <1>5, <1>6, <1>7, <1>8, <1>9, <1>10, <1>11, <1>12, <1>13, <1>14
        DEF Tools, ReadTools, WriteTools

Writes == EventWrites \union CalendarWrites \union ListWrites \union AclWrites

\* What a tool's writes are, by its kind.
WritesAs(t, sent) ==
    /\ sent \subseteq Reads \union Writes
    /\ KindOf[t] \in {"Read", "SharingRead"} => sent \subseteq Reads
    /\ KindOf[t] = "Adding" => sent \subseteq Reads \union Inserts
    /\ sent \intersect AclWrites # {} => KindOf[t] \in {"Sharing", "WideSharing"}
    /\ sent \intersect WideWrites # {} => KindOf[t] = "WideSharing"
    /\ sent \intersect Unrecoverable # {} => t \in {"delete_calendar", "clear_calendar"}
    /\ "events.insert declining all" \in sent =>
         KindOf[t] = "DecliningAll" \/ t = "update_event"

\* A write of no request, of one or of two.
LEMMA WriteLists ==
    ASSUME NEW m \in Methods, NEW n \in Methods
    PROVE  /\ <<>> \in Seq(Steps) /\ TriesOf(<<>>) = {}
           /\ <<Must(m)>> \in Seq(Steps) /\ TriesOf(<<Must(m)>>) = {m}
           /\ <<Must(m), Must(n)>> \in Seq(Steps) /\ TriesOf(<<Must(m), Must(n)>>) = {m, n}
           /\ <<Must(m), May(n)>> \in Seq(Steps) /\ TriesOf(<<Must(m), May(n)>>) = {m, n}
<1>1. Must(m) \in Steps /\ Must(n) \in Steps /\ May(n) \in Steps
  BY DEF Steps
<1>2. Tries(Must(m)) = {m} /\ Tries(Must(n)) = {n} /\ Tries(May(n)) = {n}
  BY StepTries
<1>3. <<>> \in Seq(Steps) /\ <<Must(m)>> \in Seq(Steps)
      /\ <<Must(m), Must(n)>> \in Seq(Steps) /\ <<Must(m), May(n)>> \in Seq(Steps)
  BY <1>1
<1>4. TriesOf(<<>>) = {} /\ TriesOf(<<Must(m)>>) = {m}
  BY <1>2, ListTries
<1>5. TriesOf(<<Must(m), Must(n)>>) = {m, n} /\ TriesOf(<<Must(m), May(n)>>) = {m, n}
  BY <1>2, ListTries
<1> QED BY <1>3, <1>4, <1>5

LEMMA WriteOf ==
    ASSUME NEW S \in SUBSET Methods, NEW m \in S, NEW n \in S, NEW w,
           \/ w = <<>> \/ w = <<Must(m)>>
           \/ w = <<Must(m), Must(n)>> \/ w = <<Must(m), May(n)>>
    PROVE  w \in Seq(Steps) /\ TriesOf(w) \subseteq S
<1>0. /\ <<>> \in Seq(Steps) /\ TriesOf(<<>>) = {}
      /\ <<Must(m)>> \in Seq(Steps) /\ TriesOf(<<Must(m)>>) = {m}
      /\ <<Must(m), Must(n)>> \in Seq(Steps) /\ TriesOf(<<Must(m), Must(n)>>) = {m, n}
      /\ <<Must(m), May(n)>> \in Seq(Steps) /\ TriesOf(<<Must(m), May(n)>>) = {m, n}
  <2>1. m \in Methods /\ n \in Methods
    OBVIOUS
  <2> QED BY <2>1, WriteLists
<1>1. CASE w = <<>>
  BY <1>0, <1>1
<1>2. CASE w = <<Must(m)>>
  BY <1>0, <1>2
<1>3. CASE w = <<Must(m), Must(n)>>
  BY <1>0, <1>3
<1>4. CASE w = <<Must(m), May(n)>>
  BY <1>0, <1>4
<1> QED BY <1>1, <1>2, <1>3, <1>4

LEMMA WriteRequests ==
    ASSUME NEW t \in Tools, NEW w \in WriteSteps(t)
    PROVE  /\ w \in Seq(Steps) /\ WritesAs(t, TriesOf(w))
           /\ "acl.list" \in TriesOf(w) => t \in SharingTools
<1>0. {"events.insert", "events.insert declining all", "events.patch", "events.delete",
       "events.move", "events.get", "calendars.get", "calendars.insert", "calendars.patch",
       "calendars.delete", "calendars.clear", "calendarList.get", "calendarList.insert",
       "calendarList.patch", "calendarList.delete", "acl.list", "acl.insert", "acl.patch",
       "acl.delete", "acl.insert wide", "acl.patch wide"} \subseteq Methods
  BY DEF Methods, Reads, EventWrites, CalendarWrites, ListWrites, AclWrites, WideWrites,
         Unrecoverable
<1>1. CASE t \in {"create_event", "create_event_declining_all", "create_calendar",
                  "unshare_calendar", "respond_to_event", "cancel_event"}
  <2>1. PICK m \in Methods :
           /\ w = <<Must(m)>>
           /\ t = "create_event" => m = "events.insert"
           /\ t = "create_event_declining_all" => m = "events.insert declining all"
           /\ t = "create_calendar" => m = "calendars.insert"
           /\ t = "unshare_calendar" => m = "acl.delete"
           /\ t = "respond_to_event" => m = "events.patch"
           /\ t = "cancel_event" => m \in {"events.patch", "events.delete"}
    BY <1>0, <1>1 DEF WriteSteps
  <2>2. w \in Seq(Steps) /\ TriesOf(w) = {m}
    BY <1>0, <2>1, WriteLists
  <2> QED BY <1>1, <2>1, <2>2, Kinds DEF WritesAs, Writes, Inserts, Reads, EventWrites,
        CalendarWrites, ListWrites, AclWrites, WideWrites, Unrecoverable, SharingTools
<1>2. CASE t \in {"update_event", "move_event"}
  <2> DEFINE S == IF t = "update_event"
                  THEN {"events.patch", "events.insert", "events.insert declining all"}
                  ELSE {"events.move", "events.get"}
  <2>1. PICK m \in S, n \in S :
           \/ w = <<>> \/ w = <<Must(m)>>
           \/ w = <<Must(m), Must(n)>> \/ w = <<Must(m), May(n)>>
    <3>1. CASE t = "update_event"
      BY <3>1 DEF WriteSteps
    <3>2. CASE t = "move_event"
      BY <3>2 DEF WriteSteps
    <3> QED BY <1>2, <3>1, <3>2
  <2>2. S \in SUBSET Methods
    BY <1>0
  <2> HIDE DEF S
  <2>3. w \in Seq(Steps) /\ TriesOf(w) \subseteq S
    BY <2>1, <2>2, WriteOf
  <2> QED BY <1>2, <2>3, Kinds DEF S, WritesAs, Writes, Inserts, Reads, EventWrites,
        CalendarWrites, ListWrites, AclWrites, WideWrites, Unrecoverable, SharingTools
<1>3. CASE t = "manage_calendar"
  <2> DEFINE S == {"calendarList.delete", "calendarList.insert", "calendars.get",
              "calendars.patch", "calendarList.get", "calendarList.patch"}
  <2>1. PICK m \in S, n \in S :
           \/ w = <<>> \/ w = <<Must(m)>>
           \/ w = <<Must(m), Must(n)>> \/ w = <<Must(m), May(n)>>
    BY <1>3 DEF WriteSteps
  <2>2. S \in SUBSET Methods
    BY <1>0
  <2> HIDE DEF S
  <2>3. w \in Seq(Steps) /\ TriesOf(w) \subseteq S
    BY <2>1, <2>2, WriteOf
  <2> QED BY <1>3, <2>3, Kinds DEF S, WritesAs, Writes, Inserts, Reads, EventWrites,
        CalendarWrites, ListWrites, AclWrites, WideWrites, Unrecoverable, SharingTools
<1>4. CASE t = "share_calendar"
  <2> DEFINE S == {"acl.patch", "acl.insert"}
  <2>1. PICK m \in S, n \in S :
           \/ w = <<>> \/ w = <<Must(m)>>
           \/ w = <<Must(m), Must(n)>> \/ w = <<Must(m), May(n)>>
    BY <1>4 DEF WriteSteps
  <2>2. S \in SUBSET Methods
    BY <1>0
  <2> HIDE DEF S
  <2>3. w \in Seq(Steps) /\ TriesOf(w) \subseteq S
    BY <2>1, <2>2, WriteOf
  <2> QED BY <1>4, <2>3, Kinds DEF S, WritesAs, Writes, Inserts, Reads, EventWrites,
        CalendarWrites, ListWrites, AclWrites, WideWrites, Unrecoverable, SharingTools
<1>5. CASE t \in {"publish_calendar", "widen_calendar_access"}
  <2> DEFINE S == {"acl.list", "acl.patch wide", "acl.insert wide"}
  <2>1. PICK m \in S, n \in S :
           \/ w = <<>> \/ w = <<Must(m)>>
           \/ w = <<Must(m), Must(n)>> \/ w = <<Must(m), May(n)>>
    BY <1>5 DEF WriteSteps
  <2>2. S \in SUBSET Methods
    BY <1>0
  <2> HIDE DEF S
  <2>3. w \in Seq(Steps) /\ TriesOf(w) \subseteq S
    BY <2>1, <2>2, WriteOf
  <2> QED BY <1>5, <2>3, Kinds DEF S, WritesAs, Writes, Inserts, Reads, EventWrites,
        CalendarWrites, ListWrites, AclWrites, WideWrites, Unrecoverable, SharingTools
<1>6. CASE t \in {"delete_calendar", "clear_calendar"}
  <2> DEFINE S == {"calendars.get", "calendars.delete", "calendars.clear"}
  <2>1. PICK m \in S, n \in S :
           \/ w = <<>> \/ w = <<Must(m)>>
           \/ w = <<Must(m), Must(n)>> \/ w = <<Must(m), May(n)>>
    BY <1>6 DEF WriteSteps
  <2>2. S \in SUBSET Methods
    BY <1>0
  <2> HIDE DEF S
  <2>3. w \in Seq(Steps) /\ TriesOf(w) \subseteq S
    BY <2>1, <2>2, WriteOf
  <2> QED BY <1>6, <2>3, Kinds DEF S, WritesAs, Writes, Inserts, Reads, EventWrites,
        CalendarWrites, ListWrites, AclWrites, WideWrites, Unrecoverable, SharingTools
<1>7. CASE t \in ReadTools \union {"list_sharing"}
  <2>1. w = <<>>
    BY <1>7 DEF WriteSteps, ReadTools
  <2>2. w \in Seq(Steps) /\ TriesOf(w) = {}
    BY <2>1, ListTries
  <2> QED BY <2>2 DEF WritesAs
<1> QED BY <1>1, <1>2, <1>3, <1>4, <1>5, <1>6, <1>7 DEF Tools, ReadTools, WriteTools

-----------------------------------------------------------------------------
(* A grant with every scope asked for carries every request of the tools.   *)

LEMMA ScopesAccepted ==
    /\ \A m \in Reads \ {"acl.list"} : "readonly" \in Accepted[m]
    /\ "acls.readonly" \in Accepted["acl.list"]
    /\ \A m \in EventWrites : "events" \in Accepted[m]
    /\ \A m \in CalendarWrites : "calendars" \in Accepted[m]
    /\ \A m \in ListWrites : "calendarlist" \in Accepted[m]
    /\ \A m \in AclWrites : "acls" \in Accepted[m]
<1> USE DEF Methods, Reads, EventWrites, CalendarWrites, ListWrites, AclWrites, WideWrites,
            Unrecoverable
<1>1. \A m \in Reads \ {"acl.list"} : "readonly" \in Accepted[m]
  BY DEF Accepted
<1>2. "acls.readonly" \in Accepted["acl.list"]
  BY DEF Accepted
<1>3. \A m \in EventWrites : "events" \in Accepted[m]
  BY DEF Accepted
<1>4. \A m \in CalendarWrites : "calendars" \in Accepted[m]
  BY DEF Accepted
<1>5. \A m \in ListWrites : "calendarlist" \in Accepted[m]
  BY DEF Accepted
<1>6. \A m \in AclWrites : "acls" \in Accepted[m]
  BY DEF Accepted
<1> QED BY <1>1, <1>2, <1>3, <1>4, <1>5, <1>6

\* Some scope of the configuration is one Google accepts for it.
Carried(m, cfg) == Accepted[m] \intersect Scopes(cfg) # {}

LEMMA ConfiguredCarries ==
    ASSUME NEW cfg \in Configs
    PROVE  /\ \A m \in Reads : (m = "acl.list" => cfg.sharing) => Carried(m, cfg)
           /\ \A m \in Writes :
                ~cfg.readOnly /\ (m \in AclWrites => cfg.sharing) => Carried(m, cfg)
<1>1. /\ "readonly" \in Scopes(cfg)
      /\ cfg.sharing => "acls.readonly" \in Scopes(cfg)
      /\ ~cfg.readOnly => {"events", "calendars", "calendarlist"} \subseteq Scopes(cfg)
      /\ ~cfg.readOnly /\ cfg.sharing => "acls" \in Scopes(cfg)
  BY DEF Scopes
<1> QED BY <1>1, ScopesAccepted DEF Carried, Writes

LEMMA LastIsTried ==
    ASSUME NEW step \in Steps
    PROVE  Last(step.try) \in Tries(step)
<1>1. ASSUME NEW m PROVE Last(Must(m).try) = m /\ Last(May(m).try) = m
  <2>1. Must(m).try = <<m>> /\ May(m).try = <<m>>
    BY DEF Must, May
  <2>2. Len(<<m>>) = 1 /\ <<m>>[1] = m
    OBVIOUS
  <2> QED BY <2>1, <2>2 DEF Last
<1>2. Last(Resolve.try) = "calendars.get"
  <2> DEFINE two == <<"calendarList.get", "calendars.get">>
  <2>1. Resolve.try = two
    BY DEF Resolve
  <2>2. Len(two) = 2 /\ two[2] = "calendars.get"
    OBVIOUS
  <2> HIDE DEF two
  <2> QED BY <2>1, <2>2 DEF Last
<1>3. CASE \E m \in Methods : step = Must(m) \/ step = May(m)
  BY <1>1, <1>3, StepTries
<1>4. CASE step = Resolve
  BY <1>2, <1>4, StepTries
<1> QED BY <1>3, <1>4 DEF Steps

\* An answer that the grant is missing, or too small, is no mistake.
LEMMA AuthIsTrue ==
    ASSUME NEW steps \in Seq(Steps), NEW tok, NEW access, NEW down, NEW cfg,
           \A m \in TriesOf(steps) : Carried(m, cfg),
           grants[tok].honoured,
           MissingScopes(grants[tok].scopes, Scopes(cfg)) = {}
    PROVE  Answer(steps, tok, access, down) # "auth"
<1>1. \A m \in TriesOf(steps) : Outcome(m, tok, access, down) # "auth"
  BY DEF Carried, MissingScopes, Outcome
<1> DEFINE failing == Failing(steps, tok, access, down)
           first == CHOOSE n \in failing : \A j \in failing : n <= j
<1>2. failing \in SUBSET Nat /\ failing \subseteq DOMAIN steps
  BY DEF Failing
<1>3. Answer(steps, tok, access, down)
        = IF failing = {} THEN "ok" ELSE Outcome(Last(steps[first].try), tok, access, down)
  BY DEF Answer
<1> HIDE DEF failing
<1>4. CASE failing # {}
  <2>1. \E n \in failing : \A j \in failing : n <= j
    BY <1>2, <1>4, Least
  <2>2. first \in DOMAIN steps
    BY <1>2, <2>1
  <2> HIDE DEF first
  <2>3. steps[first] \in Steps
    BY <2>2
  <2>4. Last(steps[first].try) \in Tries(steps[first])
    BY <2>3, LastIsTried
  <2>5. Last(steps[first].try) \in TriesOf(steps)
    BY <2>2, <2>4 DEF TriesOf
  <2> QED BY <1>1, <1>3, <1>4, <2>5
<1> QED BY <1>3, <1>4

-----------------------------------------------------------------------------
(* The inductive invariant.                                                *)

ServerInv == ServerTypeOK /\ (server.up => Within(server.cfg, server.wrote))

LEMMA ServerIs ==
    ASSUME ServerTypeOK, server.up
    PROVE  server \in Servers
<1>1. NoServer.up = FALSE
  BY DEF NoServer
<1> QED BY <1>1 DEF ServerTypeOK

LEMMA AnswerIs ==
    ASSUME NEW steps, NEW tok, NEW access, NEW down
    PROVE  Answer(steps, tok, access, down) \in {"ok", "auth", "unavailable"}
<1>1. \A m : Outcome(m, tok, access, down) \in {"ok", "auth", "unavailable"}
  BY DEF Outcome
<1> QED BY <1>1 DEF Answer

LEMMA TriesAreMethods ==
    ASSUME NEW steps \in Seq(Steps)
    PROVE  TriesOf(steps) \subseteq Methods
<1>1. Resolve \in Steps /\ Tries(Resolve) \subseteq Methods
  BY StepTries DEF Steps, Methods, Reads
<1>2. \A step \in Steps : Tries(step) \subseteq Methods
  <2> TAKE step \in Steps
  <2>1. CASE step \in {Must(m) : m \in Methods}
    BY <2>1, StepTries
  <2>2. CASE step \in {May(m) : m \in Methods}
    BY <2>2, StepTries
  <2> QED BY <1>1, <2>1, <2>2 DEF Steps
<1> QED BY <1>2 DEF TriesOf

\* What failed for a moment of a call that sent these requests.
FailedOf(sent, down) ==
    (sent \union (IF server.access THEN {} ELSE {"exchange"})) \intersect down

\* What a call that reaches Google leaves.
LEMMA ServeIs ==
    ASSUME ServerTypeOK, server.up, server.token \in Tokens, NEW steps, NEW name, NEW arg,
           NEW refusal, NEW note, NEW down, Serve(name, arg, steps, refusal, note, down)
    PROVE  LET sent == Sent(steps, server.token, server.access, down)
               answer == Answer(steps, server.token, server.access, down)
           IN  /\ server' \in Servers
               /\ server'.cfg = server.cfg /\ server'.wrote = server.wrote
               /\ server'.token = server.token /\ server'.zone = ZoneKept(sent, down)
               /\ call' = [name |-> name, arg |-> arg, sent |-> sent,
                           failed |-> FailedOf(sent, down),
                           answer |-> IF answer = "ok" THEN refusal ELSE answer, note |-> note]
<1> DEFINE sent == Sent(steps, server.token, server.access, down)
<1>1. server \in Servers
  BY ServerIs
<1>2. grants[server.token].honoured \in BOOLEAN
  BY DEF ServerTypeOK
<1>3. ZoneKept(sent, down) \in {"unread", "named", "unnamed"}
  BY <1>1 DEF ZoneKept, Servers
<1>4. server' = [server EXCEPT !.access = Connects(server.token, server.access, down),
                               !.zone = ZoneKept(sent, down)]
  BY DEF Serve
<1> HIDE DEF sent
<1>5. Connects(server.token, server.access, down) \in BOOLEAN
  BY <1>1, <1>2 DEF Servers, Connects
<1>6. /\ server' \in Servers
      /\ server'.cfg = server.cfg /\ server'.wrote = server.wrote
      /\ server'.token = server.token /\ server'.zone = ZoneKept(sent, down)
  BY <1>1, <1>3, <1>4, <1>5 DEF Servers
<1> QED BY <1>6 DEF Serve, Record, FailedOf, sent

-----------------------------------------------------------------------------
(* What a call of a tool runs.                                             *)

\* The steps of one call: what they may send, and under which settings.
ToolRuns(t, arg, steps) ==
    /\ steps \in Seq(Steps)
    /\ Allowed(KindOf[t], server.cfg)
    /\ WritesAs(t, TriesOf(steps))
    /\ arg = "dry" => TriesOf(steps) \subseteq Reads
    /\ TriesOf(steps) \intersect (Unrecoverable \union WideWrites) # {} => arg = "confirmed"
    /\ "acl.list" \in TriesOf(steps) => server.cfg.sharing

\* A note that names a missing scope, and a refusal for want of a zone.
NoteTrue(note, down) ==
    note = "no acl scope" =>
        server.cfg.sharing /\ Outcome("acl.list", server.token, server.access, down) = "auth"
ZoneAfter(down) == ZoneKept(Sent(<<UserZone>>, server.token, server.access, down), down)
RefusalTrue(refusal, down) == refusal = "no zone" => ZoneAfter(down) # "named"

Notes == {"none", "sharing off", "no acl scope", "not the owner"}

\* A call that reaches Google.
Served(name, arg, steps) ==
    \E refusal \in {"ok", "refused", "no zone"}, note \in Notes, down \in Outages :
        /\ Serve(name, arg, steps, refusal, note, down)
        /\ NoteTrue(note, down) /\ RefusalTrue(refusal, down)
        /\ refusal = "no zone" => steps = <<UserZone>>

LEMMA KindsAllowed ==
    ASSUME NEW k, NEW cfg \in Configs, Allowed(k, cfg)
    PROVE  /\ k # "Read" => ~cfg.readOnly
           /\ k \in {"Sharing", "SharingRead", "WideSharing"} => cfg.sharing
           /\ k \in {"Destructive", "WideSharing"} => cfg.destructive
           /\ k = "DecliningAll" => cfg.declineAll
BY DEF Allowed, Configs

LEMMA ReadsAreNoWrites ==
    /\ Reads \intersect Writes = {} /\ Inserts \subseteq Writes
    /\ AclWrites \subseteq Writes /\ WideWrites \subseteq AclWrites /\ Unrecoverable \subseteq Writes
    /\ "events.insert declining all" \in Writes
    /\ AclMethods = AclWrites \union {"acl.list"} /\ "acl.list" \in Reads
BY DEF Reads, Writes, Inserts, EventWrites, CalendarWrites, ListWrites, AclWrites, WideWrites,
       Unrecoverable, AclMethods

\* Reads before a tool's writes leave them its writes.
LEMMA ReadsFirst ==
    ASSUME NEW t, NEW a \in SUBSET Reads, NEW b, WritesAs(t, b)
    PROVE  WritesAs(t, a \union b)
BY ReadsAreNoWrites DEF WritesAs

LEMMA CalendarDetailRuns ==
    ASSUME ServerTypeOK, server.up, NEW name, NEW arg, NEW down \in Outages,
           CalendarDetail(name, arg, down)
    PROVE  \E steps \in Seq(Steps) :
              /\ TriesOf(steps) \subseteq Reads
              /\ "acl.list" \in TriesOf(steps) => server.cfg.sharing
              /\ Served(name, arg, steps)
<1>1. /\ <<Resolve>> \in Seq(Steps)
      /\ TriesOf(<<Resolve>>) = {"calendarList.get", "calendars.get"}
      /\ \A step \in {May("acl.list"), Must("acl.list")} :
            /\ <<Resolve, step>> \in Seq(Steps)
            /\ TriesOf(<<Resolve, step>>) = {"calendarList.get", "calendars.get", "acl.list"}
  <2>1. Resolve \in Steps /\ May("acl.list") \in Steps /\ Must("acl.list") \in Steps
    BY DEF Steps, Methods, Reads
  <2>2. /\ <<Resolve>> \in Seq(Steps) /\ <<Resolve, May("acl.list")>> \in Seq(Steps)
        /\ <<Resolve, Must("acl.list")>> \in Seq(Steps)
    BY <2>1
  <2> QED BY <2>2, StepTries, ListTries
<1>2. CASE ~server.cfg.sharing
  <2>1. Serve(name, arg, <<Resolve>>, "ok", "sharing off", down)
    BY <1>2 DEF CalendarDetail
  <2>2. Served(name, arg, <<Resolve>>)
    BY <2>1 DEF Served, NoteTrue, RefusalTrue, Notes
  <2> QED BY <1>1, <2>2 DEF Reads
<1>3. CASE server.cfg.sharing
  <2>1. PICK note \in Notes, step \in {May("acl.list"), Must("acl.list")} :
           /\ Serve(name, arg, <<Resolve, step>>, "ok", note, down)
           /\ note = "no acl scope" => Outcome("acl.list", server.token, server.access, down) = "auth"
    BY <1>3 DEF CalendarDetail, UnreadableSharing, Notes
  <2>2. Served(name, arg, <<Resolve, step>>)
    BY <1>3, <2>1 DEF Served, NoteTrue, RefusalTrue
  <2> QED BY <1>1, <1>3, <2>1, <2>2 DEF Reads
<1> QED BY <1>2, <1>3

LEMMA CallRuns ==
    ASSUME ServerInv, NEW t \in Tools, NEW arg \in Args(t), Call(t, arg)
    PROVE  \/ Unserved("unknown tool", arg, "not found")
           \/ server.token = NoToken /\ Unserved(t, arg, "auth")
           \/ /\ server.token \in Tokens
              /\ \E steps : ToolRuns(t, arg, steps) /\ Served(t, arg, steps)
<1>1. server \in Servers /\ server.up
  BY ServerIs DEF ServerInv, Call
<1>2. CASE t \notin Register(server.cfg)
  BY <1>2 DEF Call
<1>3. CASE t \in Register(server.cfg) /\ server.token = NoToken
  BY <1>3 DEF Call
<1>4. ASSUME t \in Register(server.cfg), server.token # NoToken
      PROVE  /\ server.token \in Tokens
             /\ \E steps : ToolRuns(t, arg, steps) /\ Served(t, arg, steps)
  <2>1. server.token \in Tokens /\ server.cfg \in Configs
    BY <1>1, <1>4 DEF Servers
  <2>2. Allowed(KindOf[t], server.cfg)
    BY <1>4 DEF Register
  <2>3. t \in SharingTools => server.cfg.sharing
    <3>1. t \in SharingTools => KindOf[t] \in {"Sharing", "SharingRead", "WideSharing"}
      BY Kinds DEF SharingTools
    <3> QED BY <2>1, <2>2, <3>1, KindsAllowed
  <2>4. /\ ReadSteps(t) \in Seq(Steps) /\ TriesOf(ReadSteps(t)) \subseteq Reads
        /\ "acl.list" \in TriesOf(ReadSteps(t)) => server.cfg.sharing
    BY <2>3, ReadRequests
  <2>5. \A steps \in Seq(Steps) :
           /\ TriesOf(steps) \subseteq Reads
           /\ "acl.list" \in TriesOf(steps) => server.cfg.sharing
           => ToolRuns(t, arg, steps)
    <3> TAKE steps \in Seq(Steps)
    <3> HAVE /\ TriesOf(steps) \subseteq Reads
             /\ "acl.list" \in TriesOf(steps) => server.cfg.sharing
    <3>1. WritesAs(t, TriesOf(steps))
      BY ReadsAreNoWrites DEF WritesAs
    <3> QED BY <2>2, <3>1, ReadsAreNoWrites DEF ToolRuns
  <2>6. ASSUME NEW s \in Seq(Steps), TriesOf(s) \subseteq Reads,
               "acl.list" \in TriesOf(s) => server.cfg.sharing,
               NEW w \in WriteSteps(t), ~Refuses(t, arg)
        PROVE  ToolRuns(t, arg, s \o (IF arg = "dry" THEN <<>> ELSE w))
    <3>1. CASE arg = "dry"
      <4>1. s \o <<>> = s
        BY <2>6
      <4> QED BY <2>5, <2>6, <3>1, <4>1
    <3>2. CASE arg # "dry"
      <4>1. w \in Seq(Steps) /\ WritesAs(t, TriesOf(w))
        BY <2>6, WriteRequests
      <4>2. s \o w \in Seq(Steps) /\ TriesOf(s \o w) = TriesOf(s) \union TriesOf(w)
        BY <2>6, <4>1, JoinTries
      <4>3. WritesAs(t, TriesOf(s \o w))
        <5>1. TriesOf(s) \in SUBSET Reads
          BY <2>6
        <5>2. WritesAs(t, TriesOf(s) \union TriesOf(w))
          BY <4>1, <5>1, ReadsFirst
        <5> QED BY <4>2, <5>2
      <4>4. TriesOf(s \o w) \intersect (Unrecoverable \union WideWrites) # {} => arg = "confirmed"
        <5>1. TriesOf(s \o w) \intersect (Unrecoverable \union WideWrites) # {}
                => KindOf[t] \in {"Destructive", "WideSharing"}
          BY <4>3, Kinds DEF WritesAs
        <5>2. KindOf[t] \in {"Destructive", "WideSharing"} => arg = "confirmed"
          BY <2>6, <3>2 DEF Refuses, Args
        <5> QED BY <5>1, <5>2
      <4>5. "acl.list" \in TriesOf(w) => server.cfg.sharing
        BY <2>3, <2>6, WriteRequests
      <4> QED BY <2>2, <2>6, <3>2, <4>2, <4>3, <4>4, <4>5 DEF ToolRuns
    <3> QED BY <3>1, <3>2
  <2>7. CASE t = "get_calendar"
    <3>1. PICK down \in Outages : CalendarDetail(t, arg, down)
      BY <1>4, <2>7 DEF Call
    <3>2. PICK steps \in Seq(Steps) :
              /\ TriesOf(steps) \subseteq Reads
              /\ "acl.list" \in TriesOf(steps) => server.cfg.sharing
              /\ Served(t, arg, steps)
      BY <1>1, <3>1, CalendarDetailRuns DEF ServerInv
    <3> QED BY <2>1, <2>5, <3>2
  <2>8. CASE t = "create_calendar"
    <3>1. PICK down \in Outages : CreateCalendar(arg, down)
      BY <1>4, <2>8 DEF Call
    <3>2. <<UserZone>> \in Seq(Steps) /\ TriesOf(<<UserZone>>) = {"settings.list"}
      <4>1. UserZone \in Steps
        BY DEF UserZone, Steps, Methods, Reads
      <4> QED BY <4>1, StepTries, ListTries
    <3>3. {"settings.list"} \subseteq Reads /\ "acl.list" \notin {"settings.list"}
      BY DEF Reads
    <3>6. ToolRuns(t, arg, <<UserZone>>)
      BY <2>5, <3>2, <3>3
    <3>7. \/ Serve(t, arg, <<UserZone>>, "refused", "none", down)
          \/ ZoneAfter(down) # "named" /\ Serve(t, arg, <<UserZone>>, "no zone", "none", down)
          \/ \E w \in WriteSteps(t) :
                Serve(t, arg, <<UserZone>> \o (IF arg = "dry" THEN <<>> ELSE w), "ok", "none", down)
      BY <2>8, <3>1 DEF CreateCalendar, ZoneAfter
    <3>8. CASE Serve(t, arg, <<UserZone>>, "refused", "none", down)
      <4>1. Served(t, arg, <<UserZone>>)
        BY <3>8 DEF Served, NoteTrue, RefusalTrue, Notes
      <4> QED BY <2>1, <3>6, <4>1
    <3>4. CASE ZoneAfter(down) # "named" /\ Serve(t, arg, <<UserZone>>, "no zone", "none", down)
      <4>1. Served(t, arg, <<UserZone>>)
        BY <3>4 DEF Served, NoteTrue, RefusalTrue, Notes
      <4> QED BY <2>1, <3>6, <4>1
    <3>5. CASE \E w \in WriteSteps(t) :
                 Serve(t, arg, <<UserZone>> \o (IF arg = "dry" THEN <<>> ELSE w), "ok", "none", down)
      <4>1. PICK w \in WriteSteps(t) :
              Serve(t, arg, <<UserZone>> \o (IF arg = "dry" THEN <<>> ELSE w), "ok", "none", down)
        BY <3>5
      <4>2. ~Refuses(t, arg)
        BY <2>8, Kinds DEF Refuses, Args
      <4>3. ToolRuns(t, arg, <<UserZone>> \o (IF arg = "dry" THEN <<>> ELSE w))
        BY <2>6, <3>2, <3>3, <4>2
      <4>4. Served(t, arg, <<UserZone>> \o (IF arg = "dry" THEN <<>> ELSE w))
        BY <4>1 DEF Served, NoteTrue, RefusalTrue, Notes
      <4> QED BY <2>1, <4>3, <4>4
    <3> QED BY <3>4, <3>5, <3>7, <3>8
  <2>9. CASE t \notin {"get_calendar", "create_calendar"} /\ Refuses(t, arg)
    <3>1. PICK down \in Outages : Serve(t, arg, ReadSteps(t), "refused", "none", down)
      BY <1>4, <2>9 DEF Call
    <3>2. Served(t, arg, ReadSteps(t))
      BY <3>1 DEF Served, NoteTrue, RefusalTrue, Notes
    <3> QED BY <2>1, <2>4, <2>5, <3>2
  <2>10. CASE t \notin {"get_calendar", "create_calendar"} /\ ~Refuses(t, arg)
    <3>1. PICK down \in Outages, w \in WriteSteps(t) :
            Serve(t, arg, ReadSteps(t) \o (IF arg = "dry" THEN <<>> ELSE w), "ok", "none", down)
      BY <1>4, <2>10 DEF Call
    <3>2. ToolRuns(t, arg, ReadSteps(t) \o (IF arg = "dry" THEN <<>> ELSE w))
      BY <2>4, <2>6, <2>10
    <3>3. Served(t, arg, ReadSteps(t) \o (IF arg = "dry" THEN <<>> ELSE w))
      BY <3>1 DEF Served, NoteTrue, RefusalTrue, Notes
    <3> QED BY <2>1, <3>2, <3>3
  <2> QED BY <2>7, <2>8, <2>9, <2>10
<1> QED BY <1>2, <1>3, <1>4

\* What reading a resource comes to: no request, or reads.
LEMMA ResourceRuns ==
    ASSUME ServerInv, NEW uri, ReadResource(uri)
    PROVE  \/ \E answer \in {"not found", "not readable"} : Unserved("resource", "plain", answer)
           \/ server.token = NoToken /\ Unserved("resource", "plain", "auth")
           \/ /\ server.token \in Tokens
              /\ \E steps \in Seq(Steps) :
                    /\ TriesOf(steps) \subseteq Reads
                    /\ "acl.list" \in TriesOf(steps) => server.cfg.sharing
                    /\ Served("resource", "plain", steps)
<1> DEFINE what == IF uri = <<>> THEN "calendars" ELSE ParseURI(uri)
<1>1. server \in Servers /\ server.up
  BY ServerIs DEF ServerInv, ReadResource
<1>2. CASE what \in {"not found", "not readable"} /\ Unserved("resource", "plain", what)
  BY <1>2
<1>3. CASE server.token = NoToken /\ Unserved("resource", "plain", "auth")
  BY <1>3
<1>4. CASE server.token # NoToken /\ \E t \in {"list_calendars", "get_event"}, down \in Outages :
             Serve("resource", "plain", ReadSteps(t), "ok", "none", down)
  <2>1. PICK t \in {"list_calendars", "get_event"}, down \in Outages :
             Serve("resource", "plain", ReadSteps(t), "ok", "none", down)
    BY <1>4
  <2>2. t \in Tools /\ t \notin SharingTools
    BY DEF Tools, ReadTools, SharingTools
  <2>3. Served("resource", "plain", ReadSteps(t))
    BY <2>1 DEF Served, NoteTrue, RefusalTrue, Notes
  <2> QED BY <1>1, <1>4, <2>2, <2>3, ReadRequests DEF Servers
<1>5. CASE server.token # NoToken /\ \E down \in Outages : CalendarDetail("resource", "plain", down)
  <2>1. \E steps \in Seq(Steps) :
              /\ TriesOf(steps) \subseteq Reads
              /\ "acl.list" \in TriesOf(steps) => server.cfg.sharing
              /\ Served("resource", "plain", steps)
    BY <1>1, <1>5, CalendarDetailRuns DEF ServerInv
  <2> QED BY <1>1, <1>5, <2>1 DEF Servers
<1> HIDE DEF what
<1> QED BY <1>2, <1>3, <1>4, <1>5 DEF ReadResource, what

-----------------------------------------------------------------------------
(* What is within the settings.                                            *)

\* Steps the running server's configuration allows, and its scopes carry.
Meant(name, arg, steps) ==
    /\ steps \in Seq(Steps)
    /\ server.cfg.readOnly \/ arg = "dry" => TriesOf(steps) \subseteq Reads
    /\ ~server.cfg.sharing => TriesOf(steps) \intersect AclMethods = {}
    /\ TriesOf(steps) \intersect (Unrecoverable \union WideWrites) # {} =>
         server.cfg.destructive /\ arg = "confirmed"
    /\ "events.insert declining all" \in TriesOf(steps) =>
         server.cfg.declineAll \/ name = "update_event"
    /\ \A m \in TriesOf(steps) : Carried(m, server.cfg)

LEMMA ReadsAreMeant ==
    ASSUME server.cfg \in Configs, NEW name, NEW arg, NEW steps \in Seq(Steps),
           TriesOf(steps) \subseteq Reads,
           "acl.list" \in TriesOf(steps) => server.cfg.sharing
    PROVE  Meant(name, arg, steps)
<1>1. \A m \in TriesOf(steps) : Carried(m, server.cfg)
  BY ConfiguredCarries
<1> QED BY <1>1, ReadsAreNoWrites DEF Meant

LEMMA ToolIsMeant ==
    ASSUME server.cfg \in Configs, NEW t \in Tools, NEW arg, NEW steps, ToolRuns(t, arg, steps)
    PROVE  Meant(t, arg, steps)
<1> DEFINE cfg == server.cfg
           k == KindOf[t]
           sent == TriesOf(steps)
<1>1. /\ k # "Read" => ~cfg.readOnly
      /\ k \in {"Sharing", "SharingRead", "WideSharing"} => cfg.sharing
      /\ k \in {"Destructive", "WideSharing"} => cfg.destructive
      /\ k = "DecliningAll" => cfg.declineAll
  <2>1. Allowed(k, cfg)
    BY DEF ToolRuns
  <2> HIDE DEF k, cfg
  <2>2. cfg \in Configs
    BY DEF cfg
  <2> QED BY <2>1, <2>2, KindsAllowed
<1>2. t \in {"delete_calendar", "clear_calendar"} => k = "Destructive"
  BY Kinds
<1>3. /\ sent \subseteq Reads \union Writes
      /\ k \in {"Read", "SharingRead"} => sent \subseteq Reads
      /\ sent \intersect AclWrites # {} => k \in {"Sharing", "WideSharing"}
      /\ sent \intersect WideWrites # {} => k = "WideSharing"
      /\ sent \intersect Unrecoverable # {} => t \in {"delete_calendar", "clear_calendar"}
      /\ "events.insert declining all" \in sent => k = "DecliningAll" \/ t = "update_event"
      /\ arg = "dry" => sent \subseteq Reads
      /\ sent \intersect (Unrecoverable \union WideWrites) # {} => arg = "confirmed"
      /\ "acl.list" \in sent => cfg.sharing
      /\ steps \in Seq(Steps)
  BY DEF ToolRuns, WritesAs
<1> HIDE DEF k, cfg, sent
<1>4. cfg \in Configs
  BY DEF cfg
<1>5. ~cfg.sharing => sent \intersect AclMethods = {}
  BY <1>1, <1>3, ReadsAreNoWrites
<1>6. ASSUME NEW m \in sent PROVE Carried(m, cfg)
  <2>1. CASE m \in Reads
    BY <1>3, <1>4, <2>1, ConfiguredCarries
  <2>2. CASE m \notin Reads
    <3>1. m \in Writes /\ ~cfg.readOnly
      BY <1>1, <1>3, <2>2
    <3>2. m \in AclWrites => cfg.sharing
      BY <1>1, <1>3
    <3> QED BY <1>4, <3>1, <3>2, ConfiguredCarries
  <2> QED BY <2>1, <2>2
<1> QED BY <1>1, <1>2, <1>3, <1>5, <1>6 DEF Meant, k, cfg, sent

-----------------------------------------------------------------------------
(* What an answered call leaves.                                           *)

\* A call refused for want of a zone: what it sent, what failed, what is kept.
ZoneRefused(down, sent, failed, kept) ==
    /\ sent = Sent(<<UserZone>>, server.token, server.access, down)
    /\ failed = FailedOf(sent, down)
    /\ kept = ZoneAfter(down) /\ kept # "named"

LEMMA ServedFields ==
    ASSUME ServerTypeOK, server.up, server.token \in Tokens, NEW name, NEW arg,
           NEW steps \in Seq(Steps), Served(name, arg, steps)
    PROVE  /\ server' \in Servers
           /\ server'.cfg = server.cfg /\ server'.wrote = server.wrote
           /\ server'.token = server.token
           /\ call'.name = name /\ call'.arg = arg
           /\ call'.sent \subseteq TriesOf(steps) /\ call'.sent \subseteq Methods
           /\ call'.answer \in {"ok", "refused", "no zone", "auth", "unavailable"}
           /\ call'.failed \in SUBSET (Methods \union {"exchange"})
           /\ call'.note \in Notes
           /\ call' = [name |-> name, arg |-> arg, sent |-> call'.sent, failed |-> call'.failed,
                       answer |-> call'.answer, note |-> call'.note]
           /\ call'.answer = "auth" =>
                \E down : Answer(steps, server.token, server.access, down) = "auth"
           /\ \E down : NoteTrue(call'.note, down)
           /\ call'.answer = "no zone" =>
                \E down : ZoneRefused(down, call'.sent, call'.failed, server'.zone)
<1>1. PICK refusal \in {"ok", "refused", "no zone"}, note \in Notes, down \in Outages :
        /\ Serve(name, arg, steps, refusal, note, down)
        /\ NoteTrue(note, down) /\ RefusalTrue(refusal, down)
        /\ refusal = "no zone" => steps = <<UserZone>>
  BY DEF Served
<1> DEFINE sent == Sent(steps, server.token, server.access, down)
           answer == Answer(steps, server.token, server.access, down)
<1>2. /\ server' \in Servers
      /\ server'.cfg = server.cfg /\ server'.wrote = server.wrote
      /\ server'.token = server.token /\ server'.zone = ZoneKept(sent, down)
      /\ call' = [name |-> name, arg |-> arg, sent |-> sent, failed |-> FailedOf(sent, down),
                  answer |-> IF answer = "ok" THEN refusal ELSE answer, note |-> note]
  BY <1>1, ServeIs
<1>3. sent \subseteq TriesOf(steps) /\ TriesOf(steps) \subseteq Methods
  BY SentIsTried, TriesAreMethods
<1>4. answer \in {"ok", "auth", "unavailable"}
  BY AnswerIs
<1>5. refusal = "no zone" => ZoneRefused(down, sent, FailedOf(sent, down), server'.zone)
  BY <1>1, <1>2 DEF RefusalTrue, ZoneRefused, ZoneAfter
<1>6. FailedOf(sent, down) \in SUBSET (Methods \union {"exchange"})
  BY <1>3 DEF FailedOf
<1> HIDE DEF sent, answer
<1>7. /\ call'.name = name /\ call'.arg = arg /\ call'.sent = sent /\ call'.note = note
      /\ call'.failed = FailedOf(sent, down)
      /\ call'.answer = IF answer = "ok" THEN refusal ELSE answer
  BY <1>2
<1>8. call'.answer = "auth" => answer = "auth"
  BY <1>1, <1>4, <1>7
<1>9. call'.answer = "no zone" => refusal = "no zone"
  BY <1>1, <1>4, <1>7
<1>10. call'.answer \in {"ok", "refused", "no zone", "auth", "unavailable"}
  BY <1>1, <1>4, <1>7
<1>11. call' = [name |-> name, arg |-> arg, sent |-> call'.sent, failed |-> call'.failed,
                answer |-> call'.answer, note |-> call'.note]
  BY <1>2, <1>7
<1> QED BY <1>1, <1>2, <1>3, <1>5, <1>6, <1>7, <1>8, <1>9, <1>10, <1>11 DEF answer

\* doctor prints a line as ok only of a grant that is honoured.
LEMMA ScopesLine ==
    ASSUME NEW cfg, NEW down, LET lines == CmdDoctor(cfg, TRUE, down)
                              IN  "scopes" \in DOMAIN lines /\ lines["scopes"] # "FAIL"
    PROVE  /\ stored # NoToken /\ grants[stored].honoured
           /\ MissingScopes(grants[stored].scopes, Scopes(cfg)) = {}
BY DEF CmdDoctor

LEMMA ZoneLine ==
    ASSUME NEW cfg, NEW down, LET lines == CmdDoctor(cfg, TRUE, down)
                              IN  "zone" \in DOMAIN lines /\ lines["zone"] # "FAIL"
    PROVE  /\ stored # NoToken /\ grants[stored].honoured /\ zone # "none"
           /\ Outcome("settings.list", stored, TRUE, {}) = "ok"
BY DEF CmdDoctor

\* Settings kept before are not asked for.
LEMMA ZoneIsKept ==
    ASSUME NEW down, server.zone # "unread"
    PROVE  /\ Sent(<<UserZone>>, server.token, server.access, down) = {}
           /\ ZoneAfter(down) = server.zone
<1>1. DOMAIN <<UserZone>> = {1} /\ <<UserZone>>[1] = UserZone
  OBVIOUS
<1>2. AskedBefore(UserZone)
  BY DEF AskedBefore, UserZone, May
<1>3. Sent(<<UserZone>>, server.token, server.access, down) = {}
  BY <1>1, <1>2 DEF Sent, Ran
<1> QED BY <1>3 DEF ZoneAfter, ZoneKept

\* An honoured grant that reads the settings, and no moment's failure, leaves
\* no server without the zone they name.
LEMMA ZoneIsRead ==
    ASSUME NEW down, server.zone = "unread", zone = "named",
           grants[server.token].honoured, Outcome("settings.list", server.token, TRUE, {}) = "ok",
           FailedOf(Sent(<<UserZone>>, server.token, server.access, down), down) = {}
    PROVE  ZoneAfter(down) = "named"
<1>0. Connects(server.token, server.access, down)
  BY DEF Connects, FailedOf
<1>2. DOMAIN <<UserZone>> = {1} /\ <<UserZone>>[1] = UserZone
  OBVIOUS
<1>3. DOMAIN UserZone.try = {1} /\ UserZone.try[1] = "settings.list" /\ ~UserZone.must
  BY DEF UserZone, May
<1>4. Ran(<<UserZone>>, server.token, server.access, down) = {1} /\ ~AskedBefore(UserZone)
  BY <1>2, <1>3 DEF Ran, Failing, AskedBefore
<1>5. "settings.list" \in Tried(UserZone, server.token, server.access, down)
  <2>1. \A k \in 1 .. (1 - 1) : FALSE
    OBVIOUS
  <2> QED BY <1>3, <2>1 DEF Tried
<1>6. "settings.list" \in Sent(<<UserZone>>, server.token, server.access, down)
  BY <1>0, <1>2, <1>4, <1>5 DEF Sent
<1>1. Outcome("settings.list", server.token, server.access, down) = "ok"
  BY <1>0, <1>6 DEF Outcome, FailedOf
<1> QED BY <1>1, <1>6 DEF ZoneAfter, ZoneKept

-----------------------------------------------------------------------------
(* The steps.                                                              *)

Args4 == {"plain", "dry", "past", "confirmed"}
Names == Tools \union {"none", "unknown tool", "resource"}

LEMMA DoctorStays ==
    ASSUME UNCHANGED <<grants, stored, zone>>, server'.cfg = server.cfg, NEW l
    PROVE  NeverPrints(l)' = NeverPrints(l)
<1>1. grants' = grants /\ stored' = stored /\ zone' = zone
  OBVIOUS
<1>2. \A down : CmdDoctor(server.cfg, TRUE, down)' = CmdDoctor(server.cfg, TRUE, down)
  BY <1>1 DEF CmdDoctor, Outcome, Connects
<1> QED BY <1>2 DEF NeverPrints

LEMMA ServedIsRight ==
    ASSUME ServerInv, server.up, server.token \in Tokens, NEW name \in Names, NEW arg \in Args4,
           NEW steps, Meant(name, arg, steps), Served(name, arg, steps),
           UNCHANGED <<grants, stored, zone>>
    PROVE  ServerInv' /\ OnlyWhatWasMeant' /\ DoctorTellsTheTruth'
<1>1. /\ steps \in Seq(Steps) /\ ServerTypeOK /\ server \in Servers
  BY ServerIs DEF Meant, ServerInv
<1>2. /\ server' \in Servers
      /\ server'.cfg = server.cfg /\ server'.wrote = server.wrote
      /\ server'.token = server.token
      /\ call'.name = name /\ call'.arg = arg
      /\ call'.sent \subseteq TriesOf(steps) /\ call'.sent \subseteq Methods
      /\ call'.answer \in {"ok", "refused", "no zone", "auth", "unavailable"}
      /\ call'.failed \in SUBSET (Methods \union {"exchange"})
      /\ call'.note \in Notes
      /\ call' = [name |-> name, arg |-> arg, sent |-> call'.sent, failed |-> call'.failed,
                  answer |-> call'.answer, note |-> call'.note]
      /\ call'.answer = "auth" =>
           \E down : Answer(steps, server.token, server.access, down) = "auth"
      /\ \E down : NoteTrue(call'.note, down)
      /\ call'.answer = "no zone" =>
           \E down : ZoneRefused(down, call'.sent, call'.failed, server'.zone)
  BY <1>1, ServedFields
<1>3. server.cfg \in Configs /\ Within(server.cfg, server.wrote)
  BY <1>1 DEF ServerInv, Servers
<1>4. ServerInv'
  <2>1. call' \in [name : Names, arg : Args4, sent : SUBSET Methods,
                   failed : SUBSET (Methods \union {"exchange"}),
                   answer : {"none", "ok", "refused", "auth", "unavailable", "no zone",
                             "not found", "not readable"}, note : Notes]
    <3>1. call'.answer \in {"none", "ok", "refused", "auth", "unavailable", "no zone",
                            "not found", "not readable"}
      BY <1>2
    <3>2. /\ call'.sent \in SUBSET Methods /\ call'.note \in Notes
          /\ call'.failed \in SUBSET (Methods \union {"exchange"})
      BY <1>2
    <3>3. \A sent \in SUBSET Methods, failed \in SUBSET (Methods \union {"exchange"}), note \in Notes,
             answer \in {"none", "ok", "refused", "auth", "unavailable", "no zone", "not found",
                        "not readable"} :
             [name |-> name, arg |-> arg, sent |-> sent, failed |-> failed, answer |-> answer, note |-> note]
               \in [name : Names, arg : Args4, sent : SUBSET Methods,
                    failed : SUBSET (Methods \union {"exchange"}),
                    answer : {"none", "ok", "refused", "auth", "unavailable", "no zone",
                              "not found", "not readable"}, note : Notes]
      OBVIOUS
    <3>4. [name |-> name, arg |-> arg, sent |-> call'.sent, failed |-> call'.failed,
           answer |-> call'.answer, note |-> call'.note]
            \in [name : Names, arg : Args4, sent : SUBSET Methods,
                 failed : SUBSET (Methods \union {"exchange"}),
                 answer : {"none", "ok", "refused", "auth", "unavailable", "no zone",
                           "not found", "not readable"}, note : Notes]
      BY <3>1, <3>2, <3>3
    <3> QED BY <1>2, <3>4
  <2>2. ServerTypeOK'
    BY <1>1, <1>2, <2>1 DEF ServerTypeOK, Names, Args4, Notes
  <2>3. Within(server.cfg, server.wrote)' = Within(server.cfg, server.wrote)
    BY <1>2 DEF Within
  <2> QED BY <1>3, <2>2, <2>3 DEF ServerInv
<1>5. OnlyWhatWasMeant'
  <2>1. call'.sent \in SUBSET TriesOf(steps)
    BY <1>2
  <2>2. /\ server.wrote.readOnly \/ arg = "dry" => call'.sent \subseteq Reads
        /\ server.wrote.noSharing => call'.sent \intersect AclMethods = {}
        /\ call'.sent \intersect (Unrecoverable \union WideWrites) # {} =>
             server.wrote.destructive /\ arg = "confirmed"
        /\ "events.insert declining all" \in call'.sent =>
             server.wrote.declineAll \/ name = "update_event"
    BY <1>3, <2>1 DEF Meant, Within
  <2> QED BY <1>2, <2>2 DEF OnlyWhatWasMeant
<1>6. DoctorTellsTheTruth'
  <2> SUFFICES ASSUME server.token = stored
               PROVE  /\ call'.answer = "auth" \/ call'.note = "no acl scope" => NeverPrints("scopes")
                      /\ /\ call'.answer = "no zone" /\ call'.failed = {} /\ zone # "unknown"
                         /\ server'.zone = "unread" \/ "settings.list" \in call'.sent
                         => NeverPrints("zone")
    BY <1>2, DoctorStays DEF DoctorTellsTheTruth
  <2>1. ASSUME call'.answer = "auth" \/ call'.note = "no acl scope" PROVE NeverPrints("scopes")
    <3> SUFFICES ASSUME NEW down \in SUBSET Checks,
                        "scopes" \in DOMAIN CmdDoctor(server.cfg, TRUE, down),
                        CmdDoctor(server.cfg, TRUE, down)["scopes"] # "FAIL"
                 PROVE  FALSE
      BY DEF NeverPrints
    <3>1. /\ grants[server.token].honoured
          /\ MissingScopes(grants[server.token].scopes, Scopes(server.cfg)) = {}
      BY ScopesLine
    <3>2. \A any : Answer(steps, server.token, server.access, any) # "auth"
      <4>1. \A m \in TriesOf(steps) : Carried(m, server.cfg)
        BY DEF Meant
      <4> QED BY <1>1, <3>1, <4>1, AuthIsTrue
    <3>3. call'.note = "no acl scope" =>
            \A any : Outcome("acl.list", server.token, server.access, any) # "auth"
      <4>1. call'.note = "no acl scope" => Carried("acl.list", server.cfg)
        BY <1>2, <1>3, ConfiguredCarries, ReadsAreNoWrites DEF NoteTrue
      <4> QED BY <3>1, <4>1 DEF Carried, MissingScopes, Outcome
    <3> QED BY <1>2, <2>1, <3>2, <3>3 DEF NoteTrue
  <2>2. ASSUME call'.answer = "no zone", call'.failed = {}, zone # "unknown",
               server'.zone = "unread" \/ "settings.list" \in call'.sent
        PROVE  NeverPrints("zone")
    <3> SUFFICES ASSUME NEW checks \in SUBSET Checks,
                        "zone" \in DOMAIN CmdDoctor(server.cfg, TRUE, checks),
                        CmdDoctor(server.cfg, TRUE, checks)["zone"] # "FAIL"
                 PROVE  FALSE
      BY DEF NeverPrints
    <3>1. /\ grants[server.token].honoured /\ zone # "none"
          /\ Outcome("settings.list", server.token, TRUE, {}) = "ok"
      BY ZoneLine
    <3>2. zone = "named"
      BY <1>1, <2>2, <3>1 DEF ServerTypeOK, Zones
    <3>3. PICK down : ZoneRefused(down, call'.sent, call'.failed, server'.zone)
      BY <1>2, <2>2
    <3>4. server.zone = "unread"
      BY <2>2, <3>3, ZoneIsKept DEF ZoneRefused
    <3>5. ZoneAfter(down) = "named"
      BY <2>2, <3>1, <3>2, <3>3, <3>4, ZoneIsRead DEF ZoneRefused
    <3> QED BY <3>3, <3>5 DEF ZoneRefused
  <2> QED BY <2>1, <2>2
<1> QED BY <1>4, <1>5, <1>6

LEMMA UnservedIsRight ==
    ASSUME ServerInv, server.up, NEW name \in Names, NEW arg \in Args4,
           NEW answer \in {"not found", "not readable", "auth"}, Unserved(name, arg, answer),
           answer = "auth" => server.token = NoToken, UNCHANGED <<grants, stored, zone>>
    PROVE  ServerInv' /\ OnlyWhatWasMeant' /\ DoctorTellsTheTruth'
<1>1. call' = [name |-> name, arg |-> arg, sent |-> {}, failed |-> {}, answer |-> answer,
                note |-> "none"]
      /\ server' = server
  BY DEF Unserved, Record
<1>2. call'.arg = arg /\ call'.sent = {} /\ call'.failed = {} /\ call'.answer = answer /\ call'.note = "none"
  BY <1>1
<1>3. ServerInv'
  <2>1. call' \in [name : Names, arg : Args4, sent : SUBSET Methods,
                   failed : SUBSET (Methods \union {"exchange"}),
                   answer : {"none", "ok", "refused", "auth", "unavailable", "no zone",
                             "not found", "not readable"}, note : Notes]
    <3>1. answer \in {"none", "ok", "refused", "auth", "unavailable", "no zone", "not found",
                      "not readable"}
      OBVIOUS
    <3>2. "none" \in Notes /\ {} \in SUBSET Methods /\ {} \in SUBSET (Methods \union {"exchange"})
      BY DEF Notes
    <3> QED BY <1>1, <3>1, <3>2
  <2>2. ServerTypeOK'
    BY <1>1, <2>1 DEF ServerTypeOK, ServerInv, Names, Args4, Notes
  <2> QED BY <1>1, <2>2 DEF ServerInv, Within
<1>4. OnlyWhatWasMeant'
  BY <1>2 DEF OnlyWhatWasMeant
<1>5. DoctorTellsTheTruth'
  <2> SUFFICES ASSUME server.token = stored, answer = "auth" PROVE NeverPrints("scopes")
    BY <1>1, <1>2, DoctorStays DEF DoctorTellsTheTruth
  <2>1. stored = NoToken
    OBVIOUS
  <2> QED BY <2>1, ScopesLine DEF NeverPrints
<1> QED BY <1>3, <1>4, <1>5

LEMMA ArgsKnown ==
    ASSUME NEW t, NEW arg \in Args(t)
    PROVE  arg \in Args4
BY DEF Args, Args4

LEMMA CallIsRight ==
    ASSUME ServerInv, NEW t \in Tools, NEW arg \in Args(t), Call(t, arg)
    PROVE  ServerInv' /\ OnlyWhatWasMeant' /\ DoctorTellsTheTruth'
<1>1. /\ server.up /\ UNCHANGED <<grants, stored, zone>> /\ arg \in Args4
      /\ t \in Names /\ "unknown tool" \in Names
  BY ArgsKnown DEF Call, Names
<1>2. CASE Unserved("unknown tool", arg, "not found")
  BY <1>1, <1>2, UnservedIsRight
<1>3. CASE server.token = NoToken /\ Unserved(t, arg, "auth")
  BY <1>1, <1>3, UnservedIsRight
<1>4. CASE /\ server.token \in Tokens
           /\ \E steps : ToolRuns(t, arg, steps) /\ Served(t, arg, steps)
  <2>1. PICK steps : ToolRuns(t, arg, steps) /\ Served(t, arg, steps)
    BY <1>4
  <2>2. server.cfg \in Configs
    BY <1>1, ServerIs DEF ServerInv, Servers
  <2>3. Meant(t, arg, steps)
    BY <2>1, <2>2, ToolIsMeant
  <2> QED BY <1>1, <1>4, <2>1, <2>3, ServedIsRight
<1> QED BY <1>2, <1>3, <1>4, CallRuns

LEMMA ResourceIsRight ==
    ASSUME ServerInv, NEW uri, ReadResource(uri)
    PROVE  ServerInv' /\ OnlyWhatWasMeant' /\ DoctorTellsTheTruth'
<1>1. /\ server.up /\ UNCHANGED <<grants, stored, zone>>
      /\ "plain" \in Args4 /\ "resource" \in Names
  BY DEF ReadResource, Args4, Names
<1>2. CASE \E answer \in {"not found", "not readable"} : Unserved("resource", "plain", answer)
  BY <1>1, <1>2, UnservedIsRight
<1>3. CASE server.token = NoToken /\ Unserved("resource", "plain", "auth")
  BY <1>1, <1>3, UnservedIsRight
<1>4. CASE /\ server.token \in Tokens
           /\ \E steps \in Seq(Steps) :
                 /\ TriesOf(steps) \subseteq Reads
                 /\ "acl.list" \in TriesOf(steps) => server.cfg.sharing
                 /\ Served("resource", "plain", steps)
  <2>1. PICK steps \in Seq(Steps) :
                 /\ TriesOf(steps) \subseteq Reads
                 /\ "acl.list" \in TriesOf(steps) => server.cfg.sharing
                 /\ Served("resource", "plain", steps)
    BY <1>4
  <2>2. server.cfg \in Configs
    BY <1>1, ServerIs DEF ServerInv, Servers
  <2>3. Meant("resource", "plain", steps)
    BY <2>1, <2>2, ReadsAreMeant
  <2> QED BY <1>1, <1>4, <2>1, <2>3, ServedIsRight
<1> QED BY <1>2, <1>3, <1>4, ResourceRuns

-----------------------------------------------------------------------------
(* What a client is told.                                                  *)

LEMMA CallIsHinted ==
    ASSUME ServerInv, NEW t \in Tools, NEW arg \in Args(t), Call(t, arg)
    PROVE  HintsAreTrue'
<1>1. CASE Unserved("unknown tool", arg, "not found")
  <2>1. call'.name = "unknown tool" /\ "unknown tool" \notin Tools
    BY <1>1 DEF Unserved, Record, Tools, ReadTools, WriteTools
  <2> QED BY <2>1 DEF HintsAreTrue
<1>2. CASE Unserved(t, arg, "auth")
  <2>1. call'.name = t /\ call'.sent = {}
    BY <1>2 DEF Unserved, Record
  <2> QED BY <2>1 DEF HintsAreTrue
<1>3. CASE /\ server.token \in Tokens
           /\ \E steps : ToolRuns(t, arg, steps) /\ Served(t, arg, steps)
  <2>1. PICK steps : ToolRuns(t, arg, steps) /\ Served(t, arg, steps)
    BY <1>3
  <2>2. ServerTypeOK /\ server.up /\ steps \in Seq(Steps)
    BY <2>1 DEF ServerInv, Call, ToolRuns
  <2>3. call'.name = t /\ call'.sent \subseteq TriesOf(steps)
    BY <1>3, <2>1, <2>2, ServedFields
  <2> DEFINE written == call'.sent \ Reads
             k == KindOf[t]
  <2>4. /\ k \in {"Read", "SharingRead"} => written = {}
        /\ k = "Adding" => written \subseteq Inserts
        /\ written \intersect AclWrites # {} => k \in {"Sharing", "WideSharing"}
        /\ written \intersect Unrecoverable # {} => t \in {"delete_calendar", "clear_calendar"}
    BY <2>1, <2>3 DEF ToolRuns, WritesAs
  <2>5. written \intersect AclMethods = written \intersect AclWrites
    BY ReadsAreNoWrites
  <2>6. {"delete_calendar", "clear_calendar"} \subseteq PromptEveryCall
    BY DEF PromptEveryCall
  <2> HIDE DEF written, k
  <2>7. /\ AnnotationsFor(k).readOnly => k \in {"Read", "SharingRead"}
        /\ ~AnnotationsFor(k).destructive => k \in {"Read", "SharingRead", "Adding"}
        /\ ~AnnotationsFor(k).openWorld => k \notin {"Sharing", "WideSharing"}
    BY DEF AnnotationsFor
  <2>8. /\ AnnotationsFor(k).readOnly => written = {}
        /\ ~AnnotationsFor(k).destructive => written \subseteq Inserts
        /\ ~AnnotationsFor(k).openWorld => written \intersect AclMethods = {}
        /\ written \intersect Unrecoverable # {} => t \in PromptEveryCall
    BY <2>4, <2>5, <2>6, <2>7
  <2> QED BY <2>3, <2>8 DEF HintsAreTrue, written, k
<1> QED BY <1>1, <1>2, <1>3, CallRuns

LEMMA ResourceIsHinted ==
    ASSUME ServerInv, NEW uri, ReadResource(uri)
    PROVE  HintsAreTrue'
<1>1. call'.name = "resource"
  <2>1. ASSUME NEW answer, Unserved("resource", "plain", answer) PROVE call'.name = "resource"
    BY <2>1 DEF Unserved, Record
  <2>2. ASSUME NEW steps, Served("resource", "plain", steps) PROVE call'.name = "resource"
    <3>1. PICK refusal, note, down : Serve("resource", "plain", steps, refusal, note, down)
      BY <2>2 DEF Served
    <3> QED BY <3>1 DEF Serve, Record
  <2> QED BY <2>1, <2>2, ResourceRuns
<1>2. "resource" \notin Tools
  BY DEF Tools, ReadTools, WriteTools
<1> QED BY <1>1, <1>2 DEF HintsAreTrue

-----------------------------------------------------------------------------
(* The other steps: nothing is answered.                                   *)

LEMMA NoCallIsRight ==
    /\ call = NoCall => OnlyWhatWasMeant /\ DoctorTellsTheTruth /\ HintsAreTrue
    /\ call' = NoCall => OnlyWhatWasMeant' /\ DoctorTellsTheTruth' /\ HintsAreTrue'
<1>1. /\ NoCall.name = "none" /\ NoCall.arg = "plain" /\ NoCall.sent = {}
      /\ NoCall.answer = "none" /\ NoCall.note = "none" /\ "none" \notin Tools
  BY DEF NoCall, Tools, ReadTools, WriteTools
<1> HIDE DEF NoCall
<1> QED BY <1>1 DEF OnlyWhatWasMeant, DoctorTellsTheTruth, HintsAreTrue

LEMMA HeldIsTyped ==
    ASSUME NEW g \in [Tokens -> [scopes : SUBSET AllScopes, honoured : BOOLEAN]], NEW a, NEW b
    PROVE  Held(g, a, b) \in [Tokens -> [scopes : SUBSET AllScopes, honoured : BOOLEAN]]
<1>1. NoGrant \in [scopes : SUBSET AllScopes, honoured : BOOLEAN]
  BY DEF NoGrant
<1> QED BY <1>1 DEF Held

LEMMA AskedAreScopes ==
    ASSUME NEW asked \in LoginScopes
    PROVE  asked \subseteq AllScopes
BY DEF LoginScopes, Scopes, AllScopes

LEMMA WroteIsTyped ==
    ASSUME NEW raw \in RawSettings
    PROVE  Wrote(raw) \in [readOnly : BOOLEAN, noSharing : BOOLEAN, destructive : BOOLEAN,
                           declineAll : BOOLEAN]
<1>1. \A s : SaysOn(s) \in BOOLEAN /\ SaysOff(s) \in BOOLEAN
  BY DEF SaysOn, SaysOff
<1>2. (SaysOn(raw.readOnly) \/ raw.removed.READONLY \in {"on", "bad"}) \in BOOLEAN
  OBVIOUS
<1> QED BY <1>1, <1>2 DEF Wrote

LEMMA StartIsRight ==
    ASSUME ServerInv, NEW s \in Startups, Start(s)
    PROVE  ServerInv'
<1>0. PICK raw \in RawSettings : \E cfg \in Build(raw) :
        s = [cfg |-> cfg, wrote |-> Wrote(raw), client |-> raw.client]
  BY DEF Startups
<1>1. PICK cfg \in Build(raw) :
        s = [cfg |-> cfg, wrote |-> Wrote(raw), client |-> raw.client]
  BY <1>0
<1>2. cfg \in Configs /\ Within(cfg, Wrote(raw)) 
  BY <1>1, BuiltAsWritten
<1>3. BuildService(s.client) \in Tokens \union {NoToken}
  BY DEF BuildService, ServerInv, ServerTypeOK
<1>4. Wrote(raw) \in [readOnly : BOOLEAN, noSharing : BOOLEAN, destructive : BOOLEAN,
                      declineAll : BOOLEAN]
  BY <1>1, WroteIsTyped
<1> DEFINE tok == BuildService(s.client)
<1>5. server' = [up |-> TRUE, wrote |-> s.wrote, cfg |-> s.cfg, token |-> tok,
                 access |-> FALSE, zone |-> "unread"]
  BY DEF Start
<1> HIDE DEF tok
<1>6. server' = [up |-> TRUE, wrote |-> Wrote(raw), cfg |-> cfg, token |-> tok,
                 access |-> FALSE, zone |-> "unread"]
  BY <1>1, <1>5
<1>7. server' \in Servers
  BY <1>2, <1>3, <1>4, <1>6 DEF Servers, tok
<1>8. ServerTypeOK'
  BY <1>7 DEF ServerTypeOK, ServerInv, Start
<1>9. server'.cfg = cfg /\ server'.wrote = Wrote(raw)
  BY <1>6
<1>10. Within(server.cfg, server.wrote)'
  BY <1>2, <1>9 DEF Within
<1> QED BY <1>8, <1>10 DEF ServerInv

\* A step that leaves the server's settings alone, or stops it.
LEMMA OtherIsRight ==
    ASSUME ServerInv, ServerTypeOK', server' = server \/ (server'.up => server.up /\ server'.cfg = server.cfg
                                                                /\ server'.wrote = server.wrote)
    PROVE  ServerInv'
BY DEF ServerInv, Within

LEMMA BetweenIsRight ==
    ASSUME ServerInv,
           \/ \E asked \in LoginScopes : Login(asked)
           \/ \E s \in Startups : Start(s)
           \/ Logout \/ Stop \/ AccessExpires \/ ZoneChanges
           \/ \E t \in Tokens : GrantEnds(t)
    PROVE  ServerInv' /\ call' = call
<1> DEFINE Grants == [Tokens -> [scopes : SUBSET AllScopes, honoured : BOOLEAN]]
<1>0. ServerTypeOK /\ grants \in Grants
  BY DEF ServerInv, ServerTypeOK
<1>1. ASSUME NEW asked \in LoginScopes, Login(asked) PROVE ServerInv' /\ call' = call
  <2>0. PICK t \in Tokens : \E left \in SUBSET asked :
           /\ grants' = Held([grants EXCEPT ![t] = [scopes |-> asked \ left, honoured |-> TRUE]],
                              t, server.token)
           /\ stored' = t
    <3>1. PICK t \in Tokens \ {stored, server.token} :
           /\ \E left \in {{}} \union {{x} : x \in asked \intersect Unticked} :
               grants' = Held([grants EXCEPT ![t] = [scopes |-> asked \ left, honoured |-> TRUE]],
                              t, server.token)
           /\ stored' = t
      BY <1>1 DEF Login
    <3>2. PICK left \in {{}} \union {{x} : x \in asked \intersect Unticked} :
               grants' = Held([grants EXCEPT ![t] = [scopes |-> asked \ left, honoured |-> TRUE]],
                              t, server.token)
      BY <3>1
    <3>3. left \in SUBSET asked
      OBVIOUS
    <3> QED BY <3>1, <3>2, <3>3
  <2>1. PICK left \in SUBSET asked :
           /\ grants' = Held([grants EXCEPT ![t] = [scopes |-> asked \ left, honoured |-> TRUE]],
                              t, server.token)
           /\ stored' = t
    BY <2>0
  <2>2. [grants EXCEPT ![t] = [scopes |-> asked \ left, honoured |-> TRUE]] \in Grants
    <3>1. asked \ left \in SUBSET AllScopes
      BY AskedAreScopes
    <3> QED BY <1>0, <3>1
  <2>3. grants' \in Grants
    BY <2>1, <2>2, HeldIsTyped
  <2>4. ServerTypeOK' /\ UNCHANGED <<server, call>>
    BY <1>0, <1>1, <2>1, <2>3 DEF ServerTypeOK, Login
  <2> QED BY <2>4, OtherIsRight
<1>2. ASSUME NEW s \in Startups, Start(s) PROVE ServerInv' /\ call' = call
  BY <1>2, StartIsRight DEF Start
<1>3. CASE Logout
  <2>1. stored \in Tokens
    BY <1>0, <1>3 DEF Logout, ServerTypeOK
  <2>2. [grants EXCEPT ![stored].honoured = FALSE] \in Grants
    BY <1>0, <2>1
  <2>3. grants' \in Grants
    BY <1>3, <2>2, HeldIsTyped DEF Logout
  <2>4. ServerTypeOK' /\ UNCHANGED <<server, call>>
    BY <1>0, <1>3, <2>3 DEF ServerTypeOK, Logout
  <2> QED BY <2>4, OtherIsRight
<1>4. CASE Stop
  <2>1. grants' \in Grants
    BY <1>0, <1>4, HeldIsTyped DEF Stop
  <2>2. ServerTypeOK' /\ ~server'.up /\ call' = call
    BY <1>0, <1>4, <2>1 DEF ServerTypeOK, Stop, NoServer
  <2> QED BY <2>2, OtherIsRight
<1>5. CASE AccessExpires
  <2>1. server \in Servers /\ server' = [server EXCEPT !.access = FALSE]
    BY <1>0, <1>5, ServerIs DEF AccessExpires
  <2>2. /\ server' \in Servers /\ server'.cfg = server.cfg /\ server'.wrote = server.wrote
    BY <2>1 DEF Servers
  <2>3. ServerTypeOK' /\ call' = call /\ server.up
    BY <1>0, <1>5, <2>2 DEF ServerTypeOK, AccessExpires
  <2> QED BY <2>2, <2>3, OtherIsRight
<1>6. CASE ZoneChanges
  <2>1. ServerTypeOK' /\ UNCHANGED <<server, call>>
    BY <1>0, <1>6 DEF ServerTypeOK, ZoneChanges
  <2> QED BY <2>1, OtherIsRight
<1>7. ASSUME NEW t \in Tokens, GrantEnds(t) PROVE ServerInv' /\ call' = call
  <2>1. grants' \in Grants
    BY <1>0, <1>7 DEF GrantEnds
  <2>2. UNCHANGED <<stored, zone, server, call>>
    BY <1>7 DEF GrantEnds
  <2>3. ServerTypeOK'
    BY <1>0, <2>1, <2>2 DEF ServerTypeOK
  <2> QED BY <2>2, <2>3, OtherIsRight
<1> QED BY <1>1, <1>2, <1>3, <1>4, <1>5, <1>6, <1>7

LEMMA EveryStepIsRight ==
    ASSUME ServerInv, OnlyWhatWasMeant /\ DoctorTellsTheTruth /\ HintsAreTrue, [ServerNext]_serverVars
    PROVE  ServerInv' /\ OnlyWhatWasMeant' /\ DoctorTellsTheTruth' /\ HintsAreTrue'
<1>1. CASE Handed
  <2>1. call' = NoCall /\ UNCHANGED <<grants, stored, zone, server>>
    BY <1>1 DEF Handed
  <2>2. NoCall \in [name : Names, arg : Args4, sent : SUBSET Methods,
                    failed : SUBSET (Methods \union {"exchange"}),
                    answer : {"none", "ok", "refused", "auth", "unavailable", "no zone",
                              "not found", "not readable"}, note : Notes]
    <3>1. "none" \in Names /\ "plain" \in Args4 /\ "none" \in Notes
      BY DEF Names, Args4, Notes
    <3> QED BY <3>1 DEF NoCall
  <2>3. ServerTypeOK'
    BY <2>1, <2>2 DEF ServerTypeOK, ServerInv, Names, Args4, Notes
  <2> QED BY <2>1, <2>3, OtherIsRight, NoCallIsRight
<1>2. ASSUME call = NoCall,
             \/ \E asked \in LoginScopes : Login(asked)
             \/ \E s \in Startups : Start(s)
             \/ Logout \/ Stop \/ AccessExpires \/ ZoneChanges
             \/ \E t \in Tokens : GrantEnds(t)
      PROVE  ServerInv' /\ OnlyWhatWasMeant' /\ DoctorTellsTheTruth' /\ HintsAreTrue'
  BY <1>2, BetweenIsRight, NoCallIsRight
<1>3. ASSUME NEW t \in Tools, NEW arg \in Args(t), Call(t, arg)
      PROVE  ServerInv' /\ OnlyWhatWasMeant' /\ DoctorTellsTheTruth' /\ HintsAreTrue'
  BY <1>3, CallIsRight, CallIsHinted
<1>4. ASSUME NEW uri \in URIs, ReadResource(uri)
      PROVE  ServerInv' /\ OnlyWhatWasMeant' /\ DoctorTellsTheTruth' /\ HintsAreTrue'
  BY <1>4, ResourceIsRight, ResourceIsHinted
<1>5. CASE UNCHANGED serverVars
  <2>1. UNCHANGED <<grants, stored, zone, server, call>>
    BY <1>5 DEF serverVars
  <2>2. ServerInv' /\ OnlyWhatWasMeant' /\ HintsAreTrue'
    <3>1. ServerTypeOK'
      BY <2>1 DEF ServerInv, ServerTypeOK
    <3>4. Within(server.cfg, server.wrote)' = Within(server.cfg, server.wrote)
      BY <2>1 DEF Within
    <3>2. OnlyWhatWasMeant'
      BY <2>1 DEF OnlyWhatWasMeant
    <3>3. HintsAreTrue'
      BY <2>1 DEF HintsAreTrue
    <3> QED BY <2>1, <3>1, <3>2, <3>3, <3>4 DEF ServerInv
  <2>3. server'.cfg = server.cfg
    BY <2>1
  <2>4. DoctorTellsTheTruth'
    BY <2>1, <2>3, DoctorStays DEF DoctorTellsTheTruth
  <2> QED BY <2>2, <2>4
<1> QED BY <1>1, <1>2, <1>3, <1>4, <1>5 DEF ServerNext, Between

LEMMA InitIsRight ==
    ASSUME ServerInit
    PROVE  ServerInv /\ OnlyWhatWasMeant /\ DoctorTellsTheTruth /\ HintsAreTrue
<1>1. NoGrant \in [scopes : SUBSET AllScopes, honoured : BOOLEAN] /\ ~NoServer.up
  BY DEF NoGrant, NoServer
<1>2. NoCall \in [name : Tools \union {"none", "unknown tool", "resource"},
                 arg : {"plain", "dry", "past", "confirmed"}, sent : SUBSET Methods,
                 failed : SUBSET (Methods \union {"exchange"}),
                 answer : {"none", "ok", "refused", "auth", "unavailable", "no zone", "not found",
                           "not readable"},
                 note : {"none", "sharing off", "no acl scope", "not the owner"}]
  BY DEF NoCall
<1>3. ServerTypeOK
  BY <1>1, <1>2 DEF ServerInit, ServerTypeOK
<1> QED BY <1>1, <1>3, NoCallIsRight DEF ServerInit, ServerInv

-----------------------------------------------------------------------------
(* The theorems.                                                           *)

LEMMA AllHold == ServerSpec => [](ServerInv /\ OnlyWhatWasMeant /\ DoctorTellsTheTruth /\ HintsAreTrue)
<1>1. ServerInit => ServerInv /\ OnlyWhatWasMeant /\ DoctorTellsTheTruth /\ HintsAreTrue
  BY InitIsRight
<1>2. ServerInv /\ OnlyWhatWasMeant /\ DoctorTellsTheTruth /\ HintsAreTrue /\ [ServerNext]_serverVars
      => (ServerInv /\ OnlyWhatWasMeant /\ DoctorTellsTheTruth /\ HintsAreTrue)'
  BY EveryStepIsRight
<1> QED BY <1>1, <1>2, PTL DEF ServerSpec

\* Whatever is called, and however the switches were written, the requests
\* sent stay within what the operator wrote (config.go Build, tools.go allowed).
THEOREM SentIsMeant == ServerSpec => []OnlyWhatWasMeant
BY AllHold, PTL

\* What a client is told of a tool holds for every request the tool makes
\* (tools.go annotationsFor, PromptEveryCall).
THEOREM ToldIsTrue == ServerSpec => []HintsAreTrue
BY AllHold, PTL

\* What doctor prints as ok of a grant holds for the server that has it
\* (status.go cmdDoctor, service.go Settings).
THEOREM DoctorIsRight == ServerSpec => []DoctorTellsTheTruth
BY AllHold, PTL

=============================================================================
