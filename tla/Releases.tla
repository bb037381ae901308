------------------------------ MODULE Releases ------------------------------
(* How a change of the tool surface reaches a release, and the gates on the  *)
(* way: schema-ack and schema-diff on a pull request, schema-baseline in the *)
(* release commit, schema-diff again on the commit that is tagged            *)
(* (scripts/gates/schemaack.go, schemadiff.go; docs/release.md, ci.yml and   *)
(* release.yml say when each runs).                                          *)
(*                                                                           *)
(* A tree is what a commit holds: the surface its build publishes, the       *)
(* recorded baseline, the CHANGELOG's newest heading, and what is under      *)
(* [Unreleased]: entries, and the items **Breaking:** entries name.  A       *)
(* version is <<major, minor>>.                                              *)
EXTENDS Integers

CONSTANTS Items,         \* tools and resources
          Schema,        \* what is published of an item, by name
          Values, TypesOf,
          FirstSurface,  \* the first release's surface, from each item to a name
          NewForms,      \* the forms a pull request may give each item
          Versions,      \* the versions a release may have
          MaxMerges      \* bound: pull requests merged

INSTANCE SchemaDiff

VARIABLES main,       \* the tree at the head of the main branch
          pr,         \* a pull request: the branch, its footers and entries
          rel,        \* the release commit a maintainer prepares
          pending,    \* the newest release commit on main, until it is tagged
          shipped,    \* the newest tag: its version and its build's surface
          named,      \* the items footers on main name, since that release
          printed,    \* the items schema-baseline noted for this release
          merges

vars == <<main, pr, rel, pending, shipped, named, printed, merges>>

Surfaces == {s \in UNION {[is -> DOMAIN Schema] : is \in SUBSET Items} :
                \A i \in DOMAIN s : s[i] \in NewForms[i]}
Published(s) == [i \in DOMAIN s |-> Schema[s[i]]]

Diffs == [was \in Surfaces |-> [now \in Surfaces |->
            CompareSurfaces(Published(was), Published(now))]]

Serves == [old \in DOMAIN Schema |-> [new \in DOMAIN Schema |->
             ServesCallersOf(Schema[old], Schema[new])]]

\* Names stand for forms one for one, and a version is a pair of numbers.
ASSUME FormsNamed ==
    /\ NewForms \in [Items -> SUBSET DOMAIN Schema]
    /\ FirstSurface \in Surfaces
    /\ \A f, g \in DOMAIN Schema : Schema[f] = Schema[g] => f = g
    /\ "absent" \notin DOMAIN Schema
    /\ Versions \subseteq Int \X Int
    /\ MaxMerges \in Nat

\* What is published of an item are two sides, and an integer is a number.
ASSUME SchemasPublished ==
    /\ \A f \in DOMAIN Schema : IsSide(Schema[f].inputs) /\ IsSide(Schema[f].outputs)
    /\ \A v \in Values : "integer" \in TypesOf[v] => "number" \in TypesOf[v]

NewMajor(from, to) == to[1] > from[1]
Later(v, w) == w[1] > v[1] \/ (w[1] = v[1] /\ w[2] > v[2])

-----------------------------------------------------------------------------
SchemaDiffNamesOnly(tree) ==
    LET c == Diffs[tree.baseline.surface][tree.surface]
    IN  /\ tree.baseline.version = tree.heading
        /\ ItemsOf(c.breaking) \subseteq tree.breaking

\* schema-diff: the baseline is the newest release's, every break is under
\* **Breaking:**, and with nothing unreleased the surface is the baseline's.
SchemaDiff(tree) ==
    LET c == Diffs[tree.baseline.surface][tree.surface]
    IN  /\ tree.baseline.version = tree.heading
        /\ ItemsOf(c.breaking) \subseteq tree.breaking
        /\ ~tree.entries => NoChange(c)

\* Only those breaks that the head also makes against the released surface
\* break a caller; the others are plain changes.
ReleaseBreaksOnly(c, released) ==
    [c EXCEPT !.breaking = c.breaking \intersect released,
              !.changed = c.changed \union ItemsOf(c.breaking \ released)]

CheckAckAdded(base, head, baseline, acked, breaks) ==
    LET c == ReleaseBreaksOnly(Diffs[base][head],
                               Diffs[baseline.surface][head].breaking)
    IN  /\ ItemsOf(c.breaking) \subseteq breaks
        /\ c.added \subseteq acked \union breaks

\* schema-ack: from the merge-base to the head, every break of a release is
\* named in a BREAKING CHANGE: footer, and every other item in some footer.
CheckAck(base, head, baseline, acked, breaks) ==
    LET c == ReleaseBreaksOnly(Diffs[base][head],
                               Diffs[baseline.surface][head].breaking)
    IN  /\ ItemsOf(c.breaking) \subseteq breaks
        /\ c.added \union c.changed \subseteq acked \union breaks

\* git's merge of a branch: an item one side changed is as that side has it.
Form(s, i) == IF i \in DOMAIN s THEN s[i] ELSE "absent"
Conflict(base, ours, theirs) ==
    \E i \in Items : /\ Form(ours, i) # Form(base, i)
                     /\ Form(theirs, i) # Form(base, i)
                     /\ Form(ours, i) # Form(theirs, i)
Merged(base, ours, theirs) ==
    LET form(i) == IF Form(theirs, i) # Form(base, i) THEN Form(theirs, i)
                                                     ELSE Form(ours, i)
    IN  [i \in {j \in Items : form(j) # "absent"} |-> form(i)]

\* A surface with one item in another form, or gone.
Reformed(s, i, f) ==
    [j \in {k \in Items : IF k = i THEN f # "absent" ELSE k \in DOMAIN s} |->
        IF j = i THEN f ELSE s[j]]

\* The tree a merge leaves.  An entry written under [Unreleased] may land
\* under the heading that a release commit put over it since: kept says
\* whether it stays unreleased.
MergeTree(tree, p, kept) ==
    [surface  |-> Merged(p.base, tree.surface, p.head),
     baseline |-> tree.baseline,
     heading  |-> tree.heading,
     entries  |-> tree.entries \/ (kept /\ p.entries),
     breaking |-> tree.breaking \union (IF kept THEN p.breaking ELSE {})]

-----------------------------------------------------------------------------
NoBranch == [phase |-> "none"]
NotPreparing == [on |-> FALSE]
NothingToTag == [on |-> FALSE]

Init ==
    /\ \E v \in {w \in Versions : \A x \in Versions : x = w \/ Later(w, x)} :
         shipped = [version |-> v, surface |-> FirstSurface]
    /\ main = [surface |-> FirstSurface, baseline |-> shipped,
               heading |-> shipped.version, entries |-> FALSE, breaking |-> {}]
    /\ pr = NoBranch /\ rel = NotPreparing /\ pending = NothingToTag
    /\ named = {} /\ printed = {} /\ merges = 0

\* A branch is cut from main as it is.
Branch ==
    /\ merges < MaxMerges
    /\ pr.phase = "cut" => pr.base # main.surface \/ pr.at # main.heading
    /\ pr' = [phase |-> "cut", base |-> main.surface, at |-> main.heading]
    /\ UNCHANGED <<main, rel, pending, shipped, named, printed, merges>>

\* CI on a pull request: schema-ack from the merge-base, and schema-diff on
\* the merge with main as main is now.
Acked(head, acked, breaks) ==
    /\ ~Conflict(pr.base, main.surface, head)
    /\ CheckAck(pr.base, head, main.baseline, acked, breaks)

Pushed(head, footers, entries, breaking) ==
    /\ breaking # {} => entries
    /\ pr' = [phase |-> "checked", base |-> pr.base, at |-> pr.at, head |-> head,
              named |-> footers, entries |-> entries, breaking |-> breaking]
    /\ SchemaDiff(MergeTree(main, pr', TRUE))

\* Its head changes one item, with the footers and the CHANGELOG entries its
\* author wrote, and CI passes.
Check ==
    /\ pr.phase = "cut"
    /\ \E i \in Items : \E f \in (NewForms[i] \union {"absent"}) \ {Form(pr.base, i)} :
       \E acked \in {{}, {i}}, breaks \in {{}, {i}} :
         /\ Acked(Reformed(pr.base, i, f), acked, breaks)
         /\ \E entries \in BOOLEAN, breaking \in {{}, {i}} :
              Pushed(Reformed(pr.base, i, f), acked \union breaks, entries, breaking)
    /\ UNCHANGED <<main, rel, pending, shipped, named, printed, merges>>

\* It is merged; main may have moved since it was checked.
Merge ==
    /\ pr.phase = "checked" /\ merges < MaxMerges
    /\ ~Conflict(pr.base, main.surface, pr.head)
    /\ \E kept \in (IF pr.at = main.heading THEN {TRUE} ELSE BOOLEAN) :
         main' = MergeTree(main, pr, kept)
    /\ pr' = NoBranch /\ merges' = merges + 1
    /\ named' = named \union pr.named
    /\ rel' = IF rel.on THEN [rel EXCEPT !.fresh = FALSE] ELSE rel
    /\ pending' = IF pending.on THEN [pending EXCEPT !.after = @ \union pr.named] ELSE pending
    /\ UNCHANGED <<shipped, printed>>

-----------------------------------------------------------------------------
\* What a release commit holds of main: the new heading over what was
\* unreleased, and the baseline as the maintainer's checkout has it.
Renamed(tree, baseline, v) ==
    [surface |-> tree.surface, baseline |-> baseline, heading |-> v,
     entries |-> FALSE, breaking |-> {}]

\* A tree with another baseline written in it.
Recorded(tree, baseline) == [tree EXCEPT !.baseline = baseline]

\* A maintainer starts the next release, or mends one landed and not tagged.
Prepare ==
    /\ ~rel.on
    /\ \E v \in IF main.heading = shipped.version
                THEN {w \in Versions : Later(shipped.version, w)} ELSE {main.heading} :
         rel' = [on |-> TRUE, fresh |-> TRUE, tree |-> Renamed(main, main.baseline, v)]
    /\ UNCHANGED <<main, pr, pending, shipped, named, printed, merges>>

WriteBaselineAnyBreak ==
    /\ rel.on
    /\ LET c == Diffs[rel.tree.baseline.surface][rel.tree.surface]
       IN  /\ rel' = [rel EXCEPT !.tree = Recorded(rel.tree,
                        [version |-> rel.tree.heading, surface |-> rel.tree.surface])]
           /\ printed' = printed \union c.notes
    /\ rel'.tree.baseline # rel.tree.baseline
    /\ UNCHANGED <<main, pr, pending, shipped, named, merges>>

\* make schema-baseline: a break is refused unless the release is a new major.
WriteBaseline ==
    /\ rel.on
    /\ LET base == rel.tree.baseline
           want == rel.tree.heading
           c == Diffs[base.surface][rel.tree.surface]
       IN  /\ c.breaking = {} \/ NewMajor(base.version, want)
           /\ rel' = [rel EXCEPT !.tree =
                        Recorded(rel.tree, [version |-> want, surface |-> rel.tree.surface])]
           /\ printed' = printed \union c.notes
    /\ rel'.tree.baseline # rel.tree.baseline
    /\ UNCHANGED <<main, pr, pending, shipped, named, merges>>

\* The baseline is relabelled by hand, or restored from the last tag.
EditBaseline ==
    /\ rel.on
    /\ \E b \in {[rel.tree.baseline EXCEPT !.version = rel.tree.heading], shipped} :
         /\ b # rel.tree.baseline
         /\ rel' = [rel EXCEPT !.tree = Recorded(rel.tree, b)]
    /\ UNCHANGED <<main, pr, pending, shipped, named, printed, merges>>

\* main moved under the commit being prepared: it is put on top again.
Rebase ==
    /\ rel.on /\ ~rel.fresh
    /\ rel' = [on |-> TRUE, fresh |-> TRUE,
               tree |-> Renamed(main, rel.tree.baseline, rel.tree.heading)]
    /\ UNCHANGED <<main, pr, pending, shipped, named, printed, merges>>

\* The release commit lands on top of main.
Land ==
    /\ rel.on /\ rel.fresh
    /\ main' = rel.tree /\ rel' = NotPreparing
    /\ pending' = [on |-> TRUE, tree |-> rel.tree, after |-> {}]
    /\ UNCHANGED <<pr, shipped, named, printed, merges>>

\* The commit is tagged, by the one maintainer, who is not mending it just
\* then: verify-ci asks that ci passed on exactly that commit.
Tag ==
    /\ pending.on /\ ~rel.on
    /\ SchemaDiff(pending.tree)
    /\ shipped' = [version |-> pending.tree.heading, surface |-> pending.tree.surface]
    /\ named' = pending.after /\ printed' = {}
    /\ pending' = NothingToTag
    /\ UNCHANGED <<main, pr, rel, merges>>

Next == Branch \/ Check \/ Merge \/ Prepare \/ WriteBaseline \/ EditBaseline
          \/ Rebase \/ Land \/ Tag

Spec == Init /\ [][Next]_vars

-----------------------------------------------------------------------------
(* A release with the same major version serves every caller of the one      *)
(* before it: each call that one took it takes, and each result it gives     *)
(* that one's callers can read, unless schema-baseline noted the tool for    *)
(* the maintainer.  However the baseline was written, restored, relabelled   *)
(* or left behind, and whatever merged meanwhile (schemadiff.go, doc.go).    *)
ServesOld(old, new) ==
    /\ DOMAIN old \subseteq DOMAIN new
    /\ \A i \in DOMAIN old \ printed : Serves[old[i]][new[i]]

MinorKeepsCallers ==
    [][shipped' # shipped /\ ~NewMajor(shipped.version, shipped'.version)
         => ServesOld(shipped.surface, shipped'.surface)]_vars

(* Once a release is tagged, the baseline recorded for it is the surface it  *)
(* shipped, in main and in every later tree, until another is recorded.      *)
BaselineIsWhatShipped ==
    main.heading = shipped.version => main.baseline = shipped

(* Whatever differs between main's surface and the newest release's, some    *)
(* commit since that release names the item in a footer, though the branch   *)
(* was measured from its own merge-base and merged later.                    *)
EveryChangeNamed ==
    LET c == Diffs[shipped.surface][main.surface]
    IN  c.added \union c.changed \union ItemsOf(c.breaking) \subseteq named

Baseline == [version : Versions, surface : Surfaces]
Tree == [surface : Surfaces, baseline : Baseline, heading : Versions,
         entries : BOOLEAN, breaking : SUBSET Items]
CutIn == [phase : {"cut"}, base : Surfaces, at : Versions]
CheckedIn ==
    [phase : {"checked"}, base : Surfaces, at : Versions, head : Surfaces,
     named : SUBSET Items, entries : BOOLEAN, breaking : SUBSET Items]
PreparedIn == [on : {TRUE}, fresh : BOOLEAN, tree : Tree]
PendingIn == [on : {TRUE}, tree : Tree, after : SUBSET Items]
TypeOK ==
    /\ main \in Tree /\ shipped \in Baseline
    /\ pr \in {NoBranch} \union CutIn \union CheckedIn
    /\ rel \in {NotPreparing} \union PreparedIn
    /\ pending \in {NothingToTag} \union PendingIn
    /\ named \subseteq Items /\ printed \subseteq Items /\ merges \in 0..MaxMerges
=============================================================================
