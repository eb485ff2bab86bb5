----------------------------- MODULE SlateBuilder -----------------------------
(***************************************************************************)
(* SlateBuilders, each at a point of the tree of names, and the rights     *)
(* that come with what they create and bind.  A path is a sequence of      *)
(* names.  The stores behind the builders are external: bind_write and     *)
(* bind_read return the ID that the layout builds for the access policy of *)
(* the element, that of a super slate elevated to read and write.          *)
(***************************************************************************)
EXTENDS Integers, FiniteSets, SequencesExt

CONSTANTS
    Paths,        \* of elements and of subtrees; the root is the empty one
    Shards,       \* "static" and others
    MaxMade       \* bound: builders, the root included, elements, IDs and tokens

VARIABLES
    builders,     \* subtree, permission (shards one may create in), masked paths, super
    elements,     \* of each path: shard, access policy, validator, and the element
                  \* whose memory it is: another one than itself if it is a view
    held,         \* the IDs and tokens of the clients: path, kind, may_write and
                  \* has_validator of the ID, and how the right was come by
    built

vars == <<builders, elements, held, built>>

Policies == {"private", "read_only", "read_write"}
Kinds == {"id", "ReadToken", "WriteToken", "WriteValidatorToken"}
Origins == {"creator", "bound", "super"}
Writes(kind) == kind \in {"WriteToken", "WriteValidatorToken"}

TypeOK ==
    /\ \A b \in builders :
          b \in [subtree : Paths \cup {<<>>}, permission : SUBSET Shards, masks : SUBSET Paths,
                 forbidden : SUBSET Paths, super : BOOLEAN]
    /\ DOMAIN elements \subseteq Paths
    /\ \A p \in DOMAIN elements :
          elements[p] \in [shard : Shards, policy : Policies, validator : BOOLEAN,
                           memory : DOMAIN elements]
    /\ \A h \in held :
          h \in [path : DOMAIN elements, kind : Kinds, write : BOOLEAN, validator : BOOLEAN,
                 origin : Origins]
    /\ built \in BOOLEAN

\* forbidden is what was ever masked on the way from the root to a builder (history).
Init ==
    /\ builders = {[subtree |-> <<>>, permission |-> Shards, masks |-> {}, forbidden |-> {},
                    super |-> FALSE]}
    /\ elements = [p \in {} |-> {}]
    /\ held = {}
    /\ built = FALSE

-----------------------------------------------------------------------------
(* Builders. *)

is_permitted_path(b, p) == ~\E m \in b.masks : IsPrefix(m, p)

Bug_Kept(b, subtree) == {}

\* The masks of b that still apply below its new root.
Kept(b, subtree) == {m \in b.masks : IsPrefix(subtree, m)}

Room == Cardinality(builders) + Cardinality(DOMAIN elements) + Cardinality(held) < MaxMade

\* sub_slate, given the paths that result: those masked so far, which are absolute, are
\* compared with the relative path of the new root.
SubSlate(b, subtree, masks, permission) ==
    LET rel == SubSeq(subtree, Len(b.subtree) + 1, Len(subtree))
    IN  /\ Room
        /\ IsStrictPrefix(b.subtree, subtree)
        /\ \A m \in masks : IsPrefix(subtree, m)
        /\ permission \subseteq b.permission
        /\ is_permitted_path(b, rel)
        /\ builders' = builders \cup
               {[b EXCEPT !.subtree = subtree, !.permission = permission,
                          !.masks = masks \cup Kept(b, subtree), !.forbidden = @ \cup masks]}
        /\ UNCHANGED <<elements, held, built>>

\* Only the root one makes a super slate; it ignores masks and policies.
SuperSlate(b) ==
    /\ Room
    /\ b.subtree = <<>> /\ ~b.super
    /\ builders' = builders \cup {[b EXCEPT !.super = TRUE, !.masks = {}, !.forbidden = {}]}
    /\ UNCHANGED <<elements, held, built>>

-----------------------------------------------------------------------------
(* Elements. *)

\* add_element_and_build_id
AddElement(p, shard, policy, validator, memory) ==
    /\ p \notin DOMAIN elements
    /\ elements' = [q \in DOMAIN elements \cup {p} |->
                       IF q = p THEN [shard |-> shard, policy |-> policy,
                                      validator |-> validator, memory |-> memory]
                       ELSE elements[q]]

\* register_token and, for "id", the ID itself.  A token that does not suit the
\* element is refused when the element has been made already.
Registered(kind, id) ==
    CASE kind = "id" -> {id}
      [] kind = "ReadToken" -> {[id EXCEPT !.kind = kind, !.write = FALSE]}
      [] OTHER -> IF id.write /\ ((kind = "WriteValidatorToken") = id.validator)
                  THEN {[id EXCEPT !.kind = kind]} ELSE {}

\* create and create_element.
Create(b, p, shard, policy, validator, kind) ==
    /\ ~built /\ Room
    /\ shard \in b.permission
    /\ IsStrictPrefix(b.subtree, p) /\ is_permitted_path(b, p)
    /\ AddElement(p, shard, policy, validator, p)
    /\ held' = held \cup
           Registered(kind, [path |-> p, kind |-> "id", write |-> shard # "static",
                             validator |-> validator, origin |-> "creator"])
    /\ UNCHANGED <<builders, built>>

Policy(b, p) == IF b.super THEN "read_write" ELSE elements[p].policy

\* bind and get_element_id: what build_element_id makes of the policy.
Bind(b, p, kind) ==
    LET id == [path |-> p, kind |-> "id", write |-> Policy(b, p) = "read_write",
               validator |-> elements[p].validator,
               origin |-> IF b.super THEN "super" ELSE "bound"]
    IN  /\ ~built /\ Room
        /\ p \in DOMAIN elements
        /\ IsStrictPrefix(b.subtree, p) /\ is_permitted_path(b, p)
        /\ Policy(b, p) # "private"
        /\ held' = held \cup Registered(kind, id)
        /\ UNCHANGED <<builders, elements, built>>

Bug_ViewWrites(id) == elements[id.path].shard # "static"

ViewWrites(id) == elements[id.path].shard # "static" /\ id.write

\* create_view, by an ID or a token: the view has the policy of its parent and a token
\* of the same kind, and it is made whatever the permission of the builder.
CreateView(b, id, p) ==
    LET parent == elements[id.path]
    IN  /\ ~built /\ Room
        /\ id \in held
        /\ IsStrictPrefix(b.subtree, p) /\ is_permitted_path(b, p)
        /\ ~(parent.validator /\ parent.policy = "read_write")
        /\ AddElement(p, parent.shard, parent.policy, FALSE, parent.memory)
        /\ held' = held \cup
               Registered(id.kind, [id EXCEPT !.path = p, !.kind = "id", !.write = ViewWrites(id),
                                              !.validator = FALSE])
        /\ UNCHANGED <<builders, built>>

Build == ~built /\ built' = TRUE /\ UNCHANGED <<builders, elements, held>>

\* The public overloads of sub_slate mask paths or restrict the permission.
Next ==
    \/ \E b \in builders :
        \/ \E p \in Paths, m \in Paths : SubSlate(b, p, {m}, b.permission)
        \/ \E p \in Paths, permission \in SUBSET b.permission : SubSlate(b, p, {}, permission)
        \/ SuperSlate(b)
        \/ \E p \in Paths :
            \/ \E shard \in Shards, policy \in Policies, v \in BOOLEAN, kind \in Kinds :
                Create(b, p, shard, policy, v, kind)
            \/ \E kind \in Kinds : Bind(b, p, kind)
            \/ \E id \in held : CreateView(b, id, p)
    \/ Build

Spec == Init /\ [][Next]_vars

-----------------------------------------------------------------------------
(***************************************************************************)
(* Nobody writes what its creator keeps to itself or lets others only      *)
(* read, unless through a super slate: not by binding, and not by laying a *)
(* view over what was bound, under any name and for any number of views.   *)
(* And a token writes through a validator exactly if its element has one.  *)
(***************************************************************************)
NobodyElevates ==
    \A h \in held :
        /\ h.write /\ h.origin = "bound" => elements[elements[h.path].memory].policy = "read_write"
        /\ Writes(h.kind) =>
              h.write /\ ((h.kind = "WriteValidatorToken") = elements[h.path].validator)

(***************************************************************************)
(* What was masked stays masked in the builders made further down the      *)
(* tree, as long as these are rooted above it.                             *)
(***************************************************************************)
MasksBelowAreKept ==
    \A b \in builders : \A m \in b.forbidden : IsPrefix(b.subtree, m) => m \in b.masks

(***************************************************************************)
(* "Check to see if we're trying to create a forbidden path": no builder   *)
(* reaches what one on the way to it had masked.  It does.                 *)
(***************************************************************************)
MaskedIsOutOfReach ==
    \A b \in builders : \A m \in b.forbidden, p \in Paths :
        IsPrefix(m, p) /\ IsPrefix(b.subtree, p) => ~is_permitted_path(b, p)

(***************************************************************************)
(* "Note that the parent cannot have a validator, which is checked above": *)
(* who can write the memory of an element with a validator writes through  *)
(* the validator.  The creator of a read-only one, by a view, does not.    *)
(***************************************************************************)
WritesAreValidated ==
    \A h \in held : h.write /\ elements[elements[h.path].memory].validator => h.validator
=============================================================================
