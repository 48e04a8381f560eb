------------------------------ MODULE YamlText ------------------------------
(***************************************************************************)
(* The text of scalars and the order of map keys in the YAML of yaml.go,   *)
(* and how kubectl reads a scalar.                                         *)
(*                                                                         *)
(* A value is a map, a list or a scalar.  Of a scalar's text the renderer  *)
(* looks for characters that mean something in YAML; the reader resolves   *)
(* one without quotes by what it looks like.  So a text has a class:       *)
(*   "plain"    neither;                                                   *)
(*   "special"  has such a character, or a space;                          *)
(*   "number"   a number;                                                  *)
(*   "empty"    the empty one, which reads as null without quotes;         *)
(*   "foreign"  has none, and is true, null, 123 or the like: the string   *)
(*              reads as a value of another type;                          *)
(*   "edged"    has none, and begins or ends with tabs or line breaks: it  *)
(*              reads as a string without them, or not at all.             *)
(***************************************************************************)
EXTENDS Naturals, FiniteSets

CONSTANT KeyRank   \* the keys of all maps, ranked as slices.Sort orders them

ASSUME KeyRankAssumption ==
  /\ IsFiniteSet(DOMAIN KeyRank) /\ KeyRank \in [DOMAIN KeyRank -> Nat]
  /\ \A k, l \in DOMAIN KeyRank : KeyRank[k] = KeyRank[l] => k = l

Classes == {"plain", "special", "number", "empty", "foreign", "edged"}
Text(t, class) == [type |-> "string", text |-> t, class |-> class]
Number(n) == [type |-> "int", text |-> n, class |-> "number"]
MapOf(f) == [map |-> f]
ListOf(s) == [list |-> s]
Scalar(v, quoted) == [is |-> "scalar", quoted |-> quoted, text |-> v.text, class |-> v.class]

-----------------------------------------------------------------------------
NeedsYAMLQuoting(v) == v.class = "special"
RenderScalar(v) == Scalar(v, v.type = "string" /\ (v.class = "empty" \/ NeedsYAMLQuoting(v)))

\* External: the reader of kubectl.
ReadScalar(token) ==
  CASE token.quoted \/ token.class = "plain" -> Text(token.text, token.class)
    [] ~token.quoted /\ token.class = "number" -> Number(token.text)
    [] OTHER -> [type |-> "other", text |-> token.text, class |-> token.class]

-----------------------------------------------------------------------------
\* The keys D of a map as a sequence, in the order of their ranks.
Below(D, rank, k) == {l \in D : rank[l] <= rank[k]}
Listing(D, rank) ==
  [i \in 1..Cardinality(D) |-> CHOOSE k \in D : Cardinality(Below(D, rank, k)) = i]

\* Faulty: the keys are taken as the map yields them.
KeysUnsorted(D, visit) == Listing(D, visit)

\* Go visits the keys of a map in any order, which visit gives as ranks; what was
\* collected that way is sorted.
Keys(D, visit) ==
  LET collected == Listing(D, visit)
  IN Listing({collected[i] : i \in DOMAIN collected}, KeyRank)

SortedKeys(visit) == [D \in SUBSET DOMAIN KeyRank |-> Keys(D, visit)]
=============================================================================
