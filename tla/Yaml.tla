-------------------------------- MODULE Yaml --------------------------------
(***************************************************************************)
(* The YAML renderer (yaml.go), and what kubectl reads from its text.      *)
(*                                                                         *)
(* A text is a sequence of lines: a number of leading blanks and the       *)
(* tokens after them.  keysOf has the sorted keys of a map by their set.   *)
(* Documents are a sequence: "---" between them is the line of no other.   *)
(*                                                                         *)
(* RECURSIVE: for TLC only.                                                *)
(***************************************************************************)
EXTENDS YamlText, Naturals, Sequences
LOCAL INSTANCE SequencesExt

IsMap(v) == "map" \in DOMAIN v
IsList(v) == "list" \in DOMAIN v

Dash == [is |-> "dash"]
Braces == [is |-> "braces"]
Key(k) == [is |-> "key", key |-> k]
Line(indent, tokens) == [indent |-> indent, tokens |-> tokens]

-----------------------------------------------------------------------------
(* yaml.go *)

Nested(indent) == indent + 2

RECURSIVE RenderMap(_, _, _), RenderList(_, _, _)

RenderEntry(k, v, indent, keysOf) ==
  IF IsMap(v) THEN <<Line(indent, <<Key(k)>>)>> \o RenderMap(v.map, Nested(indent), keysOf)
  ELSE IF IsList(v) THEN <<Line(indent, <<Key(k)>>)>> \o RenderList(v.list, Nested(indent), keysOf)
  ELSE <<Line(indent, <<Key(k), RenderScalar(v)>>)>>

RenderMap(f, indent, keysOf) ==
  LET keys == keysOf[DOMAIN f]
  IN FlattenSeq([i \in DOMAIN keys |-> RenderEntry(keys[i], f[keys[i]], indent, keysOf)])


\* The first line of a map in a list moves up behind the dash.
RenderItem(v, indent, keysOf) ==
  LET lines == IF IsMap(v) THEN RenderMap(v.map, Nested(indent), keysOf) ELSE <<>>
  IN IF IsList(v) THEN <<Line(indent, <<Dash>>)>> \o RenderList(v.list, Nested(indent), keysOf)
     ELSE IF ~IsMap(v) THEN <<Line(indent, <<Dash, RenderScalar(v)>>)>>
     ELSE IF lines = <<>> THEN <<Line(indent, <<Dash, Braces>>)>>
     ELSE <<Line(indent, <<Dash>> \o lines[1].tokens)>> \o Tail(lines)

RenderList(s, indent, keysOf) ==
  FlattenSeq([i \in DOMAIN s |-> RenderItem(s[i], indent, keysOf)])

RenderYAMLDocuments(manifests, keysOf) ==
  [i \in DOMAIN manifests |-> RenderMap(manifests[i].map, 0, keysOf)]

-----------------------------------------------------------------------------
(* External: the reader of kubectl, for block style.                       *)

Null == [type |-> "null", text |-> "", class |-> "plain"]

\* A block is split at the lines with the indentation of its first.
Starts(lines) == {i \in DOMAIN lines : lines[i].indent = lines[1].indent}
Part(lines, i) ==
  LET ends == {j \in Starts(lines) : j > i}
  IN SubSeq(lines, i, IF ends = {} THEN Len(lines)
                      ELSE (CHOOSE j \in ends : \A k \in ends : j <= k) - 1)

RECURSIVE Read(_)

ReadEntry(part) == IF Len(part[1].tokens) = 2 THEN ReadScalar(part[1].tokens[2])
                                              ELSE Read(Tail(part))

ReadItem(part) ==
  IF Len(part[1].tokens) = 1 THEN Read(Tail(part))
  ELSE Read(<<Line(part[1].indent + 2, Tail(part[1].tokens))>> \o Tail(part))

\* Of two entries with one key the last one counts.
Read(lines) ==
  IF lines = <<>> THEN Null
  ELSE LET first == lines[1].tokens[1]
       IN CASE first.is = "key" ->
                 LET KeyAt(i) == lines[i].tokens[1].key
                     Latest(k) == CHOOSE i \in Starts(lines) :
                                  KeyAt(i) = k /\ \A j \in Starts(lines) : KeyAt(j) = k => j <= i
                 IN MapOf([k \in {KeyAt(i) : i \in Starts(lines)} |-> ReadEntry(Part(lines, Latest(k)))])
            [] first.is = "dash" ->
                 LET items == SetToSortSeq(Starts(lines), <)
                 IN ListOf([i \in DOMAIN items |-> ReadItem(Part(lines, items[i]))])
            [] first.is = "braces" -> MapOf(<<>>)
            [] first.is = "scalar" -> ReadScalar(first)

ReadDocuments(documents) == [i \in DOMAIN documents |-> Read(documents[i])]
=============================================================================
