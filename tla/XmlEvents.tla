------------------------------ MODULE XmlEvents ------------------------------
(***************************************************************************)
(* Task XML as it is written (xml.rs): container, element and their        *)
(* variants.  An element is the sequence of the events that reading it     *)
(* gives (XmlReader says which there are).                                 *)
(***************************************************************************)
EXTENDS Naturals, Sequences, SequencesExt, FiniteSets

IsList(values) == values \in Seq(ToSet(values))

CONSTANTS
  Pieces,      \* text with special characters -> events of its escape
  Normalized   \* attribute as it is written -> its value, where reading changes it

\* escape_text: special characters come back as references.
TextEvents(t) ==
  IF t = "" THEN <<>>
  ELSE IF t \in DOMAIN Pieces THEN Pieces[t]
  ELSE <<[kind |-> "text", text |-> t]>>

\* push_str.
Joined(all, chunk) == IF all = "" THEN chunk ELSE all \o chunk

\* What a reader makes of a text that was written.
ReadText(t) ==
  LET events == TextEvents(t)
      read[k \in 0..Len(events)] ==
        IF k = 0 THEN "" ELSE Joined(read[k - 1], events[k].text)
  IN read[Len(events)]

ASSUME PiecesAssumption ==
  /\ "" \notin DOMAIN Pieces
  /\ \A t \in DOMAIN Pieces :
       /\ IsList(Pieces[t]) /\ Pieces[t] /= <<>>
       /\ \A e \in ToSet(Pieces[t]) : e.kind \in {"text", "blank", "cdata", "reference"}
       /\ TextEvents(ReadText(t)) = Pieces[t]

\* decoded_and_normalized_value: a tab or a line end becomes a space, and
\* escape_attribute writes both as they are; a reference to one becomes it.
ReadAttribute(v) == IF v \in DOMAIN Normalized THEN Normalized[v] ELSE v

\* None of these is empty, or a version of the schema.
ASSUME NormalizedAssumption ==
  \A v \in DOMAIN Normalized :
    {v, Normalized[v]} \intersect {"", "1.2", "1.3", "1.4", "1.5", "1.6"} = {}

ReadAttributes(attrs) == [n \in DOMAIN attrs |-> ReadAttribute(attrs[n])]

Tag(kind, name, attrs) == [kind |-> kind, name |-> name, attrs |-> attrs]

\* escape_attribute: what it escapes comes back.
Attribute(name, value) == [n \in {name} |-> value]

Container(name, attrs, content, kids) ==
  <<Tag("start", name, attrs)>> \o TextEvents(content) \o FlattenSeq(kids)
    \o <<[kind |-> "end"]>>

Plain(name, kids) == Container(name, <<>>, "", kids)

\* container_with_id.
WithId(name, id, kids) ==
  Container(name, IF id = <<>> THEN <<>> ELSE Attribute("id", id[1]), "", kids)

Element(name, content) == Container(name, <<>>, content, <<>>)

EmptyElement(name) == <<Tag("empty", name, <<>>)>>

BoolElement(name, value) == Element(name, IF value THEN "true" ELSE "false")

\* The elements of an option or of a list.
Each(values, Write(_)) == [i \in DOMAIN values |-> Write(values[i])]

OptionalElement(name, value) == Each(value, LAMBDA v : Element(name, v))

\* A flag that is written when it is set.
Raised(name, value) == IF value THEN <<BoolElement(name, TRUE)>> ELSE <<>>

\* A list that is left out when it is empty.
ListElement(name, kids) == IF kids = <<>> THEN <<>> ELSE <<Plain(name, kids)>>

\* node_to_xml, of a node whose children have theirs.
NodeXml(node) ==
  IF node.kids = <<>> /\ node.text = ""
  THEN <<Tag("empty", node.name, node.attrs)>>
  ELSE Container(node.name, node.attrs, node.text, Each(node.kids, LAMBDA kid : kid.xml))
=============================================================================
