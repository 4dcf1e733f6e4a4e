----------------------------- MODULE XmlReader -----------------------------
(***************************************************************************)
(* The bounded Task XML reader: parse_dom (xml.rs).  The events of one     *)
(* document are taken one at a time; open elements wait on a stack, a      *)
(* closed element becomes the last child of the one that encloses it.      *)
(* Documents with a DTD, with references or text outside the root, with    *)
(* several roots or with too many or too deeply nested elements are        *)
(* refused.                                                                *)
(*                                                                         *)
(* An event is a record whose kind is "start", "empty", "end", "text",     *)
(* "blank" (text of white space), "cdata", "reference", "illegal" (a       *)
(* reference that is no character of XML 1.0 or not declared), "doctype",  *)
(* "malformed" (what the lexer rejects: a mismatched end, a duplicate      *)
(* attribute) or "comment" (with declarations and processing               *)
(* instructions).  The lexer is external.                                  *)
(***************************************************************************)
EXTENDS XmlEvents

VARIABLES
  text,     \* the events of the document
  limits,   \* ParseLimits: [max_bytes, max_depth, max_nodes]
  at,       \* number of events taken
  stack,    \* the open elements
  root,     \* the root element once it is closed: at most one
  nodes,    \* elements counted
  outcome   \* "closed", "reading", "accepted" or "refused"

readerVars == <<text, limits, at, stack, root, nodes, outcome>>

\* Node: the texts directly inside an element are joined.  xml stands for the
\* tree below the node: it is what node_to_xml makes of it, which no longer
\* changes once the element is closed.
Node(event) ==
  [name |-> event.name, attrs |-> ReadAttributes(event.attrs), kids |-> <<>>,
   text |-> "", xml |-> <<>>]

Finished(node) == [node EXCEPT !.xml = NodeXml(node)]

Event == text[at + 1]

Taking(kind) ==
  /\ outcome = "reading" /\ at < Len(text)
  /\ Event.kind = kind

Consume == at' = at + 1 /\ UNCHANGED <<text, limits>>

Refuse == outcome' = "refused" /\ UNCHANGED <<stack, root, nodes>>

Top == stack[Len(stack)]

\* A finished element goes to its parent, or is the root.
Attach(node, open) ==
  IF open /= <<>>
  THEN /\ stack' = [open EXCEPT ![Len(open)].kids = Append(@, Finished(node))]
       /\ UNCHANGED <<root, outcome>>
  ELSE /\ stack' = <<>>
       /\ IF root = <<>>
          THEN root' = <<Finished(node)>> /\ UNCHANGED outcome
          ELSE outcome' = "refused" /\ UNCHANGED root

\* Mutant of TooMany: the last element that is allowed is refused.
TooMany_early == nodes + 1 >= limits.max_nodes \/ Len(stack) >= limits.max_depth

TooMany == nodes + 1 > limits.max_nodes \/ Len(stack) >= limits.max_depth

Start ==
  /\ Taking("start")
  /\ Consume
  /\ IF TooMany
     THEN Refuse
     ELSE /\ nodes' = nodes + 1
          /\ stack' = Append(stack, Node(Event))
          /\ UNCHANGED <<root, outcome>>

Empty ==
  /\ Taking("empty")
  /\ Consume
  /\ IF TooMany
     THEN Refuse
     ELSE nodes' = nodes + 1 /\ Attach(Node(Event), stack)

End ==
  /\ Taking("end")
  /\ Consume
  /\ IF stack = <<>>
     THEN Refuse
     ELSE Attach(Top, Front(stack)) /\ UNCHANGED nodes

AppendText(chunk) ==
  /\ stack' = [stack EXCEPT ![Len(stack)].text = Joined(@, chunk)]
  /\ UNCHANGED <<root, nodes, outcome>>

\* Text outside the root is refused unless it is blank, CDATA is dropped.
Text ==
  \E kind \in {"text", "blank", "cdata"} :
    /\ Taking(kind)
    /\ Consume
    /\ CASE stack /= <<>> -> AppendText(Event.text)
         [] stack = <<>> /\ kind = "text" -> Refuse
         [] OTHER -> UNCHANGED <<stack, root, nodes, outcome>>

\* resolve_reference.
Reference ==
  /\ Taking("reference")
  /\ Consume
  /\ IF stack = <<>> THEN Refuse ELSE AppendText(Event.text)

Illegal ==
  /\ \E kind \in {"illegal", "doctype", "malformed"} : Taking(kind)
  /\ Consume
  /\ Refuse

Comment ==
  /\ Taking("comment")
  /\ Consume
  /\ UNCHANGED <<stack, root, nodes, outcome>>

Eof ==
  /\ outcome = "reading" /\ at = Len(text)
  /\ outcome' = IF stack = <<>> /\ root /= <<>> THEN "accepted" ELSE "refused"
  /\ UNCHANGED <<text, limits, at, stack, root, nodes>>

Read == Start \/ Empty \/ End \/ Text \/ Reference \/ Illegal \/ Comment \/ Eof

\* parse_dom is called.  The length of a text is counted in events.
Open(events, bounds) ==
  /\ text' = events /\ limits' = bounds
  /\ at' = 0 /\ stack' = <<>> /\ root' = <<>> /\ nodes' = 0
  /\ outcome' = IF Len(events) > bounds.max_bytes THEN "refused" ELSE "reading"

\* No document has been opened.
Closed(events, bounds) ==
  /\ text = events /\ limits = bounds
  /\ at = 0 /\ stack = <<>> /\ root = <<>> /\ nodes = 0
  /\ outcome = "closed"

-----------------------------------------------------------------------------
(***************************************************************************)
(* What a document is, without reading it: used by the properties.         *)
(***************************************************************************)

CountOf(kinds, k) == Cardinality({j \in 1..k : text[j].kind \in kinds})

\* Elements open after the first k events.
OpenAfter(k) == CountOf({"start"}, k) - CountOf({"end"}, k)

TopLevel == {k \in DOMAIN text :
               text[k].kind \in {"start", "empty"} /\ OpenAfter(k - 1) = 0}

\* One root, every element closed, nothing but blanks, comments and CDATA
\* outside it, no DTD and no illegal reference anywhere, and within bounds.
WellFormed ==
  /\ Cardinality(TopLevel) = 1
  /\ \A k \in DOMAIN text : CountOf({"end"}, k) <= CountOf({"start"}, k)
  /\ OpenAfter(Len(text)) = 0
  /\ \A k \in DOMAIN text :
       /\ text[k].kind \notin {"illegal", "doctype", "malformed"}
       /\ text[k].kind \in {"text", "reference"} => OpenAfter(k) > 0
       /\ text[k].kind \in {"start", "empty"} =>
            OpenAfter(k - 1) < limits.max_depth
  /\ CountOf({"start", "empty"}, Len(text)) <= limits.max_nodes
  /\ Len(text) <= limits.max_bytes

\* The reader accepts a document exactly when it is well formed and within
\* the limits: nothing outside the root or after it slips through, and a
\* document at the limits is still read.
AcceptsWellFormed ==
  outcome \in {"accepted", "refused"} => (outcome = "accepted" <=> WellFormed)
=============================================================================
