------------------------------ MODULE MCServer ------------------------------
(***************************************************************************)
(* A small instance of Server: binary digits, 2-bit ports.                 *)
(***************************************************************************)
EXTENDS Server, SequencesExt

TwoDigits == <<"0", "1">>

(* Every text of at most five of these characters, the empty one apart.    *)
Texts == BoundedSeq({"h", ":", "-", "0", "1"}, 5) \ {<< >>}

(* Methods f and g1 of classes, of templates and in namespaces, of a       *)
(* template with a function type, as instances of method templates.        *)
Qualifiers ==
  {<<"S", ":", ":">>, <<"N", ":", ":", "S", ":", ":">>,
   <<"S", "<", "T", ">", ":", ":">>, <<"S", "<", "f", "(", "T", ")", ">", ":", ":">>}
TemplateArguments ==
  {<< >>, <<"<", "T", ">">>, <<"<", "S", "<", "T", ">", ">">>,
   <<"<", "T", "(", "g", "1", ")", ">">>}
Named ==
  {[text |-> <<"&">> \o q \o m \o a, method |-> m] :
     q \in Qualifiers, a \in TemplateArguments, m \in {<<"f">>, <<"g", "1">>}}

(* Expressions that should give a method's own name or none: in brackets,  *)
(* an operator (here o<, o-> and o==), literals.                           *)
Unnamed ==
  {[text |-> <<"(", "&", "S", ":", ":", "f", ")">>, method |-> <<"f">>]}
    \cup {[text |-> <<"&", "S", ":", ":">> \o m, method |-> m] :
            m \in {<<"o", "<">>, <<"o", "-", ">">>, <<"o", "=", "=">>}}
    \cup {[text |-> p \o <<"\"", "f", "\"">>, method |-> << >>] :
            p \in {<< >>, <<"u">>, <<"u", "8">>}}

References == Named \cup Unnamed
=============================================================================
