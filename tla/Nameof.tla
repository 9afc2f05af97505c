------------------------------- MODULE Nameof -------------------------------
(***************************************************************************)
(* pretty_name of thirdparty/nameof/nameof.hpp, which NAMEOF and with it   *)
(* Remote (core/common/remote_annotation.h) apply to the text of an        *)
(* expression such as &Adder::add: client and server both take the name of *)
(* a method from it.  A text is a sequence of characters.                  *)
(***************************************************************************)
EXTENDS Integers, Sequences, FiniteSetsExt

CONSTANTS
  Letters,   \* letters and "_"
  Numbers    \* digits

ASSUME CharacterAssumption ==
  /\ Letters \cup Numbers \subseteq STRING
  /\ (Letters \cup Numbers) \cap {"&", "(", ")", "<", ">"} = {}

IsQuote(ch) == ch \in {"\"", "'"}

(* A string or character literal, with or without a prefix, or a number.   *)
IsLiteral(name) ==
  \/ Len(name) >= 1 /\ (IsQuote(name[1]) \/ name[1] \in Numbers)
  \/ Len(name) >= 2 /\ name[1] \in {"R", "L", "U", "u"} /\ IsQuote(name[2])
  \/ Len(name) >= 3 /\ name[1] = "u" /\ name[2] = "8" /\ IsQuote(name[3])

(* The loops over brackets run from the end and count them; they stop at   *)
(* the last character that is no bracket itself and is not inside any.     *)
(* 0: they ran through to the beginning.                                   *)
BeforeBrackets(name, open, close) ==
  LET Count(ch, i) == Cardinality({k \in i + 1 .. Len(name) : name[k] = ch})
  IN  Max({0} \cup {i \in DOMAIN name : /\ name[i] \notin {open, close}
                                        /\ Count(open, i) = Count(close, i)})

(* Arguments in round brackets are removed; a text that is bracketed as a  *)
(* whole stays as it is.                                                   *)
WithoutCall(name) ==
  LET end == BeforeBrackets(name, "(", ")")
  IN  IF end = 0 THEN name ELSE SubSeq(name, 1, end)

(* The last identifier before the template arguments.                      *)
LastIdentifier(name) ==
  LET end == BeforeBrackets(name, "<", ">")
      qualifier == Max({0} \cup {i \in 1 .. end : name[i] \notin Letters \cup Numbers})
  IN  SubSeq(name, qualifier + 1, end)

(* Mutant: the template arguments stay.                                    *)
PrettyNameFull(name) ==
  LET text == WithoutCall(name)
      id == LastIdentifier(text)
      end == BeforeBrackets(text, "<", ">")
  IN  IF IsLiteral(name) \/ id = << >> \/ id[1] \notin Letters THEN << >>
      ELSE id \o SubSeq(text, end + 1, Len(text))

(* pretty_name with remove_template_suffix; << >> is no name.              *)
pretty_name(name) ==
  LET id == LastIdentifier(WithoutCall(name))
  IN  IF IsLiteral(name) \/ id = << >> \/ id[1] \notin Letters THEN << >> ELSE id
=============================================================================
