------------------------------ MODULE Endpoint ------------------------------
(***************************************************************************)
(* Endpoint (common/endpoint.h and .cc): a host and a port parsed from the *)
(* text "host:port".  A text is a sequence of characters; a value that may *)
(* be missing, because its computation throws, is a sequence of at most    *)
(* one element.                                                            *)
(***************************************************************************)
EXTENDS Integers, Sequences, FiniteSetsExt

CONSTANTS
  Digits,      \* the digits, in order: the sequence "0", "1", ...
  PortSpace,   \* 2^16: the values of a uint16_t
  IntSpace     \* 2^31: the values of an int that are not negative

ASSUME DigitsAssumption ==
  /\ Digits \in Seq(STRING)
  /\ Len(Digits) > 1
  /\ \A i, j \in DOMAIN Digits : Digits[i] = Digits[j] => i = j
  /\ \A i \in DOMAIN Digits : Digits[i] # "-"
ASSUME SpaceAssumption ==
  PortSpace \in Nat \ {0} /\ IntSpace \in Nat /\ PortSpace <= IntSpace

Base == Len(Digits)
IsDigit(ch) == \E d \in DOMAIN Digits : Digits[d] = ch
ValueOf(ch) == (CHOOSE d \in DOMAIN Digits : Digits[d] = ch) - 1

(* The value of a sequence of digits, and the digits of a value, as        *)
(* std::to_string writes them.                                             *)
Numeral(s) ==
  LET v[k \in 0 .. Len(s)] == IF k = 0 THEN 0 ELSE v[k - 1] * Base + ValueOf(s[k])
  IN  v[Len(s)]

to_string(n) ==
  LET d[k \in 0 .. n] == IF k < Base THEN <<Digits[k + 1]>>
                         ELSE Append(d[k \div Base], Digits[(k % Base) + 1])
  IN  d[n]

(* std::stoi: an optional sign, then as many digits as there are; what     *)
(* follows them is ignored.  No digit at all, or a value that is no int,   *)
(* throws.  (White space and "+" in front are left out.)                   *)
stoi(s) ==
  LET negative == s # << >> /\ s[1] = "-"
      t == IF negative THEN Tail(s) ELSE s
      n == Max({k \in 0 .. Len(t) : \A i \in 1 .. k : IsDigit(t[i])})
      v == Numeral(SubSeq(t, 1, n))
  IN  IF n = 0 \/ v > IntSpace - (IF negative THEN 0 ELSE 1) THEN << >>
      ELSE <<IF negative THEN -v ELSE v>>

(* The place of the first ":", or 0.                                       *)
find(s) ==
  LET colons == {i \in DOMAIN s : s[i] = ":"}
  IN  IF colons = {} THEN 0 ELSE Min(colons)

(* Mutant: the text of the port begins at the colon.                       *)
PortTextAtColon(address) ==
  IF find(address) = 0 THEN address ELSE SubSeq(address, find(address), Len(address))

(* Without a colon, index + 1 is npos + 1 = 0: the whole text is both the  *)
(* host and the port.                                                      *)
PortText(address) == SubSeq(address, find(address) + 1, Len(address))

(* Mutant: the port is not narrowed.                                       *)
narrowNot(value) == IF value < 0 THEN 0 ELSE value

(* The conversion of an int to uint16_t.                                   *)
narrow(value) == value % PortSpace

(* Endpoint(address)                                                       *)
Parse(address) ==
  LET port == stoi(PortText(address))
  IN  IF port = << >> THEN << >>
      ELSE <<[host_ |-> IF find(address) = 0 THEN address
                        ELSE SubSeq(address, 1, find(address) - 1),
              port_ |-> narrow(port[1])]>>

(* Mutant: host and port are not separated.                                *)
EndpointStringJoined(e) == e.host_ \o to_string(e.port_)

EndpointString(e) == e.host_ \o <<":">> \o to_string(e.port_)

(* address is written host:port, with the port as to_string writes it.     *)
Denotes(address, port) ==
  \E n \in 0 .. Len(address) :
    /\ \A i \in 1 .. n : address[i] # ":"
    /\ address = SubSeq(address, 1, n) \o <<":">> \o to_string(port)
=============================================================================
