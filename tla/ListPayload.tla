---------------------------- MODULE ListPayload ----------------------------
(***************************************************************************)
(* How the Redis backend writes a message into one value, a member of the  *)
(* delayed set or of the fallback's lists (backends/redis/mod.rs):         *)
(*                                                                         *)
(*     <ksuid> # <number of receives> | <payload>                          *)
(*                                                                         *)
(* and, in versions before there was a count, <ksuid> | <payload>.  A value*)
(* is a sequence of bytes.  Of a byte only what the reader tells apart is  *)
(* kept: the two separators, digits, and others; the ksuid is one "i".     *)
(*                                                                         *)
(* A definition written just above another with the same parameters is a   *)
(* faulty variant of it, used only to see that the properties notice.      *)
(***************************************************************************)
EXTENDS Naturals, Sequences

CONSTANT Base   \* of the digits: 10 in the code

ASSUME BaseAssumption == Base \in 2..10

Digits == SubSeq(<<"0", "1", "2", "3", "4", "5", "6", "7", "8", "9">>, 1, Base)

DigitValue(b) == (CHOOSE i \in DOMAIN Digits : Digits[i] = b) - 1

\* usize::to_string.
Text[n \in Nat] ==
    IF n < Base THEN <<Digits[n + 1]>>
                ELSE Append(Text[n \div Base], Digits[(n % Base) + 1])

\* str::parse::<usize>, of a text without a sign.
IsNumber(s) == s # <<>> /\ \A i \in DOMAIN s : \E j \in DOMAIN Digits : s[i] = Digits[j]

Parse(s) ==
    LET value[n \in 0..Len(s)] ==
          IF n = 0 THEN 0 ELSE value[n - 1] * Base + DigitValue(s[n])
    IN  value[Len(s)]

\* iter().position: the first place of b, 0 if there is none.
LastPosition(s, b) ==
    IF \E i \in DOMAIN s : s[i] = b
    THEN CHOOSE i \in DOMAIN s : s[i] = b /\ \A j \in DOMAIN s : s[j] = b => j <= i
    ELSE 0
Position(s, b) ==
    IF \E i \in DOMAIN s : s[i] = b
    THEN CHOOSE i \in DOMAIN s : s[i] = b /\ \A j \in DOMAIN s : s[j] = b => i <= j
    ELSE 0

\* internal_to_list_payload.
InternalToListPayloadAnew(payload, num_receives) ==
    <<"i", "#">> \o Text[0] \o <<"|">> \o payload
InternalToListPayload(payload, num_receives) ==
    <<"i", "#">> \o Text[num_receives] \o <<"|">> \o payload

\* What versions without a count wrote.
OldListPayload(payload) == <<"i", "|">> \o payload

\* internal_from_list.  The first '#' is looked for in the whole value, the
\* payload included.  In a value without a count it may be one of the payload's:
\* the slice between it and the '|' before it then ends before it starts, which
\* is a panic.
InternalFromList(key) ==
    LET count_sep_pos   == Position(key, "#")
        payload_sep_pos == Position(key, "|")
        count           == SubSeq(key, count_sep_pos + 1, payload_sep_pos - 1)
        Ok(n) == [result |-> "ok", num_receives |-> n,
                  payload |-> SubSeq(key, payload_sep_pos + 1, Len(key))]
    IN  CASE payload_sep_pos = 0 -> [result |-> "error"]
          [] payload_sep_pos # 0 /\ count_sep_pos = 0 -> Ok(1)
          [] count_sep_pos > payload_sep_pos /\ payload_sep_pos # 0 -> [result |-> "panic"]
          [] OTHER -> IF IsNumber(count) THEN Ok(Parse(count) + 1) ELSE [result |-> "error"]

=============================================================================
