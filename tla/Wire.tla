-------------------------------- MODULE Wire --------------------------------
(***************************************************************************)
(* How a key and a value travel in the target of a request: the client     *)
(* puts them together, the request processor takes them apart again.  A    *)
(* string is a sequence of characters; only the slash has a meaning.  (A   *)
(* blank would end the target; keys and values are assumed to have none.)  *)
(***************************************************************************)
EXTENDS Integers, SequencesExt

CONSTANTS
  Slash,     \* the character '/'
  Chars,     \* the characters of keys and values
  MaxLen     \* bound: the longest string that WireExact looks at

ASSUME WireAssumption == Slash \in Chars /\ MaxLen \in Nat

\* The targets the client asks for.
PutTarget(key, val) == <<Slash>> \o key \o <<Slash>> \o val
KeyTarget(key) == <<Slash>> \o key

\* std::getline(s, line, '/'): the line, and what it leaves in the stream.
getline(s) ==
  LET i == SelectInSeq(s, LAMBDA ch : ch = Slash)
  IN  IF i = 0 THEN s ELSE SubSeq(s, 1, i - 1)
rest(s) == SubSeq(s, Len(getline(s)) + 2, Len(s))

\* The key of a GET or DELETE, the key and the value of a PUT, and nothing else.
KeyOf(target) == Tail(target)
PutKeyOf(target) == getline(Tail(target))
PutValOf(target) == getline(rest(Tail(target)))

-----------------------------------------------------------------------------
(* Property *)

Plain(s) == Slash \notin Range(s)

\* A pair that was PUT is found again by a GET of its key, with its value, if and
\* only if neither of them has a slash: a PUT cuts its target at slashes, a GET
\* takes the whole of it.
WireExact ==
  \A k, v \in SeqOf(Chars, MaxLen) :
    /\ PutKeyOf(PutTarget(k, v)) = KeyOf(KeyTarget(k))
    /\ PutValOf(PutTarget(k, v)) = v
    <=> Plain(k) /\ Plain(v)

=============================================================================
