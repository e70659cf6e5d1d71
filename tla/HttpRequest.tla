---------------------------- MODULE HttpRequest ----------------------------
(***************************************************************************)
(* What handle_client makes of the bytes of one recv: parse_request and    *)
(* parse_method of server/src/api/api.c, auth_parse of auth.c and the      *)
(* sscanf of the handlers' bodies.                                         *)
(*                                                                         *)
(* A text is a sequence of characters, which are numbers: a digit is       *)
(* itself, and a fixed word of a request (a method, a header line's text,  *)
(* the body up to its number) is one character, since a word that is cut   *)
(* is no word.  recv brings any first part of the text.                    *)
(***************************************************************************)
EXTENDS Integers, Sequences, SequencesExt

CONSTANTS
  INT_MAX, LONG_MAX,               \* largest C int and long
  PATH_MAX, BEARER_MAX, BODY_MAX   \* characters that req.path, bearer and req.body take

ASSUME WidthAssumption == INT_MAX \in Nat \ {0} /\ LONG_MAX \in Nat /\ LONG_MAX > INT_MAX
ASSUME RoomAssumption  == {PATH_MAX, BEARER_MAX, BODY_MAX} \subseteq Nat \ {0}

Digits  == 0..9
BLANK   == 10
CRLF    == 11
PLUS    == 12
MINUS   == 13
HTTP    == 14      \* HTTP/1.1
AUTH    == 15      \* Authorization: Bearer, and a blank
LINE    == 16      \* another header line
KEY     == 17      \* {"amount_gr": and the like
BRACE   == 18
Methods == 20..23  \* GET, POST, PATCH, DELETE; what is above 23 is a letter
NoMethod == 0      \* (method_t)-1

White == {BLANK, CRLF}

\* Where the first character of S is in s from k on, or else the end of s.
First(s, k, S) == Min({j \in k..(Len(s) + 1) : j = Len(s) + 1 \/ s[j] \in S})

\* The first n characters, all of them if there are no more.
Cut(s, n) == SubSeq(s, 1, IF Len(s) <= n THEN Len(s) ELSE n)

-----------------------------------------------------------------------------
(* The numbers of strtol and of %d, and the bearer token.                  *)

\* Blanks, a sign, digits: where they begin, and where they end.
number_at(s) ==
  LET a == First(s, 1, Nat \ White)
      b == IF a <= Len(s) /\ s[a] \in {PLUS, MINUS} THEN a + 1 ELSE a
  IN [sign |-> a, digits |-> b, end |-> First(s, b, Nat \ Digits)]

\* The value of a text of digits, which stops at the largest long.
to_long(ds) ==
  FoldLeft(LAMBDA v, d : IF 10 * v + d > LONG_MAX THEN LONG_MAX ELSE 10 * v + d, 0, ds)

\* strtol: the value and *end == 0.  (A negative one stops at LONG_MIN, which is
\* as little a user as any other.)
strtol(s) ==
  LET n == number_at(s)
      v == to_long(SubSeq(s, n.digits, n.end - 1))
  IN [value |-> IF n.sign < n.digits /\ s[n.sign] = MINUS THEN -v ELSE v,
      whole |-> n.end = Len(s) + 1]

\* What sscanf's %d takes of s: the sign and the digits, or nothing.
percent_d(s) ==
  LET n == number_at(s) IN IF n.end > n.digits THEN SubSeq(s, n.sign, n.end - 1) ELSE <<>>

\* The cast of a long to int.
ToInt(v) == ((v + INT_MAX + 1) % (2 * (INT_MAX + 1))) - (INT_MAX + 1)

NoAuth == [role |-> "none", user |-> 0]

\* Mutant: the admin's token is compared before the empty one is refused.
auth_parse_order(token, admin_token) ==
  LET id == strtol(token) IN
  IF token = admin_token THEN [role |-> "admin", user |-> 0]
  ELSE IF id.whole /\ id.value > 0 THEN [role |-> "user", user |-> ToInt(id.value)]
  ELSE NoAuth

auth_parse(token, admin_token) ==
  LET id == strtol(token) IN
  IF token = <<>> THEN NoAuth
  ELSE IF token = admin_token THEN [role |-> "admin", user |-> 0]
  ELSE IF id.whole /\ id.value > 0 THEN [role |-> "user", user |-> ToInt(id.value)]
  ELSE NoAuth

-----------------------------------------------------------------------------
(* parse_request.                                                          *)

parse_method(w) == IF Len(w) = 1 /\ w[1] \in Methods THEN w[1] ELSE NoMethod

Ends(raw) == {e \in 1..Len(raw) : raw[e] = CRLF}

\* Where the header scan stops: behind the first blank line, or behind the last
\* line that has its end.
HeadEnd(raw) ==
  LET blank == {e \in Ends(raw) : e - 1 \in Ends(raw)}
  IN IF blank # {} THEN Min(blank) ELSE Max(Ends(raw))

\* The scan's lines with a token; e is the line's beginning.
AuthLines(raw) == {e \in Ends(raw) : e < HeadEnd(raw) /\ raw[e + 1] = AUTH}

\* Mutant: a header line need not have come to its end.
bearer_open(raw) ==
  LET lines == {e \in Ends(raw) : e < Len(raw) /\ raw[e + 1] = AUTH}
      e == Max(lines)
  IN IF lines = {} THEN <<>>
     ELSE Cut(SubSeq(raw, e + 2, First(raw, e + 1, {CRLF}) - 1), BEARER_MAX)

\* The token of the last such line.
bearer(raw) ==
  LET e == Max(AuthLines(raw))
  IN IF AuthLines(raw) = {} THEN <<>>
     ELSE Cut(SubSeq(raw, e + 2, First(raw, e + 1, {CRLF}) - 1), BEARER_MAX)

\* sscanf of the first two words, the scan of the headers, and what is behind.
parse_request(raw, admin_token) ==
  LET a == First(raw, 1, Nat \ White)
      b == First(raw, a, White)
      c == First(raw, b, Nat \ White)
      d == First(raw, c, White)
      path == Cut(SubSeq(raw, c, d - 1), PATH_MAX)
  IN CASE path = <<>> ->
            [method |-> NoMethod, path |-> path, auth |-> NoAuth, body |-> <<>>]
       [] path # <<>> /\ Ends(raw) = {} ->
            [method |-> parse_method(SubSeq(raw, a, b - 1)), path |-> path,
             auth |-> NoAuth, body |-> <<>>]
       [] OTHER ->
            [method |-> parse_method(SubSeq(raw, a, b - 1)), path |-> path,
             auth |-> auth_parse(bearer(raw), admin_token),
             body |-> Cut(SubSeq(raw, HeadEnd(raw) + 1, Len(raw)), BODY_MAX)]

\* The handlers' sscanf of the body: the number behind the key, which must be
\* there.  It does not miss the brace behind the number.
body_number(body) ==
  IF body # <<>> /\ body[1] = KEY THEN percent_d(SubSeq(body, 2, Len(body))) ELSE <<>>

-----------------------------------------------------------------------------
(* What they are for.                                                      *)

\* The requests of the clients, and the text that they send.
IsRequest(r) ==
  /\ r.method \in Methods
  /\ r.path \in Seq(Nat \ White) /\ r.path # <<>>
  /\ r.token \in Seq(Nat \ {CRLF})
  /\ r.number \in Seq(Digits)

Text(r) ==
  <<r.method, BLANK>> \o r.path \o <<BLANK, HTTP, CRLF, LINE, CRLF, AUTH>> \o r.token
    \o <<CRLF, LINE, CRLF, CRLF, KEY>> \o r.number \o <<BRACE>>

\* Whatever part of a request arrives, nobody acts on it as somebody else or on
\* another thing: if it is let through with a role, method, path and role are
\* those of the whole request, up to the room for path and token, and no header
\* is taken for the number of the body.  That number may be cut short, or
\* missing; of the whole request it is whole.
PartIsSafe(r, admin_token) ==
  \A n \in 0..Len(Text(r)) :
    LET q == parse_request(SubSeq(Text(r), 1, n), admin_token) IN
    /\ q.method # NoMethod /\ q.auth.role # "none" =>
         /\ q.method = r.method
         /\ q.path = Cut(r.path, PATH_MAX)
         /\ q.auth = auth_parse(Cut(r.token, BEARER_MAX), admin_token)
         /\ IsPrefix(body_number(q.body), r.number)
    /\ n = Len(Text(r)) =>
         /\ q.method = r.method
         /\ q.path = Cut(r.path, PATH_MAX)
         /\ q.auth = auth_parse(Cut(r.token, BEARER_MAX), admin_token)
         /\ Len(r.number) < BODY_MAX => body_number(q.body) = r.number

Value(ds) == FoldLeft(LAMBDA v, d : 10 * v + d, 0, ds)

\* The number that a token is, if it is one: digits to its end, and before them
\* nothing but blanks and perhaps a plus.
Named(token) ==
  {Value(SubSeq(token, k, Len(token))) : k \in {j \in 1..Len(token) :
     /\ \A m \in j..Len(token) : token[m] \in Digits
     /\ \A m \in 1..(j - 1) : token[m] \in White \/ (m = j - 1 /\ token[m] = PLUS)}}

\* A token gives the role and the user it names: nobody is an admin without a
\* token, also when the admin's token is empty; whoever else names a positive
\* number is a user, and nobody else is; and the user of a number that fits an
\* int is that number.
TokenIsUser(token, admin_token) ==
  LET a == auth_parse(token, admin_token) IN
  /\ a.role = "admin" <=> token = admin_token /\ token # <<>>
  /\ a.role = "user" <=> token # admin_token /\ \E n \in Named(token) : n > 0
  /\ a.role = "user" => \A n \in Named(token) : a.user = n \/ n > INT_MAX
=============================================================================
