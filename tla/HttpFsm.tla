------------------------------ MODULE HttpFsm ------------------------------
(***************************************************************************)
(* The vocabulary of the HTTP header value parsers (fw/http_parser.c).     *)
(* Each parser in C is a goto automaton written with a small set of        *)
(* macros: try a literal, move over a character, match an alphabet, parse  *)
(* a number, jump, return.  Here one use of a macro is one record, a state *)
(* is the sequence of records its body consists of, and a parser is a      *)
(* record that gives each state its body.  HttpValue runs the tables.      *)
(***************************************************************************)
EXTENDS Integers, Sequences

CONSTANTS UINT_MAX,     \* limit of the int parsers, scaled down
          ULONG_MAX,    \* limit of the content length, scaled down
          USHRT_MAX     \* limit of a port, scaled down

(* str.c, htype.h: the alphabets.  A character is a string of length 1; the
   grave accent, which a TLA+ string cannot hold, is left out. *)
Chars(s) == {SubSeq(s, i, i) : i \in 1..Len(s)}
Lower == "abcdefghijklmnopqrstuvwxyz"
Upper == "ABCDEFGHIJKLMNOPQRSTUVWXYZ"
Digit == Chars("0123456789")
Alpha == Chars(Lower) \cup Chars(Upper)
Alnum == Alpha \cup Digit
Xdigit == Digit \cup Chars("abcdefABCDEF")
WS == {" ", "\t"}
CRLF == {"\r", "\n"}
CRLFWS == WS \cup CRLF
token == Alnum \cup Chars("!#$%&'*+-.^_|~")
qetoken == token \cup {"\"", "="}
uri == Alnum \cup Chars("!#$%&'()*+,-./:;=?@[]_~")
nctl == Alnum \cup Chars("\t !\"#$%&'()*+,-./:;<=>?@[\\]^_{|}~")
ctext_vchar == nctl
xff == Alnum \cup Chars("-.:[]_")
cookie == nctl \ Chars("\t ,;\\")
etag == nctl \ Chars("\t \"")

LowerOf == [c \in Chars(Upper) |->
              LET i == CHOOSE j \in 1..26 : SubSeq(Upper, j, j) = c
              IN  SubSeq(Lower, i, i)]
TFW_LC(c) == IF c \in DOMAIN LowerOf THEN LowerOf[c] ELSE c
Lc(c) == {d \in Alpha : TFW_LC(d) = c}

(***************************************************************************)
(* The operations.  c: the characters an operation applies to; w: a        *)
(* further condition; to: the next state; e: what is done on the way;      *)
(* fx, fg: the text is stored chunk by chunk (the _fixup macros), with the *)
(* flag fg of the chunk; end, ee: the outcome when an HTTP/2 value ends    *)
(* here; pe: what is done when the fragment ends here.                     *)
(***************************************************************************)
Op == [k |-> "", c |-> {}, w |-> <<>>, s |-> "", to |-> "", e |-> <<>>,
       fx |-> FALSE, fg |-> "", end |-> "EQ", ee |-> <<>>, pe |-> <<>>,
       lim |-> 0, bad |-> "BADLEN", by |-> "move"]

Str(s, to)  == [Op EXCEPT !.k = "str", !.s = s, !.to = to]
Ini         == [Op EXCEPT !.k = "init"]
Mv(c, to)   == [Op EXCEPT !.k = "mv", !.c = c, !.to = to]
Mn(c, to)   == [Op EXCEPT !.k = "mn", !.c = c, !.to = to]
Jp(c, to)   == [Op EXCEPT !.k = "jp", !.c = c, !.to = to]
Rt(c)       == [Op EXCEPT !.k = "rt", !.c = c]
Go(to)      == [Op EXCEPT !.k = "go", !.to = to]
Do(e)       == [Op EXCEPT !.k = "do", !.e = e]
Run(a, to)  == [Op EXCEPT !.k = "run", !.c = a, !.to = to]
First       == [Op EXCEPT !.k = "first"]
Need(c)     == [Op EXCEPT !.k = "need", !.c = c]
Num(c, lim, to) == [Op EXCEPT !.k = "num", !.c = c, !.lim = lim, !.to = to]
Flush(to)   == [Op EXCEPT !.k = "flush", !.to = to, !.fg = "VALUE"]
Two(a, b, to, one) == [Op EXCEPT !.k = "two", !.c = b, !.to = to, !.s = one]
Read(to)    == [Op EXCEPT !.k = "read", !.to = to, !.fg = "VALUE"]
Templ(c, d) == [Op EXCEPT !.k = "templ", !.c = c, !.s = d, !.end = "NEQ"]

With(op, e)  == [op EXCEPT !.e = e]
If(w, op)    == [op EXCEPT !.w = w]
Fx(op, f)    == [op EXCEPT !.fx = TRUE, !.fg = f]
Flag(op, f)  == [op EXCEPT !.fg = f]
Neq(op)      == [op EXCEPT !.end = "NEQ"]
End(op, e)   == [op EXCEPT !.ee = e]
Part(op, e)  == [op EXCEPT !.pe = e]
Bad(op, b)   == [op EXCEPT !.bad = b]
Jump(op)     == [op EXCEPT !.by = "jump"]

(* What an operation does besides moving. *)
Set(x)  == <<"set", x>>     \* set a flag of the message
Clr(x)  == <<"clr", x>>     \* clear it
Not(x)  == <<"not", x>>     \* fail if it is set
AccF(x) == <<"accf", x>>    \* keep a flag in parser->_acc ...
OrAcc   == <<"or", "">>     \* ... and set it
Acc0    == <<"acc0", "">>   \* parser->_acc = 0
Put(x)  == <<"put", x>>     \* a field of the message is parser->_acc
Top(x)  == <<"top", x>>     \* ... or the greatest value
Zero(x) == <<"zero", x>>    \* ... or zero
Pos(x)  == <<"pos", x>>     \* fail if the field is zero
Val(x, v) == <<"val", x, v>>  \* a field of the message is v
Is(x)   == <<"fl", x>>
IsNot(x) == <<"nofl", x>>
Kept(x) == <<"accf", x>>
Some    == <<"some", "">>   \* the last match was not empty
=============================================================================
