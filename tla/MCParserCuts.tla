---------------------------- MODULE MCParserCuts ----------------------------
(***************************************************************************)
(* ParserCuts for TLC.  Integers have ten bits: as with 64, the longest    *)
(* text has one character more than the largest positive number, and as    *)
(* many as the largest unsigned one.                                       *)
(***************************************************************************)
EXTENDS ParserCuts

a == 97

Means(bytes, kind, argvs, count) ==
  [bytes |-> bytes, kind |-> kind, argvs |-> argvs, count |-> count]
Noise(bytes) == Means(bytes, "noise", <<>>, 0)

\* Multibulk commands, alone and in pairs, of arguments that look like framing.
Wire(argv) == ArrayHeader(Len(argv)) \o FlattenSeq([i \in DOMAIN argv |-> Bulk(argv[i])])
Payloads == BoundedSeq({a, CR, LF, Star, Dollar}, 1) \cup {Crlf, <<LF, a>>}
Argvs == {<<s>> : s \in Payloads} \cup {<<s, t>> : s \in Payloads, t \in {<<>>, <<a>>, Crlf}}
Pairs == {<<u, v>> : u \in Argvs, v \in {<<<<a>>>>, <<<<>>, Crlf>>}}
Multibulks ==
  {Means(Wire(u), "commands", <<u>>, 0) : u \in Argvs} \cup
  {Means(Wire(p[1]) \o Wire(p[2]), "commands", p, 0) : p \in Pairs}

\* Inline commands, with every way to quote a word.
Quoted(w) ==
  LET escape(c) == IF c \in {DoubleQuote, Backslash} THEN <<Backslash, c>>
                   ELSE IF c = LF THEN <<Backslash, 110>> ELSE <<c>>
  IN  <<DoubleQuote>> \o FlattenSeq([i \in DOMAIN w |-> escape(w[i])]) \o <<DoubleQuote>>
HexDigit(n) == IF n < 10 THEN Zero + n ELSE 87 + n
HexQuoted(w) ==
  <<DoubleQuote>> \o
  FlattenSeq([i \in DOMAIN w |-> <<Backslash, 120, HexDigit(w[i] \div 16), HexDigit(w[i] % 16)>>])
  \o <<DoubleQuote>>
SingleQuoted(w) ==
  LET escape(c) == IF c = SingleQuote THEN <<Backslash, c>> ELSE <<c>>
  IN  <<SingleQuote>> \o FlattenSeq([i \in DOMAIN w |-> escape(w[i])]) \o <<SingleQuote>>

Words == BoundedSeq({a, Space, DoubleQuote, SingleQuote, Backslash, LF}, 2)
PlainWords == {w \in Words : Range(w) \subseteq {a} /\ w # <<>>}
WordForms ==
  {[word |-> w, text |-> Quoted(w)] : w \in Words} \cup
  {[word |-> w, text |-> HexQuoted(w)] : w \in Words} \cup
  {[word |-> w, text |-> SingleQuoted(w)] :
     w \in {v \in Words : Range(v) \cap {Backslash, LF} = {}}} \cup
  {[word |-> w, text |-> w] : w \in PlainWords}
Ends == {<<LF>>, Crlf, <<Space>> \o Crlf}
Inlines ==
  {Means(f.text \o e, "commands", <<<<f.word>>>>, 0) : f \in WordForms, e \in Ends} \cup
  {Means(f.text \o <<Space>> \o Quoted(<<Space>>) \o <<LF>>, "commands",
         <<<<f.word, <<Space>>>>>>, 0) : f \in WordForms}

\* Every count, and texts that are none or are out of range.
Counts10 == {Means(ArrayHeader(n), "count", <<>>, n) : n \in IntMin..IntMax}
Texts == BoundedSeq({Minus} \cup {Zero + d : d \in {0, 1, 2, 3, 5}}, 5)
Headers == {Noise(<<Star>> \o t \o Crlf) : t \in Texts}

\* Anything at all, made of pieces of frames and words.
Pieces == {<<Star, Zero + 1>> \o Crlf, <<Star, Zero>> \o Crlf, <<Dollar, Zero + 1>> \o Crlf,
           <<Dollar, Minus, Zero + 1>> \o Crlf, <<Dollar>>, Crlf, <<CR>>, <<LF>>, <<a>>,
           <<DoubleQuote>>, <<Space>>}
Junk == {Noise(FlattenSeq(ps)) : ps \in BoundedSeq(Pieces, 4)}

\* Lines around the two limits on lines.
LongLines ==
  {Noise(first \o [i \in 1..n |-> a] \o e) :
     first \in {<<>>, <<Star>>, <<Star, Zero + 1, CR, LF, Dollar>>},
     n \in (MaxHeader - 2)..(MaxInline + 2), e \in {<<>>, <<LF>>, Crlf, <<CR, a>>}}

Everything == Multibulks \cup Inlines \cup Counts10 \cup Headers \cup Junk \cup LongLines
=============================================================================
