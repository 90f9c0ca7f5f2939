------------------------------- MODULE Crypt -------------------------------
(***************************************************************************)
(* lua-crypt.c: base64, hexadecimal, the padding of texts for DES and its  *)
(* rounds, and the arithmetic of the key exchange, which must stay within  *)
(* the width of its integers.  Of DES the bits are left out: the first     *)
(* permutation only tells the two halves of a block apart, and the boxes   *)
(* (Boxes) are some function of half a block and the words of a round.     *)
(***************************************************************************)
EXTENDS Integers, Sequences, SequencesExt, Bitwise

CONSTANTS Width,    \* bits of an integer of the exchange, 64
          P,        \* the largest prime below 2^Width
          G,        \* 5
          Block,    \* bytes of a block, 8
          ESK       \* the words that des_main_ks makes of the key, two for each
                    \* of an even number of rounds

Error == <<"error">>
Ok(v) == <<"ok", v>>

-----------------------------------------------------------------------------
\* lb64encode: characters are their codes; 61 is the sign of padding.
Encoding(v) ==
    CASE v < 26 -> 65 + v [] v \in 26..51 -> 71 + v [] v \in 52..61 -> v - 4 [] v = 62 -> 43 [] OTHER -> 47
Sixes(v, n) == [i \in 1..n |-> Encoding((v \div 64^(n - i)) % 64)]

\* Mutant: the bits of two last bytes are not moved to the top of the digits.
B64Tail_NoShift(s) ==
    CASE Len(s) = 1 -> Sixes(s[1] * 16, 2) \o <<61, 61>>
      [] Len(s) = 2 -> Sixes(s[1] * 256 + s[2], 3) \o <<61>>
      [] OTHER -> << >>

\* The switch on padding: what is left is one byte or two.
B64Tail(s) ==
    CASE Len(s) = 1 -> Sixes(s[1] * 16, 2) \o <<61, 61>>
      [] Len(s) = 2 -> Sixes((s[1] * 256 + s[2]) * 4, 3) \o <<61>>
      [] OTHER -> << >>
RECURSIVE LB64Encode(_)
LB64Encode(s) ==
    IF Len(s) < 3 THEN B64Tail(s)
    ELSE Sixes(s[1] * 65536 + s[2] * 256 + s[3], 4) \o LB64Encode(SubSeq(s, 4, Len(s)))

\* b64index: -1 for a character that is skipped, -2 for padding.
B64Index(c) ==
    CASE c \in 65..90 -> c - 65 [] c \in 97..122 -> c - 71 [] c \in 48..57 -> c + 4
      [] c = 43 -> 62 [] c = 47 -> 63 [] c = 61 -> -2 [] OTHER -> -1

\* The switch of lb64decode on the four digits of a group.
B64Group(c) ==
    LET padding == Len(SelectSeq(c, LAMBDA d : d = -2)) IN
    CASE padding = 0 -> LET v == c[1] * 64^3 + c[2] * 64^2 + c[3] * 64 + c[4] IN
                        Ok(<<v \div 65536, (v \div 256) % 256, v % 256>>)
      [] padding = 1 /\ c[4] = -2 /\ c[3] % 4 = 0 ->
            LET v == c[1] * 1024 + c[2] * 16 + c[3] \div 4 IN Ok(<<v \div 256, v % 256>>)
      [] padding = 2 /\ c[4] = -2 /\ c[3] = -2 /\ c[2] % 16 = 0 -> Ok(<<c[1] * 4 + c[2] \div 16>>)
      [] OTHER -> Error
\* lb64decode: text from place i on, c are the digits of the group so far.
RECURSIVE B64From(_, _, _)
B64From(text, i, c) ==
    IF Len(c) = 4
    THEN LET g == B64Group(c)
             rest == B64From(text, i, << >>)
         IN  IF g = Error \/ rest = Error THEN Error ELSE Ok(g[2] \o rest[2])
    ELSE IF i > Len(text) THEN IF c = << >> /\ (i = 1 \/ B64Index(text[i - 1]) # -1) THEN Ok(<< >>) ELSE Error
    ELSE IF B64Index(text[i]) = -1 THEN B64From(text, i + 1, c)
    ELSE B64From(text, i + 1, Append(c, B64Index(text[i])))
LB64Decode(text) == B64From(text, 1, << >>)

-----------------------------------------------------------------------------
\* ltohex, lfromhex
HexDigit(v) == IF v < 10 THEN 48 + v ELSE 87 + v
LToHex(s) == [i \in 1..2 * Len(s) |-> HexDigit(IF i % 2 = 1 THEN s[(i + 1) \div 2] \div 16 ELSE s[i \div 2] % 16)]
Hex(c) == IF c \in 48..57 THEN c - 48 ELSE (c - 87) % 256
LFromHex(t) ==
    IF Len(t) % 2 = 1 \/ \E i \in DOMAIN t : Hex(t[i]) > 16 THEN Error
    ELSE Ok([i \in 1..Len(t) \div 2 |-> (Hex(t[2 * i - 1]) * 16 + Hex(t[2 * i])) % 256])

-----------------------------------------------------------------------------
\* DES_IP and DES_FP: a block and its halves X and Y.
Half == Block \div 2
Ip(b) == <<[i \in 1..Half |-> b[2 * i]], [i \in 1..Half |-> b[2 * i - 1]]>>
Fp(x, y) == [i \in 1..Block |-> IF i % 2 = 0 THEN x[i \div 2] ELSE y[(i + 1) \div 2]]

\* DES_ROUND(X, Y): what is added to Y.
Boxes(k1, k2, x) == [i \in 1..Half |-> ((k1 + x[i]) * (k2 + x[Half + 1 - i])) % 256]
Added(y, k1, k2, x) == LET f == Boxes(k1, k2, x) IN [i \in 1..Half |-> y[i] ^^ f[i]]

\* des_crypt: the rounds change X and Y in turn, and leave them exchanged.
DesCrypt(SK, b) ==
    LET round[r \in 0..Len(SK) \div 2] ==
            IF r = 0 THEN [x |-> Ip(b)[1], y |-> Ip(b)[2]]
            ELSE LET s == round[r - 1] IN
                 IF r % 2 = 1 THEN [s EXCEPT !.x = Added(@, SK[2 * r - 1], SK[2 * r], s.y)]
                 ELSE [s EXCEPT !.y = Added(@, SK[2 * r - 1], SK[2 * r], s.x)]
        last == round[Len(SK) \div 2]
    IN  Fp(last.y, last.x)

\* Mutant: all words are turned around, also the two of a round.
DecodeKey_Words == Reverse(ESK)

\* The loop of ldesdecode: the rounds in the opposite order.
DecodeKey ==
    LET n == Len(ESK) IN
    [i \in 1..n |-> IF i % 2 = 1 THEN ESK[n - i] ELSE ESK[n + 2 - i]]

Chunks(s) == [k \in 1..Len(s) \div Block |-> SubSeq(s, (k - 1) * Block + 1, k * Block)]

\* Mutant: a text of whole blocks gets no padding.
Padded_None(s) ==
    IF Len(s) % Block = 0 /\ s # << >> THEN s
    ELSE s \o [i \in 1..Block - (Len(s) % Block) |-> IF i = 1 THEN 128 ELSE 0]

\* ldesencode: 0x80 and zeros, a whole block of them behind whole blocks.
Padded(s) == s \o [i \in 1..Block - (Len(s) % Block) |-> IF i = 1 THEN 128 ELSE 0]
LDesEncode(s) ==
    LET c == Chunks(Padded(s)) IN FlattenSeq([k \in DOMAIN c |-> DesCrypt(ESK, c[k])])
\* ldesdecode: back over the zeros of the last block to the 0x80.  A single block
\* of zeros is refused, but only after reading on in front of the buffer: the index
\* is compared as an unsigned number.
LDesDecode(t) ==
    IF Len(t) % Block # 0 \/ t = << >> THEN Error
    ELSE LET c == Chunks(t)
             s == FlattenSeq([k \in DOMAIN c |-> DesCrypt(DecodeKey, c[k])])
             last == {i \in Len(s) - Block + 1..Len(s) : s[i] # 0}
             mark == CHOOSE i \in last : \A j \in last : j <= i
         IN  IF last = {} THEN Error ELSE IF s[mark] # 128 THEN Error
             ELSE Ok(SubSeq(s, 1, mark - 1))

-----------------------------------------------------------------------------
U(n) == n % 2^Width

\* Mutant: the sum is taken first and reduced afterwards.
MulModP_Sum(a0, b0) ==
    LET RECURSIVE Mul(_, _, _)
        Mul(m, a, b) ==
            IF b = 0 THEN m
            ELSE Mul(IF b % 2 = 1 THEN U(m + a) % P ELSE m, IF a >= P - a THEN U(2 * a - P) ELSE U(2 * a), b \div 2)
    IN  Mul(0, a0, b0)

\* mul_mod_p: no sum is formed that could be P or more.
MulModP(a0, b0) ==
    LET RECURSIVE Mul(_, _, _)
        Mul(m, a, b) ==
            IF b = 0 THEN m
            ELSE LET t == U(P - a) IN
                 Mul(IF b % 2 = 0 THEN m ELSE IF m >= t THEN U(m - t) ELSE U(m + a),
                     IF a >= t THEN U(2 * a - P) ELSE U(2 * a),
                     b \div 2)
    IN  Mul(0, a0, b0)
\* pow_mod_p
RECURSIVE PowModP(_, _)
PowModP(a, b) ==
    IF b = 1 THEN a
    ELSE LET t == PowModP(a, b \div 2)
             tt == MulModP(t, t)
         IN  IF b % 2 = 1 THEN MulModP(tt, a) ELSE tt
\* powmodp, ldhsecret, ldhexchange
LDhSecret(x, y) == IF x = 0 \/ y = 0 THEN Error ELSE Ok(PowModP(IF x > P THEN x % P ELSE x, y))
LDhExchange(x) == IF x = 0 THEN Error ELSE Ok(PowModP(G, x))

-----------------------------------------------------------------------------
\* Decoding gives the text back: base64 with characters that are skipped in any
\* place but the last, hexadecimal, and DES with its padding.
TextsBack(s) ==
    LET b == LB64Encode(s) IN
    /\ LB64Decode(b) = Ok(s)
    /\ \A i \in 0..Len(b) - 1 : LB64Decode(SubSeq(b, 1, i) \o <<10>> \o SubSeq(b, i + 1, Len(b))) = Ok(s)
    /\ LFromHex(LToHex(s)) = Ok(s)
    /\ LDesDecode(LDesEncode(s)) = Ok(s)
\* Products are those of the integers, and both ends get the same secret.
SecretsAgree(a, b) ==
    /\ MulModP(a % P, b) = ((a % P) * b) % P
    /\ a # 0 /\ b # 0 => LDhSecret(LDhExchange(a)[2], b) = LDhSecret(LDhExchange(b)[2], a)
=============================================================================
