----------------------------- MODULE Encodings -----------------------------
(***************************************************************************)
(* The multibyte encodings of wchar.c: how long the character at the start *)
(* of a string is, whether it is valid, and the conversions to and from    *)
(* pg_wchar. A string is a sequence of bytes; a pg_wchar is the tuple of   *)
(* its four bytes, the highest first.                                      *)
(***************************************************************************)
EXTENDS Integers, Sequences

SS2 == 142
SS3 == 143
HighBit(b) == b >= 128

\* What C reads at an index: behind the last byte comes the terminating NUL.
At(s, i) == IF i <= Len(s) THEN s[i] ELSE 0

\* One name for each row of pg_wchar_table that differs from the others.
EucKinds == {"EUC_JP", "EUC_KR", "EUC_CN", "EUC_TW"}
WideKinds == EucKinds \cup {"UTF8", "MULE_INTERNAL", "LATIN1"}
ClientKinds == {"SJIS", "BIG5", "GB18030", "JOHAB"}   \* BIG5 also for GBK and UHC
EncodingKinds == WideKinds \cup ClientKinds

\* MULE: leading bytes of official and private character sets.
LC1(b) == b \in 129..141
LC2(b) == b \in 144..153
LCPRV1(b) == b \in 154..155
LCPRV2(b) == b \in 156..157

-----------------------------------------------------------------------------
(* Lengths. *)

pg_euc_mblen(b) ==
  IF b = SS2 THEN 2 ELSE IF b = SS3 THEN 3 ELSE IF HighBit(b) THEN 2 ELSE 1

pg_euctw_mblen(b) ==
  IF b = SS2 THEN 4 ELSE IF b = SS3 THEN 3 ELSE IF HighBit(b) THEN 2 ELSE 1

pg_utf_mblen(b) ==
  CASE b \in 192..223 -> 2
    [] b \in 224..239 -> 3
    [] b \in 240..247 -> 4
    [] OTHER -> 1

pg_mule_mblen(b) ==
  CASE LC1(b) -> 2
    [] LC2(b) \/ LCPRV1(b) -> 3
    [] LCPRV2(b) -> 4
    [] OTHER -> 1

pg_sjis_mblen(b) == IF HighBit(b) /\ b \notin 161..223 THEN 2 ELSE 1

pg_big5_mblen(b) == IF HighBit(b) THEN 2 ELSE 1

\* Mutant: only the first byte is looked at.
pg_gb18030_mblen_FirstByte(s) == pg_big5_mblen(s[1])

pg_gb18030_mblen(s) ==
  CASE ~HighBit(s[1]) -> 1
    [] HighBit(s[1]) /\ At(s, 2) \in 48..57 -> 4
    [] OTHER -> 2

pg_encoding_mblen(encoding, s) ==
  CASE encoding \in {"EUC_JP", "EUC_KR", "JOHAB"} -> pg_euc_mblen(s[1])
    [] encoding \in {"EUC_CN", "BIG5"} -> pg_big5_mblen(s[1])
    [] encoding = "EUC_TW" -> pg_euctw_mblen(s[1])
    [] encoding = "UTF8" -> pg_utf_mblen(s[1])
    [] encoding = "MULE_INTERNAL" -> pg_mule_mblen(s[1])
    [] encoding = "SJIS" -> pg_sjis_mblen(s[1])
    [] encoding = "GB18030" -> pg_gb18030_mblen(s)
    [] OTHER -> 1

\* pg_encoding_max_length
MaxLength ==
  [e \in EncodingKinds |->
     CASE e \in {"EUC_JP", "EUC_KR", "JOHAB"} -> 3
       [] e \in {"EUC_TW", "UTF8", "MULE_INTERNAL", "GB18030"} -> 4
       [] e \in {"EUC_CN", "SJIS", "BIG5"} -> 2
       [] OTHER -> 1]

-----------------------------------------------------------------------------
(* Verifiers: the length of a valid character at the start of s, or -1. *)

EucRange == 161..254

\* A character of l bytes is here, and all its bytes from the second on are in range.
TailIn(s, l, range) == l <= Len(s) /\ \A i \in 2..l : s[i] \in range

pg_eucjp_verifier(s) ==
  CASE s[1] = SS2 -> IF TailIn(s, 2, 161..223) THEN 2 ELSE -1
    [] s[1] = SS3 -> IF TailIn(s, 3, EucRange) THEN 3 ELSE -1
    [] HighBit(s[1]) /\ s[1] \notin {SS2, SS3} ->
         IF s[1] \in EucRange /\ TailIn(s, 2, EucRange) THEN 2 ELSE -1
    [] OTHER -> 1

pg_euckr_verifier(s) ==
  IF ~HighBit(s[1]) THEN 1
  ELSE IF s[1] \in EucRange /\ TailIn(s, 2, EucRange) THEN 2 ELSE -1

pg_euctw_verifier(s) ==
  CASE s[1] = SS2 -> IF TailIn(s, 4, EucRange) /\ s[2] <= 167 THEN 4 ELSE -1
    [] s[1] = SS3 -> -1
    [] HighBit(s[1]) /\ s[1] \notin {SS2, SS3} -> IF TailIn(s, 2, EucRange) THEN 2 ELSE -1
    [] OTHER -> 1

\* The length from mblen, a range for what follows.
ByLength(s, l, range) == IF TailIn(s, l, range) THEN l ELSE -1

pg_johab_verifier(s) == ByLength(s, pg_euc_mblen(s[1]), EucRange)

pg_mule_verifier(s) == ByLength(s, pg_mule_mblen(s[1]), 128..255)

\* gbk and uhc alike
pg_big5_verifier(s) == ByLength(s, pg_big5_mblen(s[1]), 1..255)

pg_sjis_verifier(s) ==
  LET l == pg_sjis_mblen(s[1])
      head == s[1] \in 129..159 \cup 224..252
  IN  IF l = 1 THEN 1
      ELSE IF TailIn(s, 2, 64..126 \cup 128..252) /\ head THEN 2 ELSE -1

pg_gb18030_verifier(s) ==
  CASE ~HighBit(s[1]) -> 1
    [] HighBit(s[1]) /\ Len(s) >= 4 /\ At(s, 2) \in 48..57 ->
         IF s[1] \in 129..254 /\ s[3] \in 129..254 /\ s[4] \in 48..57 THEN 4 ELSE -1
    [] OTHER ->
         IF s[1] \in 129..254 /\ TailIn(s, 2, 64..126 \cup 128..254) THEN 2 ELSE -1

\* The second byte after the leading bytes that leave less freedom.
SecondByte(b) ==
  CASE b = 224 -> 160..191 [] b = 237 -> 128..159
    [] b = 240 -> 144..191 [] b = 244 -> 128..143
    [] OTHER -> 128..191

pg_utf8_islegal(s, l) ==
  /\ \A i \in 3..l : s[i] \in 128..191
  /\ l >= 2 => s[2] \in SecondByte(s[1])
  /\ s[1] \notin 128..193 /\ s[1] <= 244

pg_utf8_verifier(s) ==
  LET l == pg_utf_mblen(s[1]) IN IF l <= Len(s) /\ pg_utf8_islegal(s, l) THEN l ELSE -1

pg_encoding_verifymb(encoding, s) ==
  CASE encoding = "EUC_JP" -> pg_eucjp_verifier(s)
    [] encoding \in {"EUC_KR", "EUC_CN"} -> pg_euckr_verifier(s)
    [] encoding = "EUC_TW" -> pg_euctw_verifier(s)
    [] encoding = "JOHAB" -> pg_johab_verifier(s)
    [] encoding = "MULE_INTERNAL" -> pg_mule_verifier(s)
    [] encoding = "BIG5" -> pg_big5_verifier(s)
    [] encoding = "SJIS" -> pg_sjis_verifier(s)
    [] encoding = "GB18030" -> pg_gb18030_verifier(s)
    [] encoding = "UTF8" -> pg_utf8_verifier(s)
    [] OTHER -> 1

\* The characters of a string, or a shorter sequence where one is invalid.
Characters(encoding, s) ==
  LET from[i \in 1..Len(s) + 1] ==
        IF i > Len(s) THEN <<>>
        ELSE LET l == pg_encoding_verifymb(encoding, SubSeq(s, i, Len(s)))
             IN  IF l = -1 THEN <<>> ELSE <<SubSeq(s, i, i + l - 1)>> \o from[i + l]
  IN  from[1]

Valid(encoding, s) ==
  LET from[i \in 1..Len(s) + 1] ==
        \/ i > Len(s)
        \/ LET l == pg_encoding_verifymb(encoding, SubSeq(s, i, Len(s)))
           IN  s[i] # 0 /\ l # -1 /\ from[i + l]
  IN  from[1]

-----------------------------------------------------------------------------
(* Conversion to pg_wchar: the first step of a loop, [n |-> bytes read, wide |-> the
   character made of them, in a sequence for there may be none]. *)

\* The first n bytes as a number, the highest first.
Packed(s, n) ==
  <<SubSeq(<<0, 0, 0, 0>>, 1, 4 - n) \o SubSeq(s, 1, n)>>

\* n2 and n3: the bytes read after SS2 and SS3.
pg_euc2wchar(s, n2, n3) ==
  LET n == CASE s[1] = SS2 /\ Len(s) >= n2 -> n2
             [] s[1] = SS3 /\ Len(s) >= n3 -> n3
             [] OTHER -> IF HighBit(s[1]) /\ Len(s) >= 2 THEN 2 ELSE 1
  IN  [n |-> n, wide |-> Packed(s, n)]

pg_euccn2wchar(s) == pg_euc2wchar(s, 3, 3)

pg_euctw2wchar(s) == pg_euc2wchar(s, 4, 3)

CodePoint(c) == <<0, c \div 65536, (c \div 256) % 256, c % 256>>

pg_utf2wchar(s) ==
  LET l == pg_utf_mblen(s[1])
      low == [i \in 2..l |-> s[i] % 64]
  IN  IF l > Len(s) THEN [n |-> Len(s), wide |-> <<>>]
      ELSE [n |-> l,
            wide |-> <<CodePoint(CASE l = 1 -> s[1]
                                   [] l = 2 -> (s[1] % 32) * 64 + low[2]
                                   [] l = 3 -> (s[1] % 16) * 4096 + low[2] * 64 + low[3]
                                   [] l = 4 -> (s[1] % 8) * 262144 + low[2] * 4096
                                                 + low[3] * 64 + low[4])>>]

pg_mule2wchar(s) ==
  CASE LC1(s[1]) /\ Len(s) >= 2 -> [n |-> 2, wide |-> <<<<0, s[1], 0, s[2]>>>>]
    [] LCPRV1(s[1]) /\ Len(s) >= 3 -> [n |-> 3, wide |-> <<<<0, s[2], 0, s[3]>>>>]
    [] LC2(s[1]) /\ Len(s) >= 3 -> [n |-> 3, wide |-> <<<<0, s[1], s[2], s[3]>>>>]
    [] LCPRV2(s[1]) /\ Len(s) >= 4 -> [n |-> 4, wide |-> <<<<0, s[2], s[3], s[4]>>>>]
    [] OTHER -> [n |-> 1, wide |-> Packed(s, 1)]

WideStep(encoding, s) ==
  CASE encoding \in {"EUC_JP", "EUC_KR"} -> pg_euc2wchar(s, 2, 3)
    [] encoding = "EUC_CN" -> pg_euccn2wchar(s)
    [] encoding = "EUC_TW" -> pg_euctw2wchar(s)
    [] encoding = "UTF8" -> pg_utf2wchar(s)
    [] encoding = "MULE_INTERNAL" -> pg_mule2wchar(s)
    [] OTHER -> [n |-> 1, wide |-> Packed(s, 1)]

\* mb2wchar_with_len
ToWide(encoding, s) ==
  LET from[i \in 1..Len(s) + 1] ==
        IF At(s, i) = 0 THEN <<>>
        ELSE LET st == WideStep(encoding, SubSeq(s, i, Len(s)))
             IN  st.wide \o from[i + st.n]
  IN  from[1]

(* Conversion from pg_wchar, one character. *)

pg_wchar2euc(w) ==
  CASE w[1] # 0 -> w
    [] w[1] = 0 /\ w[2] # 0 -> SubSeq(w, 2, 4)
    [] w[1] = 0 /\ w[2] = 0 /\ w[3] # 0 -> SubSeq(w, 3, 4)
    [] OTHER -> <<w[4]>>

unicode_to_utf8(w) ==
  LET c == w[2] * 65536 + w[3] * 256 + w[4]
  IN  CASE c <= 127 -> <<c>>
        [] c \in 128..2047 -> <<192 + c \div 64, 128 + (c % 64)>>
        [] c \in 2048..65535 -> <<224 + c \div 4096, 128 + ((c \div 64) % 64), 128 + (c % 64)>>
        [] OTHER -> <<240 + ((c \div 262144) % 8), 128 + ((c \div 4096) % 64),
                      128 + ((c \div 64) % 64), 128 + (c % 64)>>

pg_wchar2mule(w) ==
  CASE LC1(w[2]) -> <<w[2], w[4]>>
    [] LC2(w[2]) -> <<w[2], w[3], w[4]>>
    [] w[2] \in 160..223 -> <<154, w[2], w[4]>>
    [] w[2] \in 224..239 -> <<155, w[2], w[4]>>
    [] w[2] \in 240..244 -> <<156, w[2], w[3], w[4]>>
    [] w[2] \in 245..254 -> <<157, w[2], w[3], w[4]>>
    [] OTHER -> <<w[4]>>

\* wchar2mb_with_len
FromWide(encoding, wide) ==
  LET one(w) == CASE encoding \in EucKinds -> pg_wchar2euc(w)
                  [] encoding = "UTF8" -> unicode_to_utf8(w)
                  [] encoding = "MULE_INTERNAL" -> pg_wchar2mule(w)
                  [] OTHER -> <<w[4]>>
      from[i \in 1..Len(wide) + 1] ==
        IF i > Len(wide) \/ wide[i] = <<0, 0, 0, 0>> THEN <<>> ELSE one(wide[i]) \o from[i + 1]
  IN  from[1]
=============================================================================
