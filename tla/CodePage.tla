------------------------------ MODULE CodePage ------------------------------
(***************************************************************************)
(* The EBCDIC code pages of src/tn5250/codepage/codepage.cpp: a table from *)
(* bytes to Unicode for each page, the table of the other direction built  *)
(* from it, and the conversions that use them.  A code point 0 in a table  *)
(* is a byte the page does not have.                                       *)
(***************************************************************************)
EXTENDS TLC, SequencesExt, FiniteSetsExt

Byte == 0..255
MaxCodePoint == \h10FFFF
CodePoint == 0..MaxCodePoint
Space == \h40                  \* the EBCDIC blank
Replacement == \hFFFD          \* the Unicode replacement character

\* Bytes from first on that stand for these code points, or for n successive
\* ones.
Row(first, codes)   == [b \in first..(first + Len(codes) - 1) |-> codes[b - first + 1]]
Span(first, code, n) == [b \in first..(first + n - 1) |-> code + b - first]

\* The constructor: control bytes stand for themselves.
Blank == Span(0, 0, 64) @@ Space :> \h20 @@ [b \in Byte |-> 0]

\* initCommonLettersAndDigits
CommonLettersAndDigits ==
  (Span(\h81, \h61, 9) @@ Span(\h91, \h6A, 9) @@ Span(\hA2, \h73, 8) @@
   Span(\hC1, \h41, 9) @@ Span(\hD1, \h4A, 9) @@ Span(\hE2, \h53, 8) @@
   Span(\hF0, \h30, 10))
    @@ Blank

CP037 ==
  (Row(\h41, <<\hA0, \hE2, \hE4, \hE0, \hE1, \hE3, \hE5, \hE7, \hF1, \hA2, \h2E, \h3C>>) @@
   Row(\h4D, <<\h28, \h2B, \h7C, \h26, \hE9, \hEA, \hEB, \hE8, \hED, \hEE, \hEF, \hEC>>) @@
   Row(\h59, <<\hDF, \h21, \h24, \h2A, \h29, \h3B, \h5E, \h2D, \h2F, \hC2, \hC4, \hC0>>) @@
   Row(\h65, <<\hC1, \hC3, \hC5, \hC7, \hD1, \hA6, \h2C, \h25, \h5F, \h3E, \h3F, \hF8>>) @@
   Row(\h71, <<\hC9, \hCA, \hCB, \hC8, \hCD, \hCE, \hCF, \hCC, \h60, \h3A, \h23, \h40>>) @@
   Row(\h7D, <<\h27, \h3D, \h22, \hD8>>) @@
   Row(\h8A, <<\hAB, \hBB, \hF0, \hFD, \hFE, \hB1, \hB0>>) @@
   Row(\h9A, <<\hAA, \hBA, \hE6, \hB8, \hC6, \hA4, \hB5, \h7E>>) @@
   Row(\hAA, <<\hA1, \hBF, \hD0, \h5B, \hDE, \hAE, \hAC, \hA3, \hA5, \hB7, \hA9, \hA7>>) @@
   Row(\hB6, <<\hB6, \hBC, \hBD, \hBE, \hDD, \hA8, \hAF, \h5D, \hB4, \hD7, \h7B>>) @@
   Row(\hCA, <<\hAD, \hF4, \hF6, \hF2, \hF3, \hF5, \h7D>>) @@
   Row(\hDA, <<\hB9, \hFB, \hFC, \hF9, \hFA, \hFF, \h5C, \hF7>>) @@
   Row(\hEA, <<\hB2, \hD4, \hD6, \hD2, \hD3, \hD5>>) @@
   Row(\hFA, <<\hB3, \hDB, \hDC, \hD9, \hDA, \h9F>>))
    @@ CommonLettersAndDigits

CP273 ==
  (\h4A :> \hC4 @@ \h4F :> \h21 @@ Row(\h5A, <<\hD6, \hDC>>) @@ \h5F :> \hD7 @@
   \h6A :> \hFC @@ \h79 :> \hE4 @@ Row(\h7B, <<\hA7, \hF6>>) @@ \hA1 :> \hDF @@
   \hB5 :> \h40 @@ \hC0 :> \h7B @@ \hD0 :> \h7D @@ \hE0 :> \h5C)
    @@ CP037

CP277 ==
  (\h4A :> \h23 @@ \h5B :> \hD8 @@ \h5F :> \hDC @@ \h6A :> \hF8 @@ \h79 :> \h60 @@
   Row(\h7B, <<\hC5, \hC6>>) @@ \hA1 :> \hFC @@ \hAD :> \hE5 @@ \hBD :> \hE6)
    @@ CP037

CP278 ==
  (\h4A :> \hC9 @@ \h5B :> \hC5 @@ \h5F :> \hDC @@ \h6A :> \hE9 @@
   Row(\h7B, <<\hD6, \hC4>>) @@ \hA1 :> \hFC @@ \hAD :> \hE5 @@
   Row(\hBC, <<\hE4, \hF6>>))
    @@ CP037

CP280 ==
  (\h4A :> \hA3 @@ \h4F :> \hA7 @@ \h5B :> \hE9 @@ \h5F :> \h5E @@ \h6A :> \hEC @@
   \h79 :> \hF9 @@ Row(\h7B, <<\hE0, \hF2>>))
    @@ CP037

CP284 ==
  (\h4A :> \hA2 @@ \h4F :> \h21 @@ \h5A :> \hD1 @@ \h5F :> \h5E @@ \h6A :> \hF1 @@
   \h7B :> \hA7 @@ \hAD :> \hA1 @@ \hBD :> \hBF)
    @@ CP037

CP285 ==
  (\h4A :> \h24 @@ \h5B :> \hA3 @@ \h7B :> \hAF @@ \hB1 :> \h23)
    @@ CP037

CP297 ==
  (\h4A :> \hE8 @@ \h4F :> \hA7 @@ \h5B :> \h24 @@ \h5F :> \hB5 @@ \h6A :> \hE9 @@
   \h79 :> \hF9 @@ Row(\h7B, <<\hE0, \hB0>>) @@ \hA1 :> \hB4 @@ \hAD :> \hE7 @@
   \hBD :> \hA3)
    @@ CP037

CP500 ==
  (\h4A :> \h5B @@ \h4F :> \h21 @@ \h5A :> \h5D @@ \h5F :> \h5E @@ \hAD :> \h7E @@
   \hB0 :> \h5F @@ \hBD :> \h5C)
    @@ CP037

CP870 ==
  (Row(\h41, <<\hA0, \hE2, \hE4, \h165, \hE1, \h103, \h10D, \hE7, \h107, \h5B, \h2E, \h3C>>) @@
   Row(\h4D, <<\h28, \h2B, \h21, \h26, \hE9, \h119, \hEB, \h16F, \hED, \hEE, \h13E, \h13A>>) @@
   Row(\h59, <<\hDF, \h5D, \h24, \h2A, \h29, \h3B, \h5E, \h2D, \h2F, \hC2, \hC4, \h164>>) @@
   Row(\h65, <<\hC1, \h102, \h10C, \hC7, \h106, \h17C, \h2C, \h25, \h5F, \h3E, \h3F, \h111>>) @@
   Row(\h71, <<\hC9, \h118, \hCB, \h16E, \hCD, \hCE, \h13D, \h139, \h60, \h3A, \h23, \h40>>) @@
   Row(\h7D, <<\h27, \h3D, \h22, \h110>>) @@
   Row(\h8A, <<\h15A, \h164, \h179, \hFD, \h17D, \hB1, \hB0>>) @@
   Row(\h9A, <<\h15B, \h165, \h17A, \hB8, \h17E, \hA4, \hB5, \h105>>) @@
   Row(\hAA, <<\h15E, \h15F, \h150, \h7E, \h151, \h170, \h5F, \hA3, \hA5, \hB7, \hA9, \hA7>>) @@
   Row(\hB6, <<\hB6, \hBC, \hBD, \hBE, \h171, \hA8, \h104, \h5C>>) @@ \hC0 :> \h7B @@
   Row(\hCA, <<\h148, \hF4, \hF6, \h155, \hF3, \h159, \h7D>>) @@
   Row(\hDA, <<\h147, \hFB, \hFC, \h154, \hDA, \h158, \h5C, \hF7>>) @@
   Row(\hEA, <<\h144, \hD4, \hD6, \h143, \hD3, \h160>>) @@
   Row(\hFA, <<\h161, \hDB, \hDC, \h141, \h142, \h9F>>))
    @@ CommonLettersAndDigits

CP420 ==
  (\h41 :> \hA0 @@ Span(\h42, \h621, 8) @@
   Row(\h4A, <<\h60C, \h2E, \h3C, \h28, \h2B, \h7C, \h26>>) @@ Span(\h51, \h629, 9) @@
   Row(\h5A, <<\h21, \h24, \h2A, \h29, \h3B, \hAC, \h2D, \h2F>>) @@
   Span(\h62, \h632, 8) @@ Row(\h6A, <<\h61B, \h2C, \h25, \h5F, \h3E, \h3F, \h63A>>) @@
   Row(\h79, <<\h60, \h3A, \h23, \h40, \h27, \h3D, \h22, \h640>>) @@
   Span(\h8A, \h641, 7) @@ Span(\h9A, \h648, 8) @@
   Row(\hAA, <<\h650, \h651, \h652, \h5B>>) @@ \hBD :> \h5D @@
   Row(\hBF, <<\h61F, \h7B>>) @@ \hD0 :> \h7D @@ \hE0 :> \h5C)
    @@ CommonLettersAndDigits

CP424 ==
  (Span(\h41, \h5D0, 9) @@ Row(\h4A, <<\hA2, \h2E, \h3C, \h28, \h2B, \h7C, \h26>>) @@
   Span(\h51, \h5D9, 9) @@
   Row(\h5A, <<\h21, \h24, \h2A, \h29, \h3B, \hAC, \h2D, \h2F>>) @@
   Span(\h62, \h5E2, 8) @@ Row(\h6A, <<\hA6, \h2C, \h25, \h5F, \h3E, \h3F, \h5EA>>) @@
   Row(\h79, <<\h60, \h3A, \h23, \h40, \h27, \h3D, \h22>>) @@
   Row(\hA0, <<\hB5, \h7E>>) @@ \hAD :> \h5B @@ \hBD :> \h5D @@ \hC0 :> \h7B @@
   \hD0 :> \h7D @@ \hE0 :> \h5C)
    @@ CommonLettersAndDigits

CP838 ==
  (Span(\h41, \hE01, 9) @@ Row(\h4A, <<\h5B, \h2E, \h3C, \h28, \h2B, \h7C, \h26>>) @@
   Span(\h51, \hE0A, 9) @@
   Row(\h5A, <<\h21, \h24, \h2A, \h29, \h3B, \hAC, \h2D, \h2F>>) @@
   Span(\h62, \hE13, 8) @@ Row(\h6A, <<\h5D, \h2C, \h25, \h5F, \h3E, \h3F>>) @@
   Span(\h70, \hE1B, 9) @@
   Row(\h79, <<\h60, \h3A, \h23, \h40, \h27, \h3D, \h22, \hE24>>) @@
   Span(\h8A, \hE25, 7) @@ Row(\h9A, <<\hE2C, \hE2D, \hE2E>>) @@
   Span(\h9D, \hE30, 5) @@ Span(\hAA, \hE35, 6) @@ Span(\hB0, \hE50, 10) @@
   \hC0 :> \h7B @@ \hD0 :> \h7D @@ \hE0 :> \h5C)
    @@ CommonLettersAndDigits

-----------------------------------------------------------------------------
Pages == {"037", "273", "277", "278", "280", "284", "285", "297", "500",
          "870", "420", "424", "838"}

ToUnicodeTable ==
  "037" :> CP037 @@ "273" :> CP273 @@ "277" :> CP277 @@ "278" :> CP278 @@ "280" :> CP280
    @@ "284" :> CP284 @@ "285" :> CP285 @@ "297" :> CP297 @@ "500" :> CP500
    @@ "870" :> CP870 @@ "420" :> CP420 @@ "424" :> CP424 @@ "838" :> CP838

\* No byte stands for the replacement character, and byte 0 for nothing else
\* than 0.  The tables are constants, so that TLC's evaluation of what is
\* assumed of them is complete.
ASSUME TablesAssumption ==
  \A page \in Pages :
    /\ ToUnicodeTable[page] \in [Byte -> CodePoint]
    /\ ToUnicodeTable[page][0] = 0
    /\ \A b \in Byte : ToUnicodeTable[page][b] # Replacement

Capitals  == (48..57) \cup (65..90)            \* with the digits
LettersAndDigits == Capitals \cup (97..122)

\* The last byte of a page that stands for a code point.
IsLast(page, b, code) ==
  /\ ToUnicodeTable[page][b] = code
  /\ \A c \in Byte : c > b => ToUnicodeTable[page][c] # code

\* The bytes of letters and digits are above the blank, those of capitals and
\* digits above 192, and the same on every page.
ASSUME LettersAssumption ==
  /\ \A page \in Pages : IsLast(page, Space, 32)
  /\ \A code \in LettersAndDigits : \E b \in Byte :
       /\ b > Space /\ (code \in Capitals => b > 192)
       /\ \A page \in Pages : IsLast(page, b, code)

ToUnicode(page, b) ==
  LET code == ToUnicodeTable[page][b]
  IN  IF code = 0 /\ b # 0 THEN Replacement ELSE code

\* The loop of buildReverseTable over these bytes of each page: a later byte
\* takes a code point from an earlier one.
ReverseOf(bytes) ==
  LET Invert(table) ==
        [code \in {table[bytes[n]] : n \in DOMAIN bytes} |->
           bytes[Max({n \in DOMAIN bytes : table[bytes[n]] = code})]]
  IN  [p \in Pages |-> Invert(ToUnicodeTable[p])]

\* Mutant: the loop ends one byte early.
TableOneShort == ReverseOf([n \in 1..255 |-> n - 1])

\* Mutant: the loop runs backwards, so that control bytes win.
TableBackwards == ReverseOf([n \in 1..256 |-> 256 - n])

\* m_fromUnicodeTable
FromUnicodeTable == ReverseOf([n \in 1..256 |-> n - 1])

Codes(page) == DOMAIN FromUnicodeTable[page]

\* A byte 0 in the table is a code point that is not there.
FromUnicode(page, code) ==
  LET result == IF code \in Codes(page) THEN FromUnicodeTable[page][code] ELSE 0
  IN  IF result # 0 \/ code = 0 THEN result ELSE Space

\* How many bytes a UTF-8 sequence that begins with c takes, and what c adds
\* to the code point.
SequenceLength(c) ==
  CASE c \in 192..223 -> 2 [] c \in 224..239 -> 3 [] c \in 240..247 -> 4 [] OTHER -> 1

LeadBits(c) ==
  CASE c < 128 -> c [] c \in 192..223 -> c - 192 [] c \in 224..239 -> c - 224
    [] c \in 240..247 -> c - 240 [] OTHER -> Replacement

\* The code point of the sequence that begins at k.  The bytes that go on a
\* sequence are not checked, and those that are missing at the end left out.
CodeAt(utf8, k) ==
  LET Continued(code, n) ==
        IF n < SequenceLength(utf8[k]) /\ k + n <= Len(utf8)
        THEN 64 * code + (utf8[k + n] % 64) ELSE code
  IN  Continued(Continued(Continued(LeadBits(utf8[k]), 1), 2), 3)

\* The code points of a UTF-8 string.
CodePoints(utf8) ==
  LET from[k \in 1..(Len(utf8) + 4)] ==
        IF k > Len(utf8) THEN <<>>
        ELSE <<CodeAt(utf8, k)>> \o from[k + SequenceLength(utf8[k])]
  IN  from[1]

FromUnicodeString(page, utf8) ==
  LET codes == CodePoints(utf8)
  IN  [n \in DOMAIN codes |-> FromUnicode(page, codes[n])]
=============================================================================
