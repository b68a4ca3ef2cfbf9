------------------------------- MODULE Roman8 -------------------------------
(***************************************************************************)
(* The HP Roman-8 characters and their UTF-8 coding (roman8.c).            *)
(***************************************************************************)
EXTENDS Integers, Sequences

Blank == 32

\* roman8_table from 0xA0 on, in rows of 16; below there is nothing but blanks.
RowA == <<\h20, \hC0, \hC2, \hC8, \hCA, \hCB, \hCE, \hCF, \hB4, \h60, \h2C6, \hA8, \h2DC, \hD9, \hDB, \h20A4>>
RowB == <<\hAF, \h20, \h20, \hB0, \hC7, \hE7, \hD1, \hF1, \hA1, \hBF, \hA4, \hA3, \hA5, \hA7, \h192, \hA2>>
RowC == <<\hE2, \hEA, \hF4, \hFB, \hE1, \hE9, \hF3, \hFA, \hE0, \hE8, \hF2, \hF9, \hE4, \hEB, \hF6, \hFC>>
RowD == <<\hC5, \hEE, \hD8, \hC6, \hE5, \hED, \hF8, \hE6, \hC4, \hEC, \hD6, \hDC, \hC9, \hEF, \hDF, \hD4>>
RowE == <<\hC1, \hC3, \hE3, \hD0, \h111, \hCD, \hCC, \hD3, \hD2, \hD5, \hF5, \h160, \h161, \hDA, \h178, \hFF>>
RowF == <<\hDE, \hFE, \h20, \h20, \h20, \h20, \h2D, \hBC, \hBD, \hAA, \hBA, \hAB, \h25A0, \hBB, \hB1, \h20>>

Table == <<RowA, RowB, RowC, RowD, RowE, RowF>>

\* The Unicode character of byte n >= 128; Blank when there is none.
Roman8(n) == IF n < 160 THEN Blank ELSE Table[(n \div 16) - 9][(n % 16) + 1]

\* roman8_to_utf8; the table has no character of more than 16 bits.
Utf8(wc) ==
  IF wc < 128 THEN <<wc>>
  ELSE IF wc < 2048 THEN <<192 + (wc \div 64), 128 + (wc % 64)>>
  ELSE <<224 + (wc \div 4096), 128 + ((wc \div 64) % 64), 128 + (wc % 64)>>

\* What a reader of UTF-8 takes the bytes s for.
Utf8Read(s) ==
  IF Len(s) = 1 THEN s[1]
  ELSE IF Len(s) = 2 THEN (s[1] % 32) * 64 + (s[2] % 64)
  ELSE (s[1] % 16) * 4096 + (s[2] % 64) * 64 + (s[3] % 64)
=============================================================================
