--------------------------- MODULE MCVendorUpload ---------------------------
(* Two uploads at a vendor, of the files f1, which is not UTF-8 text, and f2, *)
(* which is too long; the directory holds the empty file f0, and a file that  *)
(* is being written still reads as empty.                                     *)
EXTENDS VendorUpload, TLC

CONSTANTS u1, u2, f0, f1, f2, text1, i1, i2

MCutf8 == [file \in File |-> IF file = f1 THEN text1 ELSE file]
MCContent == [u \in Upload |-> IF u = u1 THEN f1 ELSE f2]
==============================================================================
