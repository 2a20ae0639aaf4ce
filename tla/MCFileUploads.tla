----------------------------- MODULE MCFileUploads -----------------------------
(* A small instance of FileUploads for TLC: three uploads of one content and *)
(* one of a content of a type that is not allowed.                           *)
EXTENDS FileUploads

CONSTANTS u1, u2, u3, u4, pdf, image

MCUploads   == {u1, u2, u3, u4}
MCContents  == {pdf, image}
MCContentOf == [u \in MCUploads |-> IF u = u4 THEN image ELSE pdf]
MCAllowed   == {pdf}
===============================================================================
