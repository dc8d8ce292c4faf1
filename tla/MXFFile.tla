------------------------------ MODULE MXFFile ------------------------------
(***************************************************************************)
(* What an MXFFile promises its user, whatever implements it: a random     *)
(* access sequence of bytes with a position and an end-of-file flag.  The  *)
(* actions are those of the plain disk file of mxf_file.c, which the other *)
(* implementations (cache, pages, memory) stand in for.                    *)
(*                                                                         *)
(* A read or a write may be carried out in several pieces, as fread() and  *)
(* fwrite() do, so the actions below move one piece.  By data independence *)
(* only the bytes at the positions in Watched are distinguished: nothing   *)
(* in the file layer branches on the value of a byte.                      *)
(***************************************************************************)
EXTENDS Integers

CONSTANTS Watched,  (* the byte positions whose content is followed        *)
          Values    (* what a client may store in a byte                   *)

VARIABLES size,     (* number of bytes in the file                         *)
          bytes,    (* content at the watched positions                    *)
          position, (* where the next read or write starts                 *)
          eof       (* end-of-file flag, as returned by mxf_file_eof       *)

fileVars == <<size, bytes, position, eof>>

(* The watched positions among the n bytes from position p on.             *)
Span(p, n) == {w \in Watched : p <= w /\ w < p + n}

Larger(a, b) == IF a >= b THEN a ELSE b

Open ==
    /\ size \in Nat
    /\ position = 0
    /\ eof = FALSE

(* A piece of a read: n bytes that exist.                                  *)
ReadPiece ==
    /\ position' \in (position + 1) .. size
    /\ UNCHANGED <<size, bytes, eof>>

(* The end of a read; it reports end of file only at the end of the file.  *)
ReadReturns ==
    /\ eof' \in BOOLEAN
    /\ eof' => position >= size
    /\ UNCHANGED <<size, bytes, position>>

(* A piece of a write: v at all of the positions it covers, no change to   *)
(* any other position, and the file grows only when the piece ends past it.*)
WritePiece(v) ==
    /\ position' > position
    /\ size' = Larger(size, position')
    /\ bytes' = [w \in Watched |->
                    IF w \in Span(position, position' - position) THEN v ELSE bytes[w]]
    /\ UNCHANGED eof

Seek(newPosition) ==
    /\ newPosition >= 0
    /\ position' = newPosition
    /\ eof' = FALSE
    /\ UNCHANGED <<size, bytes>>

SeekEnd == Seek(size)

FileNext ==
    \/ ReadPiece
    \/ ReadReturns
    \/ \E v \in Values : WritePiece(v)
    \/ Seek(position')
    \/ SeekEnd

FileSpec == Open /\ [][FileNext]_fileVars
=============================================================================
