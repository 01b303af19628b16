------------------------------ MODULE IrTypes ------------------------------
(***************************************************************************)
(* What all parts of the package ir share: the two encodings and IrError.  *)
(***************************************************************************)
EXTENDS Integers

(* The type parameter of a Go interface, a template argument in C++. *)
Encodings == {"four", "eight"}

(* IrError, numbered as the Go constants and the C++ enumeration are. *)

Success            == 0
DecodeError        == 1
EndOfIr            == 2
CorruptedIr        == 3
IncompleteIr       == 4
QueryNotFound      == IncompleteIr + 1
EncodeError        == 6
UnsupportedVersion == 7

(* Errors that are no IrError: of encoding/json and of the io.Reader. *)
JsonError == 8
IoError   == 9

Errors == Success .. IoError
=============================================================================
