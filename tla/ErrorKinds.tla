----------------------------- MODULE ErrorKinds -----------------------------
(***************************************************************************)
(* The return codes of the C API and the ErrorKind that the Go binding     *)
(* makes of them (embedded/error.go).                                      *)
(***************************************************************************)
EXTENDS Integers

(* ZETA_ERR_PARSE .. ZETA_ERR_STORAGE are -1 .. -6; ZETA_ERR_UNKNOWN and   *)
(* any code the binding does not know fall into ErrUnknown.                *)
KindTable == << "ErrParse", "ErrType", "ErrConstraint",
                "ErrConflict", "ErrNotFound", "ErrStorage" >>

Kinds == {"ErrUnknown", "ErrParse", "ErrType", "ErrConstraint",
          "ErrConflict", "ErrNotFound", "ErrStorage"}

KindOf(code) == IF -code \in 1..6 THEN KindTable[-code] ELSE "ErrUnknown"
=============================================================================
