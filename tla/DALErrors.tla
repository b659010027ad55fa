------------------------------ MODULE DALErrors ------------------------------
(***************************************************************************)
(* dalerrs (src/unnamed/part_000): the error taxonomy shared by the        *)
(* controller DAL and the configuration DAL, which both talk to the one   *)
(* database.                                                               *)
(*                                                                         *)
(* Data abstraction: an error is its class. "ok" is nil; "noRows" is the  *)
(* driver's sql.ErrNoRows or pgx.ErrNoRows; a PgError is named by the     *)
(* class of its code; "upstream" is any other error (a broken connection, *)
(* a PgError of another code). The message text is left out.              *)
(***************************************************************************)

PGErrors == {"ok", "noRows", "foreignKey", "unique", "integrity", "restrict",
             "notNull", "check", "exclusion", "upstream"}

(* ErrNotFound, ErrConflict and ErrConstraint. *)
Sentinels == {"notFound", "conflict", "constraint"}

(* TranslatePGError: nil stays nil; a foreign-key violation becomes      *)
(* ErrNotFound, a unique violation ErrConflict, the integrity, restrict, *)
(* not-null, check and exclusion violations ErrConstraint (each wrapped  *)
(* under a message); "no rows" becomes ErrNotFound itself; anything else *)
(* is returned as it is.                                                 *)
TranslatePGError(e) ==
  CASE e = "ok"          -> "ok"
    [] e = "noRows"      -> "notFound"
    [] e = "foreignKey"  -> "notFound"
    [] e = "unique"      -> "conflict"
    [] e \in {"integrity", "restrict", "notNull", "check", "exclusion"} -> "constraint"
    [] OTHER             -> e
==============================================================================
