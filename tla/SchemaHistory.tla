---------------------------- MODULE SchemaHistory ----------------------------
(***************************************************************************)
(* What SchemaMigrator promises of the database: migrations are versioned, *)
(* applied in order, each one once, whatever processes start on the file   *)
(* and whenever they die.                                                  *)
(***************************************************************************)
EXTENDS Naturals, Sequences

CONSTANT LatestVersion  \* SchemaMigrator.LatestVersion

VARIABLES
  applied,  \* versions recorded in SchemaMigrations
  scripts   \* migration scripts that took effect, in order

Init == applied = {} /\ scripts = <<>>

\* The only step: the next version takes effect and is recorded, together.
Apply ==
  /\ Len(scripts) < LatestVersion
  /\ scripts' = Append(scripts, Len(scripts) + 1)
  /\ applied' = applied \cup {Len(scripts) + 1}

Spec == Init /\ [][Apply]_<<applied, scripts>>
=============================================================================
