--------------------------- MODULE MC_CaptureRing ---------------------------
(* Two backends of different databases, a ring of two slots; the setting   *)
(* plansight.database may name one that does not exist.                    *)
EXTENDS CaptureRing, TLC

CONSTANTS b1, b2, appDb, otherDb, noDb

MCBackendDb == (b1 :> appDb) @@ (b2 :> otherDb)

=============================================================================
