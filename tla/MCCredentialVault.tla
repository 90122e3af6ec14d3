------------------------- MODULE MCCredentialVault -------------------------
(* Four requests, of which two at a time; two passwords; one crash.  Events  *)
(* are all that these requests can log.                                    *)
EXTENDS CredentialVault

MCEvents == {"unlocked", "locked"} \X {0}
            \cup {"added", "accessed", "deleted", "updated"} \X (1 .. MaxCalls + 1)
=============================================================================
