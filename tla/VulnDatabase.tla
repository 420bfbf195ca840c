---------------------------- MODULE VulnDatabase ----------------------------
(***************************************************************************)
(* What the vulnerable application writes to its database at every start   *)
(* (services/db.ts initDb, called by start in app.ts): the sample rows, in *)
(* one batch, then the flag of each injection challenge, one INSERT each.  *)
(* The flags depend on the secret the process was started with.  A failure *)
(* is reported as a warning and the server listens all the same.           *)
(***************************************************************************)
EXTENDS Integers, FiniteSets

CONSTANTS
    Flagged,    \* the challenges whose flags live in the database
    Secrets,    \* the values FLAG_SECRET takes over the deployments
    NoSecret,   \* a row that is missing
    MaxStarts   \* bound: the starts of a behaviour

VARIABLES
    secret,     \* FLAG_SECRET of this process
    boot,       \* "down", "batch", "flags" or "up"
    left,       \* the flags still to insert
    whole,      \* initDb returned without an error
    flagRows,   \* flagRows[c]: the secret of the stored flag of c
    users,      \* the sample users, whose names are unique
    products,   \* the number of copies of the sample products and comments
    starts

vulnVars == <<secret, boot, left, whole, flagRows, users, products, starts>>

ASSUME VulnAssumption ==
    /\ IsFiniteSet(Flagged)
    /\ NoSecret \notin Secrets
    /\ MaxStarts \in Nat

VulnTypeOK ==
    /\ secret \in Secrets \cup {NoSecret}
    /\ boot \in {"down", "batch", "flags", "up"}
    /\ boot # "flags" => left = {}
    /\ flagRows \in [Flagged -> Secrets \cup {NoSecret}]
    /\ users \in 0 .. 1 /\ products \in 0 .. starts
    /\ starts \in 0 .. MaxStarts

VulnInit ==
    /\ secret = NoSecret /\ boot = "down" /\ left = {} /\ whole = FALSE
    /\ flagRows = [c \in Flagged |-> NoSecret]
    /\ users = 0 /\ products = 0 /\ starts = 0

(* The module of the flags throws when FLAG_SECRET is missing.             *)
Start(k) ==
    /\ boot = "down"
    /\ starts < MaxStarts
    /\ starts' = starts + 1
    /\ secret' = k
    /\ boot' = "batch"
    /\ UNCHANGED <<left, whole, flagRows, users, products>>

(* CREATE TABLE IF NOT EXISTS and the sample rows, one implicit            *)
(* transaction: the names of the users are unique, nothing else is, so     *)
(* ON CONFLICT DO NOTHING adds the products and comments once more.        *)
CreateTables ==
    /\ boot = "batch"
    /\ users' = 1
    /\ products' = products + 1
    /\ left' = Flagged
    /\ boot' = "flags"
    /\ UNCHANGED <<secret, whole, flagRows, starts>>

\* Mutant of Upsert: ON CONFLICT DO NOTHING, as for the sample rows.
InsertIfMissing(c) ==
    IF flagRows[c] = NoSecret THEN [flagRows EXCEPT ![c] = secret] ELSE flagRows

(* ON CONFLICT DO UPDATE.                                                  *)
Upsert(c) == [flagRows EXCEPT ![c] = secret]

InsertFlag(c) ==
    /\ boot = "flags"
    /\ c \in left
    /\ \A d \in left : c <= d
    /\ left' = left \ {c}
    /\ flagRows' = Upsert(c)
    /\ UNCHANGED <<secret, boot, whole, users, products, starts>>

Listen ==
    /\ boot = "flags" /\ left = {}
    /\ boot' = "up"
    /\ whole' = TRUE
    /\ UNCHANGED <<secret, left, flagRows, users, products, starts>>

(* A failing statement leaves what the earlier ones stored; start warns.   *)
InitFails ==
    /\ boot \in {"batch", "flags"}
    /\ boot' = "up"
    /\ left' = {}
    /\ UNCHANGED <<secret, whole, flagRows, users, products, starts>>

Stop ==
    /\ boot # "down"
    /\ boot' = "down"
    /\ left' = {} /\ whole' = FALSE
    /\ UNCHANGED <<secret, flagRows, users, products, starts>>

VulnNext ==
    \/ \E k \in Secrets : Start(k)
    \/ CreateTables \/ Listen \/ InitFails \/ Stop
    \/ \E c \in Flagged : InsertFlag(c)

VulnSpec == VulnInit /\ [][VulnNext]_vulnVars
-----------------------------------------------------------------------------
(* Once a start went through, every stored flag is the one the backend     *)
(* computes from the same secret, whatever an earlier start with another   *)
(* secret, or one that failed half way, had left in the table.             *)
FlagsCurrent == whole => \A c \in Flagged : flagRows[c] = secret
=============================================================================
