----------------------------- MODULE AuditAnchors -----------------------------
(***************************************************************************)
(* Checkpoints of the whole audit history, the receipts an external notary *)
(* signs for them, and what a valid anchor proves.                         *)
(*                                                                         *)
(* The hash of an audit event is represented by the moment it was recorded *)
(* at, which no two events share; an event names the hash of the one       *)
(* before it.  A manifest is written to the object store, which keeps it,  *)
(* before its row.  Rows of the audit table may be cut out behind the      *)
(* program's back (the damage the anchor is there to find).                *)
(***************************************************************************)
EXTENDS Naturals, Sequences, SequencesExt, FiniteSets

CONSTANTS
    Chain,        \* aggregates with an audit chain
    Admin,        \* operators
    Checkpoint,   \* identifiers of checkpoint rows
    Key,          \* HMAC keys
    MaxAge,       \* audit_anchor_max_age_seconds
    LastMoment,   \* bound of the clock
    NoRow

VARIABLES
    chains,      \* [Chain -> Seq of events]: the audit_events table
    objects,     \* manifests in the object store
    checkpoints, \* [Checkpoint -> row or NoRow]
    receipts,    \* [Checkpoint -> row or NoRow]
    signed,      \* what the notary signed: <<checkpoint, moment>>
    activeKey, keyring,
    moment

anchorVars == <<chains, objects, checkpoints, receipts, signed, activeKey, keyring,
                moment>>

AnchorInit ==
    /\ chains = [c \in Chain |-> <<>>]
    /\ objects = {} /\ signed = {}
    /\ checkpoints = [k \in Checkpoint |-> NoRow]
    /\ receipts = [k \in Checkpoint |-> NoRow]
    /\ activeKey \in Key /\ keyring = {activeKey}
    /\ moment = 1

-----------------------------------------------------------------------------
LastHash(chain) == IF chain = <<>> THEN 0 ELSE Last(chain).at

\* verify_chain: every event names its predecessor and its key is at hand.
ChainVerifies(chain) ==
    \A i \in DOMAIN chain :
        /\ chain[i].previous = LastHash(SubSeq(chain, 1, i - 1))
        /\ chain[i].key \in keyring

EventCount == FoldFunction(LAMBDA chain, n : Len(chain) + n, 0, chains)

\* The terminal of a chain: its length and the hash of its last event.
Terminals == [c \in {d \in Chain : chains[d] # <<>>} |->
                [sequence |-> Len(chains[c]), hash |-> LastHash(chains[c])]]

RecordEvent(c) ==
    /\ moment < LastMoment
    /\ chains' = [chains EXCEPT ![c] =
            Append(@, [at |-> moment, previous |-> LastHash(@), key |-> activeKey])]
    /\ moment' = moment + 1
    /\ UNCHANGED <<objects, checkpoints, receipts, signed, activeKey, keyring>>

\* create_checkpoint up to the stored manifest ...  (covers is what the manifest
\* stands for; it is not written.)
PutManifest(k) ==
    /\ checkpoints[k] = NoRow
    /\ \A m \in objects : m.id # k
    /\ EventCount > 0
    /\ \A c \in Chain : ChainVerifies(chains[c])
    /\ objects' = objects \cup {[id |-> k, terminals |-> Terminals, count |-> EventCount,
                                 at |-> moment, covers |-> chains]}
    /\ UNCHANGED <<chains, checkpoints, receipts, signed, activeKey, keyring, moment>>

\* ... and its commit, which may never come (the manifest then stays alone).
\* The row keeps the hash of the manifest.
CommitCheckpoint(a, k) ==
    /\ checkpoints[k] = NoRow
    /\ \E m \in objects :
          /\ m.id = k
          /\ checkpoints' = [checkpoints EXCEPT ![k] = [manifest |-> m, by |-> a]]
    /\ UNCHANGED <<chains, objects, receipts, signed, activeKey, keyring, moment>>

\* The notary signs a checkpoint hash together with its own time.
Notarize(k) ==
    /\ checkpoints[k] # NoRow
    /\ signed' = signed \cup {<<k, moment>>}
    /\ UNCHANGED <<chains, objects, checkpoints, receipts, activeKey, keyring, moment>>

\* register_receipt; the same receipt again is answered with the row there is.
Registrable(a, k, at) ==
    /\ checkpoints[k] # NoRow
    /\ checkpoints[k].by # a
    /\ checkpoints[k].manifest.at <= at /\ at <= moment
    /\ receipts[k] = NoRow
    /\ <<k, at>> \in signed

RegisterReceipt(a, k, at) ==
    /\ Registrable(a, k, at)
    /\ receipts' = [receipts EXCEPT ![k] = [at |-> at, by |-> a]]
    /\ UNCHANGED <<chains, objects, checkpoints, signed, activeKey, keyring, moment>>

\* Rotation keeps the old key for verification.
RotateKey(key) ==
    /\ key \notin keyring
    /\ activeKey' = key
    /\ keyring' = keyring \cup {key}
    /\ UNCHANGED <<chains, objects, checkpoints, receipts, signed, moment>>

\* Damage: a row of the audit table is gone.
CutOut(c, i) ==
    /\ chains' = [chains EXCEPT ![c] = RemoveAt(@, i)]
    /\ UNCHANGED <<objects, checkpoints, receipts, signed, activeKey, keyring, moment>>

AnchorNext ==
    \/ \E c \in Chain : RecordEvent(c) \/ \E i \in DOMAIN chains[c] : CutOut(c, i)
    \/ \E k \in Checkpoint : PutManifest(k) \/ Notarize(k)
    \/ \E a \in Admin, k \in Checkpoint : CommitCheckpoint(a, k)
    \/ \E a \in Admin, k \in Checkpoint, t \in 1 .. LastMoment : RegisterReceipt(a, k, t)
    \/ \E key \in Key : RotateKey(key)

AnchorSpec == AnchorInit /\ [][AnchorNext]_anchorVars

-----------------------------------------------------------------------------
Receipted == {k \in Checkpoint : receipts[k] # NoRow}

\* anchor_status looks at the receipt with the newest anchored_at only.
Newest(k) == \A other \in Receipted : receipts[other].at <= receipts[k].at

\* _read_checkpoint_manifest.
ManifestReadable(k) == checkpoints[k].manifest \in objects
\* Mutant: the history is long enough and verifies; its terminals are not compared.
HistoryIsLongEnough(manifest) ==
    EventCount >= manifest.count /\ \A c \in Chain : ChainVerifies(chains[c])

\* _verify_current_audit_against_manifest.
HistoryContains(manifest) ==
    /\ EventCount >= manifest.count
    /\ \A c \in Chain : ChainVerifies(chains[c])
    /\ \A c \in DOMAIN manifest.terminals :
          LET terminal == manifest.terminals[c] IN
          /\ Len(chains[c]) >= terminal.sequence
          /\ chains[c][terminal.sequence].at = terminal.hash

\* anchor_status.valid for the receipt of checkpoint k.
AnchorValid(k) == /\ k \in Receipted /\ Newest(k)
                  /\ moment - receipts[k].at <= MaxAge
                  /\ ManifestReadable(k)
                  /\ HistoryContains(checkpoints[k].manifest)

\* What a valid anchor proves: every event its checkpoint was made over is
\* still there, whatever was cut out and recorded since.
AnchorProvesHistory ==
    \A k \in Checkpoint : AnchorValid(k) =>
        \A c \in Chain : IsPrefix(checkpoints[k].manifest.covers[c], chains[c])

\* A checkpoint always has its manifest, and its receipt comes from the notary
\* through a second operator.
ReceiptsAreIndependent ==
    \A k \in Checkpoint :
        /\ checkpoints[k] # NoRow => ManifestReadable(k)
        /\ k \in Receipted => /\ checkpoints[k] # NoRow
                              /\ receipts[k].by # checkpoints[k].by
                              /\ <<k, receipts[k].at>> \in signed
=============================================================================
