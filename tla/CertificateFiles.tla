-------------------------- MODULE CertificateFiles --------------------------
(***************************************************************************)
(* The certificate and private-key files of velum-node: their replacement  *)
(* by `acme obtain` and `acme renew` (acme.rs), their first writing by     *)
(* `setup` (setup.rs), and the relay that loads them when it starts or is  *)
(* told to reload (cli.rs, admin.rs). A certificate and a key fit if they  *)
(* are of one generation. Every file operation may fail, and either        *)
(* process may die between two of them.                                    *)
(***************************************************************************)
EXTENDS Naturals, Sequences

CONSTANT
  MaxPair           \* bound: pairs ever made

VARIABLES
  live,             \* the configured files: the generation of each half, or NoFile
  staged,           \* the staging files of either command
  backup,           \* the previous pair, while it is being replaced
  activation,       \* the running command
  made,             \* pairs made so far, by Lego or by setup
  good,             \* the pair last put into use
  relay,            \* [running, socket, pair, loading]
  reloads,          \* reloads queued or about to be: does the requester still wait?
  reloaded          \* the last command said that the relay had reloaded

certificateVars == <<live, staged, backup, activation, made, good, relay, reloads, reloaded>>

NoFile == 0
Halves == {"cert", "key"}
NoPair == [h \in Halves |-> NoFile]
Fits(pair) == pair["cert"] = pair["key"] /\ pair["cert"] # NoFile
NoActivation == [at |-> "idle"]
NotLoading == [cert |-> NoFile, waited |-> FALSE]

CertificateInit ==
  /\ live = NoPair /\ backup = NoPair
  /\ staged = [k \in {"acme", "setup"} |-> NoPair]
  /\ activation = NoActivation /\ made = 0 /\ good = NoFile
  /\ relay = [running |-> FALSE, socket |-> FALSE, pair |-> NoPair, loading |-> NotLoading]
  /\ reloads = << >> /\ reloaded = FALSE

----------------------------------------------------------------------------
Goto(at) == activation' = [activation EXCEPT !.at = at]
Fails == activation' = NoActivation
CleanStage == staged' = [staged EXCEPT ![activation.kind] = NoPair]
Unlinked(files, h) == [files EXCEPT ![h] = NoFile]
RelayUnchanged == UNCHANGED <<made, good, relay, reloads, reloaded>>

(* acme run: Lego makes a pair that is validated before anything is        *)
(* staged. A renewal, or an admin socket, asks for a reload.               *)
AcmeRun(renew) ==
  /\ activation = NoActivation /\ made < MaxPair
  /\ made' = made + 1
  /\ activation' = [at |-> "stage cert", kind |-> "acme", pair |-> made + 1,
                    reload |-> renew \/ relay.socket, had |-> [h \in Halves |-> FALSE]]
  /\ reloaded' = FALSE
  /\ UNCHANGED <<live, staged, backup, good, relay, reloads>>

(* write_new_certificate_pair of setup, where neither file exists.         *)
SelfSigned ==
  /\ activation = NoActivation /\ made < MaxPair /\ live = NoPair
  /\ made' = made + 1
  /\ activation' = [at |-> "stage cert", kind |-> "setup", pair |-> made + 1,
                    reload |-> FALSE, had |-> [h \in Halves |-> FALSE]]
  /\ reloaded' = FALSE
  /\ UNCHANGED <<live, staged, backup, good, relay, reloads>>

(* A file whose copy or whose permissions failed may stay behind.          *)
LeftBehind(file, copy) == IF file = NoFile THEN {NoFile, copy} ELSE {file}

(* stage_private_file and write_staged_private_file. A staging file of an  *)
(* earlier command is never taken over.                                    *)
Stage(h, next) ==
  /\ activation.at = (IF h = "cert" THEN "stage cert" ELSE "stage key")
  /\ \/ /\ staged[activation.kind][h] = NoFile
        /\ staged' = [staged EXCEPT ![activation.kind][h] = activation.pair]
        /\ Goto(next)
     \/ /\ \E left \in LeftBehind(staged[activation.kind][h], activation.pair) :
             staged' = [staged EXCEPT ![activation.kind][h] = left,
                                      ![activation.kind]["cert"] = IF h = "key" THEN NoFile ELSE left]
        /\ Fails
  /\ UNCHANGED <<live, backup>> /\ RelayUnchanged

(* Mutant: a backup that is there is overwritten.                          *)
BackupOverwrites(h, next) ==
  /\ activation.at = (IF h = "cert" THEN "backup cert" ELSE "backup key")
  /\ backup' = [backup EXCEPT ![h] = live[h]]
  /\ activation' = [activation EXCEPT !.at = next, !.had[h] = live[h] # NoFile]
  /\ UNCHANGED <<live, staged>> /\ RelayUnchanged

(* backup_file of both halves; the first one's goes if the second fails.   *)
Backup(h, next) ==
  /\ activation.at = (IF h = "cert" THEN "backup cert" ELSE "backup key")
  /\ \/ /\ live[h] # NoFile => backup[h] = NoFile
        /\ backup' = IF live[h] = NoFile THEN backup ELSE [backup EXCEPT ![h] = live[h]]
        /\ activation' = [activation EXCEPT !.at = next, !.had[h] = live[h] # NoFile]
        /\ UNCHANGED staged
     \/ /\ \E left \in LeftBehind(backup[h], live[h]) :
             backup' = [backup EXCEPT ![h] = left,
                          !["cert"] = IF h = "key" /\ activation.had["cert"] THEN NoFile
                                      ELSE IF h = "cert" THEN left ELSE @]
        /\ CleanStage /\ Fails
  /\ UNCHANGED live /\ RelayUnchanged

DropBackups == [h \in Halves |-> IF activation.had[h] THEN NoFile ELSE backup[h]]

(* activate_pair and setup's two renames: the certificate, then the key.   *)
ReplaceCertificate ==
  /\ activation.at = "replace cert"
  /\ \/ /\ live' = [live EXCEPT !["cert"] = activation.pair]
        /\ staged' = [staged EXCEPT ![activation.kind]["cert"] = NoFile]
        /\ Goto("replace key") /\ UNCHANGED backup
     \/ /\ backup' = DropBackups /\ CleanStage /\ Fails /\ UNCHANGED live
  /\ RelayUnchanged

(* The pair is whole. Without a reload it is in use from here on.          *)
ReplaceKey ==
  /\ activation.at = "replace key"
  /\ live' = [live EXCEPT !["key"] = activation.pair]
  /\ staged' = [staged EXCEPT ![activation.kind]["key"] = NoFile]
  /\ Goto(IF activation.reload THEN "reload" ELSE "commit")
  /\ good' = IF activation.reload THEN good ELSE activation.pair
  /\ UNCHANGED <<backup, made, relay, reloads, reloaded>>
ReplaceKeyFails ==
  /\ activation.at = "replace key"
  /\ Goto("undo cert")
  /\ UNCHANGED <<live, staged, backup>> /\ RelayUnchanged

(* ActivatedPair::commit: one backup after the other.                      *)
Commit(h, next) ==
  /\ activation.at = (IF h = "cert" THEN "commit" ELSE "commit key")
  /\ backup' = IF activation.had[h] THEN Unlinked(backup, h) ELSE backup
  /\ activation' = IF next = "idle" THEN NoActivation ELSE [activation EXCEPT !.at = next]
  /\ UNCHANGED <<live, staged>> /\ RelayUnchanged

(* restore_file: a half that was not there before goes away again.         *)
Restored(h) ==
  \/ /\ live' = [live EXCEPT ![h] = IF activation.had[h] THEN backup[h] ELSE NoFile]
     /\ backup' = IF activation.had[h] THEN Unlinked(backup, h) ELSE backup
  \/ UNCHANGED <<live, backup>>

(* activate_pair, or setup, without a new key: the certificate goes back,  *)
(* then the backup of the key and what was staged go.                      *)
UndoCertificate ==
  /\ activation.at = "undo cert" /\ Restored("cert") /\ Goto("undo rest")
  /\ UNCHANGED staged /\ RelayUnchanged
UndoRest ==
  /\ activation.at = "undo rest"
  /\ backup' = IF activation.had["key"] THEN Unlinked(backup, "key") ELSE backup
  /\ CleanStage /\ Fails
  /\ UNCHANGED live /\ RelayUnchanged

(* ActivatedPair::rollback, the key first. One half that cannot be         *)
(* restored does not keep the other from it.                               *)
Restore(h) ==
  /\ activation.at = (IF h = "cert" THEN "restore cert" ELSE "restore key") /\ Restored(h)
  /\ activation' = IF h = "key" THEN [activation EXCEPT !.at = "restore cert"] ELSE NoActivation
  /\ UNCHANGED staged /\ RelayUnchanged

ActivationDies ==
  /\ activation # NoActivation
  /\ Fails
  /\ reloads' = [i \in DOMAIN reloads |-> FALSE]
  /\ relay' = [relay EXCEPT !.loading.waited = FALSE]
  /\ UNCHANGED <<live, staged, backup, made, good, reloaded>>

(* docs/acme.md: a crash between the two replacements requires operator    *)
(* recovery. Leftovers of a whole pair go; otherwise the backups return.   *)
OperatorRecovers ==
  /\ activation = NoActivation
  /\ backup # NoPair \/ \E k \in DOMAIN staged : staged[k] # NoPair
  /\ live' = IF Fits(live) THEN live
             ELSE [h \in Halves |-> IF backup[h] # NoFile THEN backup[h] ELSE live[h]]
  /\ backup' = NoPair /\ staged' = [k \in DOMAIN staged |-> NoPair]
  /\ good' = IF Fits(live') THEN live'["cert"] ELSE good
  /\ UNCHANGED <<activation, made, relay, reloads, reloaded>>

----------------------------------------------------------------------------
(* The relay. serve loads the pair or does not start; a socket left by a   *)
(* relay that died is replaced.                                            *)
Serve ==
  /\ ~relay.running /\ Fits(live)
  /\ relay' = [running |-> TRUE, socket |-> TRUE, pair |-> live, loading |-> NotLoading]
  /\ UNCHANGED <<live, staged, backup, activation, made, good, reloads, reloaded>>

(* The end of the relay, with its socket or (a crash) without. Whoever     *)
(* waits for its answer has none.                                          *)
RelayStops(crash) ==
  /\ relay.running
  /\ relay' = [relay EXCEPT !.running = FALSE, !.socket = crash, !.loading = NotLoading]
  /\ reloads' = << >>
  /\ activation' = IF activation.at = "wait" THEN [activation EXCEPT !.at = "restore key"] ELSE activation
  /\ UNCHANGED <<live, staged, backup, made, good, reloaded>>

(* request_reload: admin::request, and the handler that sends a Reload. If *)
(* the channel is full the handler waits its turn, and sends even after    *)
(* the requester has given up; so `reloads` is the channel and those who   *)
(* wait to send to it.                                                     *)
RequestReload ==
  /\ activation.at = "reload"
  /\ IF relay.running
     THEN Goto("wait") /\ reloads' = Append(reloads, TRUE)
     ELSE Goto("restore key") /\ UNCHANGED reloads
  /\ UNCHANGED <<live, staged, backup, made, good, relay, reloaded>>

(* Either side's five seconds are over. The request stays in the queue.    *)
ReloadTimesOut ==
  /\ activation.at = "wait"
  /\ Goto("restore key")
  /\ reloads' = [i \in DOMAIN reloads |-> FALSE]
  /\ relay' = [relay EXCEPT !.loading.waited = FALSE]
  /\ UNCHANGED <<live, staged, backup, made, good, reloaded>>

(* The listener's loop takes a Reload: config::load reads the certificate, *)
(* then the key, which may have changed in between.                        *)
ReloadReadsCertificate ==
  /\ relay.running /\ relay.loading = NotLoading /\ reloads # << >>
  /\ live["cert"] # NoFile
  /\ relay' = [relay EXCEPT !.loading = [cert |-> live["cert"], waited |-> Head(reloads)]]
  /\ reloads' = Tail(reloads)
  /\ UNCHANGED <<live, staged, backup, activation, made, good, reloaded>>

(* The answer, to a requester that still waits.                            *)
Answer(waited, success) ==
  IF waited
  THEN /\ activation' = [activation EXCEPT !.at = IF success THEN "commit" ELSE "restore key"]
       /\ good' = IF success THEN activation.pair ELSE good
       /\ reloaded' = success
  ELSE UNCHANGED <<activation, good, reloaded>>

(* Mutant: the new pair is installed without a look at whether it fits.    *)
ReloadReadsKeyUnchecked ==
  /\ relay.running /\ relay.loading # NotLoading
  /\ relay' = [relay EXCEPT !.loading = NotLoading,
                 !.pair = [h \in Halves |-> IF h = "cert" THEN relay.loading.cert ELSE live[h]]]
  /\ Answer(relay.loading.waited, TRUE)
  /\ UNCHANGED <<live, staged, backup, made, reloads>>

(* with_single_cert refuses a key that does not fit, load may refuse the   *)
(* rest of the configuration; the relay then keeps what it has.            *)
ReloadReadsKey ==
  /\ relay.running /\ relay.loading # NotLoading
  /\ \/ /\ live["key"] = relay.loading.cert
        /\ relay' = [relay EXCEPT !.loading = NotLoading, !.pair = [h \in Halves |-> live["key"]]]
        /\ Answer(relay.loading.waited, TRUE)
     \/ /\ relay' = [relay EXCEPT !.loading = NotLoading]
        /\ Answer(relay.loading.waited, FALSE)
  /\ UNCHANGED <<live, staged, backup, made, reloads>>
ReloadRefused ==
  /\ relay.running /\ relay.loading = NotLoading /\ reloads # << >>
  /\ reloads' = Tail(reloads)
  /\ Answer(Head(reloads), FALSE)
  /\ UNCHANGED <<live, staged, backup, made, relay>>

CertificateNext ==
  \/ \E renew \in BOOLEAN : AcmeRun(renew)
  \/ SelfSigned
  \/ Stage("cert", "stage key")
  \/ activation # NoActivation /\
       Stage("key", IF activation.kind = "setup" THEN "replace cert" ELSE "backup cert")
  \/ Backup("cert", "backup key") \/ Backup("key", "replace cert")
  \/ ReplaceCertificate \/ ReplaceKey \/ ReplaceKeyFails
  \/ Commit("cert", "commit key") \/ Commit("key", "idle")
  \/ UndoCertificate \/ UndoRest \/ Restore("key") \/ Restore("cert")
  \/ ActivationDies \/ OperatorRecovers
  \/ Serve \/ \E crash \in BOOLEAN : RelayStops(crash)
  \/ RequestReload \/ ReloadTimesOut \/ ReloadReadsCertificate \/ ReloadReadsKey \/ ReloadRefused

CertificateSpec == CertificateInit /\ [][CertificateNext]_certificateVars

----------------------------------------------------------------------------
(* The pair last in use is never lost: whatever fails, and wherever the    *)
(* command dies, each half of it is in its place or beside it as a backup. *)
GoodPairSurvives ==
  good # NoFile => \A h \in Halves : good \in {live[h], backup[h]}

(* The relay serves a certificate with its own key, though it may read the *)
(* two while a command that stopped waiting puts the old ones back; and    *)
(* when a command reported the reload, the relay serves the pair on disk.  *)
ServesConfirmedPair ==
  /\ relay.running => Fits(relay.pair)
  /\ reloaded /\ relay.running /\ activation = NoActivation =>
       relay.pair = live /\ live["cert"] = good

(* A pair of files is replaced as a whole, on disk and in the relay.       *)
PairsSound == GoodPairSurvives /\ ServesConfirmedPair
=============================================================================
