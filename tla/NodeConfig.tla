----------------------------- MODULE NodeConfig -----------------------------
(***************************************************************************)
(* The operator's files of velum-node and the commands that change them:   *)
(* init, setup, client issue, client revoke, uninstall, and the load of a  *)
(* configuration by a relay that starts. Every file operation may fail and *)
(* a command may die between two of them.                                  *)
(*                                                                         *)
(* A command runs alone: the files have no lock, and two operators at once *)
(* are outside this module. config::write replaces the file by a rename,   *)
(* so it happens or it does not. A secret is a number, new each time.      *)
(***************************************************************************)
EXTENDS Naturals, Sequences, FiniteSets, FiniteSetsExt, Functions, SequencesExt

CONSTANTS
  Missing,
  Settings,         \* what the operator may write beside the credentials
  CommandLines,     \* [command, arguments]: what the operator may type
  Slug,             \* [client names -> the name of their secret file]
  MaxPrincipal,     \* u64::MAX in the code
  MaxSecret         \* bound: secrets generated

Credential == [id : Nat, name : DOMAIN Slug \cup {"initial-client"},
               file : (Range(Slug) \cup {"credential"}) \X Nat]
ConfigFile == [settings : Settings, credentials : Seq(Credential)]

ASSUME NodeConfigAssumption == Missing \notin Nat \cup ConfigFile

VARIABLES
  config,           \* the configuration file, or Missing
  secrets,          \* [secret files on disk -> [secret, private]]
  running,          \* the running command and its locals
  fresh,            \* the next random secret
  delivered,        \* enrollments in the hands of their clients
  withdrawn,        \* secrets of those that were revoked, or purged
  rollbackFailed,   \* a configuration could not be written back
  service           \* what a running relay was started with, or Missing

nodeConfigVars == <<config, secrets, running, fresh, delivered, withdrawn, rollbackFailed, service>>

NoCommand == [at |-> "idle"]

NodeConfigInit ==
  /\ config = Missing /\ secrets = << >> /\ running = NoCommand /\ fresh = 1
  /\ delivered = {} /\ withdrawn = {} /\ rollbackFailed = FALSE /\ service = Missing

----------------------------------------------------------------------------
(* The command line. An argument is a flag and its value, Missing if there *)
(* is none; a flag given again overrides, except for an exclusive one.     *)
Switches == {"--qr", "--purge", "--yes", "--dry-run", "--staging"}
Given(arguments, flag) ==
  LET at == SelectLastInSeq(arguments, LAMBDA a : a.flag = flag)
  IN IF at = 0 THEN Missing ELSE arguments[at].value
OptionsAccepted(arguments, known, required) ==
  /\ \A i \in DOMAIN arguments :
       /\ arguments[i].flag \in known
       /\ arguments[i].flag \in Switches \/ arguments[i].value # Missing
  /\ \A flag \in required : \E i \in DOMAIN arguments : arguments[i].flag = flag
ExactlyOne(arguments, flags) ==
  Cardinality({i \in DOMAIN arguments : arguments[i].flag \in flags}) = 1

ParseRelay(relay) == relay \notin {"malformed", "unspecified"}
ParseIssue(arguments) ==
  /\ OptionsAccepted(arguments,
       {"--config", "--name", "--relay", "--server-name", "--trust", "--qr", "--output"},
       {"--name", "--relay", "--server-name"})
  /\ ExactlyOne(arguments, {"--qr", "--output"})
  /\ \A i \in DOMAIN arguments :
       /\ arguments[i].flag = "--relay" => ParseRelay(arguments[i].value)
       /\ arguments[i].flag = "--trust" => arguments[i].value \in {"system", "custom-ca"}
ParseRevoke(arguments) ==
  /\ OptionsAccepted(arguments, {"--config", "--id", "--name"}, {})
  /\ ExactlyOne(arguments, {"--id", "--name"})
ParseUninstall(arguments) ==
  /\ OptionsAccepted(arguments, {"--config", "--purge", "--yes"}, {})
  /\ \E i \in DOMAIN arguments : arguments[i].flag = "--yes"

----------------------------------------------------------------------------
(* config::load: what a relay needs to start, and what reload and deploy   *)
(* look at first. The certificate pair is module CertificateFiles.         *)
ParseSocket(address) == address # "malformed"
LoadCoverService(cover) ==
  /\ ParseSocket(cover.bind) /\ cover.upstream # "unresolved"
  /\ \A limit \in Range(cover.limits) : limit > 0
ValidSettings(s) ==
  /\ s.version = 1 /\ ParseSocket(s.bind)
  /\ s.targets # << >> /\ \A i \in DOMAIN s.targets : ParseSocket(s.targets[i])
  /\ \A limit \in Range(s.limits) : limit > 0
  /\ s.cover # Missing => LoadCoverService(s.cover)

(* read_secret: only a file nobody else may read.                          *)
ReadSecret(file) ==
  IF file \in DOMAIN secrets /\ secrets[file].private THEN secrets[file].secret ELSE Missing

LoadedSecrets(c) == [i \in DOMAIN c.credentials |-> ReadSecret(c.credentials[i].file)]
CredentialsLoad(c) ==
  /\ c.credentials # << >>
  /\ Missing \notin Range(LoadedSecrets(c))
  /\ IsInjective(LoadedSecrets(c))
  /\ IsInjective([i \in DOMAIN c.credentials |-> c.credentials[i].id])

Load(c) == c # Missing /\ ValidSettings(c.settings) /\ CredentialsLoad(c)

(* Config::example, the template of init and setup.                        *)
Template == [id |-> 1, name |-> "initial-client", file |-> <<"credential", 1>>]
Example(settings) == [settings |-> settings, credentials |-> <<Template>>]

----------------------------------------------------------------------------
Runs(name, arguments) ==
  /\ running = NoCommand
  /\ \E line \in CommandLines : line = [command |-> name, arguments |-> arguments]

(* A command that goes on, or ends with or without an error.               *)
Proceed(at) == running' = [running EXCEPT !.at = at]
Ends == running' = NoCommand

Initialize(settings) ==
  /\ Runs("init", << >>) /\ config = Missing
  /\ config' = Example(settings)
  /\ UNCHANGED <<secrets, running, fresh, delivered, withdrawn, rollbackFailed, service>>

(* The operator changes the file by hand, credentials aside.               *)
EditSettings(settings) ==
  /\ running = NoCommand /\ config # Missing
  /\ config' = [config EXCEPT !.settings = settings]
  /\ UNCHANGED <<secrets, running, fresh, delivered, withdrawn, rollbackFailed, service>>

(* Mutant: ids are counted, not taken past the largest.                    *)
PrincipalCounted(credentials) == Len(credentials) + 1

(* Ids of revoked clients come back once they are the largest.             *)
PrincipalId(credentials) == Max({0} \cup {credentials[i].id : i \in DOMAIN credentials}) + 1

(* The first half of issue reads and checks everything, and changes none   *)
(* of it.                                                                  *)
IssueBegins(arguments) ==
  LET name == Given(arguments, "--name")
      id   == PrincipalId(config.credentials)
  IN /\ Runs("client issue", arguments) /\ ParseIssue(arguments) /\ name \in DOMAIN Slug
     /\ config # Missing /\ fresh <= MaxSecret
     /\ Missing \notin Range(LoadedSecrets(config))
     /\ \A i \in DOMAIN config.credentials : config.credentials[i].name # name
     /\ id <= MaxPrincipal
     /\ fresh' = fresh + 1
     /\ running' = [at |-> "secret", next |-> "issue", name |-> name, id |-> id,
                    file |-> <<Slug[name], id>>, secret |-> fresh, original |-> config,
                    qr |-> Given(arguments, "--output") = Missing]
     /\ UNCHANGED <<config, secrets, delivered, withdrawn, rollbackFailed, service>>

(* setup keeps a credential that is there, and generates one that is not.  *)
SetupBegins(settings) ==
  LET c    == IF config = Missing THEN Example(settings) ELSE [config EXCEPT !.settings = settings]
      file == c.credentials[1].file
  IN /\ Runs("setup", << >>) /\ c.credentials # << >> /\ fresh <= MaxSecret
     /\ fresh' = fresh + 1
     /\ running' = [at |-> IF file \in DOMAIN secrets THEN "setup" ELSE "secret",
                    next |-> "setup", file |-> file, secret |-> fresh, original |-> c]
     /\ UNCHANGED <<config, secrets, delivered, withdrawn, rollbackFailed, service>>

WithFile(file, content) ==
  [f \in DOMAIN secrets \cup {file} |-> IF f \in DOMAIN secrets THEN secrets[f] ELSE content]
WithoutFile(file) == Restrict(secrets, DOMAIN secrets \ {file})

(* Mutant: a secret file that is there already is taken for the new one.   *)
WriteSecretKeeps ==
  /\ running.at = "secret"
  /\ secrets' = WithFile(running.file, [secret |-> running.secret, private |-> FALSE])
  /\ Proceed("restrict")
  /\ UNCHANGED <<config, fresh, delivered, withdrawn, rollbackFailed, service>>

(* write_secret, of issue and of setup. A file that is there is an error;  *)
(* the new one is readable by others until its permissions are set.        *)
WriteSecret ==
  /\ running.at = "secret" /\ running.file \notin DOMAIN secrets
  /\ secrets' = WithFile(running.file, [secret |-> running.secret, private |-> FALSE])
  /\ Proceed("restrict")
  /\ UNCHANGED <<config, fresh, delivered, withdrawn, rollbackFailed, service>>

RestrictPermissions ==
  /\ running.at = "restrict"
  /\ secrets' = [secrets EXCEPT ![running.file].private = TRUE]
  /\ Proceed(running.next)
  /\ UNCHANGED <<config, fresh, delivered, withdrawn, rollbackFailed, service>>

(* A step that fails, or the death of the process. Nothing is undone.      *)
CommandDies ==
  /\ running # NoCommand
  /\ Ends
  /\ UNCHANGED <<config, secrets, fresh, delivered, withdrawn, rollbackFailed, service>>

SetupWritesConfig ==
  /\ running.at = "setup"
  /\ config' = running.original
  /\ Ends
  /\ UNCHANGED <<secrets, fresh, delivered, withdrawn, rollbackFailed, service>>

(* The new credential goes into the file; if that fails, its secret goes.  *)
IssueWritesConfig(written) ==
  /\ running.at = "issue"
  /\ IF written
     THEN /\ config' = [config EXCEPT !.credentials =
                          Append(@, [id |-> running.id, name |-> running.name, file |-> running.file])]
          /\ Proceed("deliver") /\ UNCHANGED secrets
     ELSE /\ secrets' = WithoutFile(running.file)
          /\ Ends /\ UNCHANGED config
  /\ UNCHANGED <<fresh, delivered, withdrawn, rollbackFailed, service>>

(* A code on the terminal cannot fail; a new file can, and then issue      *)
(* takes everything back.                                                  *)
IssueDelivers ==
  /\ running.at = "deliver"
  /\ delivered' = delivered \cup {[id |-> running.id, name |-> running.name,
                                   file |-> running.file, secret |-> running.secret]}
  /\ Ends
  /\ UNCHANGED <<config, secrets, fresh, withdrawn, rollbackFailed, service>>
DeliveryFails ==
  /\ running.at = "deliver" /\ ~running.qr
  /\ Proceed("rollback")
  /\ UNCHANGED <<config, secrets, fresh, delivered, withdrawn, rollbackFailed, service>>

(* The secret is removed whether or not the configuration was restored.    *)
RollbackConfig(written) ==
  /\ running.at = "rollback"
  /\ config' = IF written THEN running.original ELSE config
  /\ rollbackFailed' = (rollbackFailed \/ ~written)
  /\ Proceed("remove")
  /\ UNCHANGED <<secrets, fresh, delivered, withdrawn, service>>

(* revoke: the principal leaves the file first, then its secret the disk.  *)
Position(arguments) ==
  SelectInSeq(config.credentials,
              LAMBDA c : \/ c.id = Given(arguments, "--id")
                         \/ c.name = Given(arguments, "--name"))

RevokePrincipal(arguments) ==
  LET at == Position(arguments)
  IN /\ Runs("client revoke", arguments) /\ ParseRevoke(arguments)
     /\ config # Missing /\ Len(config.credentials) # 1 /\ at # 0
     /\ config' = [config EXCEPT !.credentials = RemoveAt(@, at)]
     /\ running' = [at |-> "remove", file |-> config.credentials[at].file]
     /\ LET gone == {d \in delivered : d.id = config.credentials[at].id}
        IN delivered' = delivered \ gone
           /\ withdrawn' = withdrawn \cup {d.secret : d \in gone}
     /\ UNCHANGED <<secrets, fresh, rollbackFailed, service>>

RemoveSecret ==
  /\ running.at = "remove"
  /\ secrets' = WithoutFile(running.file)
  /\ Ends
  /\ UNCHANGED <<config, fresh, delivered, withdrawn, rollbackFailed, service>>

(* uninstall: the service stops; --purge removes the file and no secret.   *)
Uninstall(arguments) ==
  /\ Runs("uninstall", arguments) /\ ParseUninstall(arguments) /\ config # Missing
  /\ service' = Missing
  /\ IF \E i \in DOMAIN arguments : arguments[i].flag = "--purge"
     THEN /\ config' = Missing /\ delivered' = {}
          /\ withdrawn' = withdrawn \cup {d.secret : d \in delivered}
     ELSE UNCHANGED <<config, delivered, withdrawn>>
  /\ UNCHANGED <<secrets, running, fresh, rollbackFailed>>

(* A relay reads its credentials once, when it starts.                     *)
ServiceStarts ==
  /\ Load(config)
  /\ service' = [secrets |-> Range(LoadedSecrets(config)), revoked |-> withdrawn]
  /\ UNCHANGED <<config, secrets, running, fresh, delivered, withdrawn, rollbackFailed>>

NodeConfigNext ==
  \/ \E settings \in Settings :
       Initialize(settings) \/ EditSettings(settings) \/ SetupBegins(settings)
  \/ \E line \in CommandLines :
       \/ IssueBegins(line.arguments) \/ RevokePrincipal(line.arguments)
       \/ Uninstall(line.arguments)
  \/ WriteSecret \/ RestrictPermissions \/ SetupWritesConfig
  \/ \E written \in BOOLEAN : IssueWritesConfig(written) \/ RollbackConfig(written)
  \/ IssueDelivers \/ DeliveryFails \/ RemoveSecret \/ CommandDies \/ ServiceStarts

NodeConfigSpec == NodeConfigInit /\ [][NodeConfigNext]_nodeConfigVars

----------------------------------------------------------------------------
(* Whatever fails and wherever a command dies, a client whose enrollment   *)
(* was delivered and not revoked is in the file with its secret; and no    *)
(* command leaves a principal without a readable secret, which would keep  *)
(* the relay from starting, except for the template before setup and after *)
(* a rollback that failed itself.                                          *)
IssuedCredentialsWork ==
  /\ \A d \in delivered :
       /\ [id |-> d.id, name |-> d.name, file |-> d.file] \in Range(config.credentials)
       /\ ReadSecret(d.file) = d.secret
  /\ config # Missing /\ ~rollbackFailed =>
       LET issued == {i \in DOMAIN config.credentials : config.credentials[i] # Template}
           loaded == LoadedSecrets(config)
       IN \A i, j \in issued :
            /\ loaded[i] # Missing
            /\ i # j => /\ loaded[i] # loaded[j]
                       /\ config.credentials[i].id # config.credentials[j].id

(* A client that was enrolled by issue and revoked stays out: no           *)
(* configuration the relay could be started with holds its secret again,   *)
(* though its id, its name and the name of its secret file are free for    *)
(* another one, and no relay started since knows it. The credential that   *)
(* setup makes is delivered to nobody and is not meant: its file may       *)
(* outlive a revocation that died, and a later setup takes it up again.    *)
RevokedStayOut ==
  /\ config # Missing => Range(LoadedSecrets(config)) \cap withdrawn = {}
  /\ service # Missing => service.secrets \cap service.revoked = {}

(* Delivered credentials work until they are revoked, and never again.     *)
CredentialsSound == IssuedCredentialsWork /\ RevokedStayOut
=============================================================================
