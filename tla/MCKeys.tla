------------------------------- MODULE MCKeys -------------------------------
(* Instances of OrganisationKeys and KeyRewrap for TLC, with history       *)
(* variables.  A behaviour is either about whether the key may be used or  *)
(* about its replacement, inPlay: the two share the row and the requests.  *)
EXTENDS KeyRewrap, TLC

VARIABLES
  inPlay,
  mixed,      \* a replacement was committed under a request or a job that had
              \* read the row before
  word,       \* what people last said of the key: it is "off", it is "on", or
              \* it has a new address and is "untested"
  older,      \* the requests that people overtook when they last spoke
  overruled   \* since then the row said something else
standing == <<word, older, overruled>>
everything == <<vars, inPlay, mixed, standing>>

Busy == {c \in Requests : request[c].pc # "idle"}
Unfinished == {i \in RewrapIds : rewrap[i] # Absent /\ (rewrap[i].job = "queued" \/ worker[i].pc # "idle")}
Replaces == \E c \in Requests : At(c, "rotate") /\ key' # key

KeysInit ==
  /\ inPlay \in {"standing", "replacement"}
  /\ IF inPlay = "standing" THEN KeyInit /\ RewrapsInit ELSE RewrapInit
  /\ mixed = FALSE
  /\ word = "on" /\ older = {} /\ overruled = FALSE

(* An operator switches the key, an administrator submits it, a handshake  *)
(* passes or fails.                                                        *)
Switched == key # None /\ request' = request /\ key' # key
Settles(c) == (At(c, "submit") \/ At(c, "validate")) /\ request'[c] # request[c] /\ key' # key
Spoken == Switched \/ \E c \in Requests : Settles(c)
Heard(status) ==
  IF status \in Human THEN "off" ELSE IF status = "pending_validation" THEN "untested" ELSE "on"

Down == Human \cup {"pending_validation"}
Overrules == key' # key /\ key'.status \notin Down

Hears ==
  /\ word' = IF Spoken THEN Heard(key'.status) ELSE word
  /\ older' = (IF Spoken THEN Busy ELSE older) \cap Busy'
  /\ overruled' = (~Spoken /\ (overruled \/ Overrules))

Standing == inPlay = "standing" /\ StandingNext /\ Hears /\ UNCHANGED <<rewrapVars, mixed>>

Replacement ==
  /\ inPlay = "replacement"
  /\ RewrapNext /\ UNCHANGED standing
  /\ mixed' = (mixed \/ (Replaces /\ (Cardinality(Busy) > 1 \/ Unfinished # {})))

KeysNext == (Standing \/ Replacement) /\ UNCHANGED inPlay
KeysSpec == KeysInit /\ [][KeysNext]_everything

Interchangeable == Permutations(Requests) \cup Permutations(Arns)

(* Nothing is said of what follows a replacement under a request or a job  *)
(* but what type it has.                                                   *)
WithinBounds == ~mixed

(* Once people have switched the key off, or before its handshake has       *)
(* passed, nothing that begins then makes it active, no sweep, health job, *)
(* settings page or use of the key, whatever of them overlap: an operator  *)
(* does, a handshake, or a request that people overtook.  "`disabled` and  *)
(* `pending_deletion` are human states" (docs/key-lifecycle.md:33).  It    *)
(* holds only as long as the row says what people said: once somebody      *)
(* wrote "unavailable" over it the next probe restores the key, which      *)
(* HumanStatesStand shows.                                                 *)
StandsDown ==
  [][word # "on" /\ ~overruled /\ key' # key /\ key'.status = "active"
       => \/ Spoken
          \/ \E c \in older : request'[c] # request[c]]_everything

(* "`disabled` and `pending_deletion` are human states. A successful KMS    *)
(* probe does not turn them back on": when people have switched the key    *)
(* off no request that began since then restores it.                       *)
HumanStatesStand ==
  [][word = "off" => ~\E c \in Requests \ older : At(c, "restore") /\ key' # key]_everything

(* For that one: nobody was under way when they switched it off.           *)
NobodyOvertaken == word = "off" => older = {}

Runs(i) == rewrap[i] # Absent /\ rewrap[i].status = "running" /\ ~rewrap[i].done
StillOpens ==
  key # None =>
    /\ \A i \in RewrapIds : Runs(i) => key.arn = rewrap[i].to /\ key.previous = rewrap[i].from
    /\ \A v \in Values :
         \/ value[v] \in {None, key.arn, key.previous}
         \/ \E i \in RewrapIds : rewrap[i] # Absent /\ rewrap[i].from = value[v] /\ rewrap[i].done
DoneMeansNew ==
  \A i \in RewrapIds :
    rewrap[i] # Absent /\ rewrap[i].done /\ (\A j \in RewrapIds : j > i => rewrap[j] = Absent)
      => \A f \in Files : file[f].row # "disposed" => rewrap[i].from \notin {file[f].q, file[f].e}

(* If no replacement was committed under a request or a job that had read  *)
(* the row: "the previous ARN stays on the row so existing ciphertext still *)
(* opens until the job finishes" (service.ts:218), and the organisation's  *)
(* key is the one the job copies to.  A value is under the key of the row  *)
(* or the previous one, or under the key of a re-wrap that is done: the    *)
(* job copies objects only, and nothing is said of whether the columns     *)
(* still open then.  When the job is done no object that a row names is    *)
(* under the key it replaced, through workers killed at any step and files *)
(* that move while it goes over them.                                      *)
SerialRewrapHolds == RewrapTypeOK /\ (~mixed => StillOpens /\ DoneMeansNew)
=============================================================================
