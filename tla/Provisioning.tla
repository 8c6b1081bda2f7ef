---------------------------- MODULE Provisioning ----------------------------
(***************************************************************************)
(* How a box obtains its configuration (provisioning.cpp, box_config.cpp,  *)
(* box_config_store.cpp and the first part of setup() in main.cpp).        *)
(*                                                                         *)
(* A configuration is kept in the file Path of a LittleFS partition.  A    *)
(* box that is not provisioned asks for the installer's password, scans a  *)
(* code, downloads a document into the file PendingPath and renames it to  *)
(* Path if the whole document is acceptable.  Power may fail at any step.  *)
(*                                                                         *)
(* A document is what decode() tells apart: for each of four fields,       *)
(* whether it is given, and a value or that it is not acceptable.  `host'  *)
(* stands for all the fields that are checked one by one, `count' and      *)
(* `rows' for the number of doors and the rows of the door mapping, which  *)
(* must agree.  "junk" is a file that is no document, such as the first    *)
(* part of one.                                                            *)
(***************************************************************************)
EXTENDS Naturals

CONSTANT DOOR_COUNT     \* the most doors a box can have

Fields == {"provisioned", "host", "count", "rows"}

Full == [provisioned : BOOLEAN, host : {"bad", "given"},
         count : 1 .. DOOR_COUNT, rows : 1 .. DOOR_COUNT]

Documents == UNION {{[f \in S |-> r[f]] : r \in Full} : S \in SUBSET Fields}

NoDocument == [f \in {} |-> 0]

None == [kind |-> "none", doc |-> NoDocument]
Junk == [kind |-> "junk", doc |-> NoDocument]
Files == {None, Junk} \cup [kind : {"json"}, doc : Documents]

(***************************************************************************)
(* The fields of BoxConfig: the ones a box runs with.                      *)
(***************************************************************************)
Configs == [provisioned : BOOLEAN, host : {"default", "given"},
            count : 1 .. DOOR_COUNT, rows : 1 .. DOOR_COUNT]

VARIABLES
  partition,    \* what the flash holds: "blank", "littlefs" or "foreign"
  Path,         \* the file of the configuration
  PendingPath,  \* the file of a download
  defaults,     \* the configuration compiled into the firmware
  config,       \* boxConfig
  mounted,      \* BoxConfigStore::mounted
  pc,           \* where setup() and runProvisioning() are
  installed     \* a download was committed, since the first start

vars == <<partition, Path, PendingPath, defaults, config, mounted, pc,
          installed>>

files == <<partition, Path, PendingPath, defaults, installed>>

(***************************************************************************)
(* A new box, one that has a configuration, or one whose flash holds       *)
(* something else.  Path may have been written with a file system image    *)
(* and hold any document.                                                  *)
(***************************************************************************)
Init ==
  /\ partition \in {"blank", "littlefs", "foreign"}
  /\ Path \in IF partition = "littlefs" THEN Files ELSE {None}
  /\ PendingPath = None
  /\ defaults \in {[provisioned |-> p, host |-> "default",
                    count |-> 1, rows |-> 1] : p \in BOOLEAN}
  /\ config = defaults
  /\ mounted = FALSE
  /\ pc = "setup"
  /\ installed = FALSE

-----------------------------------------------------------------------------
(***************************************************************************)
(* decode() fills a copy and assigns it when all the checks have passed: a *)
(* field that the document does not give is left alone, unless the         *)
(* document has to be complete.                                            *)
(***************************************************************************)
Decoded(doc, old) ==
  [f \in Fields |-> IF f \in DOMAIN doc THEN doc[f] ELSE old[f]]

rowsFit(doc, old) ==
  IF "rows" \in DOMAIN doc THEN doc.rows = Decoded(doc, old).count
                           ELSE old.count = Decoded(doc, old).count

decodes(file, old, complete) ==
  /\ file.kind = "json"
  /\ Decoded(file.doc, old).host # "bad"
  /\ rowsFit(file.doc, old)
  /\ complete => DOMAIN file.doc = Fields /\ file.doc.provisioned

decode(file, old) ==
  IF decodes(file, old, FALSE) THEN Decoded(file.doc, old) ELSE old

(***************************************************************************)
(* BoxConfigStore::begin(): only a partition that is erased throughout is  *)
(* formatted.                                                              *)
(***************************************************************************)
partitionIsBlank == partition = "blank"

begin ==
  /\ pc = "setup"
  /\ partition' = IF partition # "littlefs" /\ partitionIsBlank
                  THEN "littlefs" ELSE partition
  /\ mounted' = (partition' = "littlefs")
  /\ pc' = "load"
  /\ UNCHANGED <<Path, PendingPath, defaults, config, installed>>

(***************************************************************************)
(* BoxConfigStore::load() and the gate of setup(): a configuration that is *)
(* rejected leaves the one of the firmware, and a box that is not          *)
(* provisioned goes no further.                                            *)
(***************************************************************************)
load ==
  /\ pc = "load"
  /\ config' = IF mounted /\ Path # None THEN decode(Path, config) ELSE config
  /\ pc' = IF config'.provisioned THEN "running" ELSE "password"
  /\ UNCHANGED <<files, mounted>>

(***************************************************************************)
(* runProvisioning(): the password of the firmware is typed, and codes are *)
(* scanned until a download succeeds.                                      *)
(***************************************************************************)
password ==
  /\ pc = "password"
  /\ pc' \in {"password", "scan"}
  /\ UNCHANGED <<files, config, mounted>>

(***************************************************************************)
(* A code that ProvisioningPayload::parse() accepts starts a download; any *)
(* other ends in an error and a new scan.                                  *)
(***************************************************************************)
parse ==
  /\ pc = "scan"
  /\ pc' \in {"scan", "download"}
  /\ UNCHANGED <<files, config, mounted>>

(***************************************************************************)
(* download(): no connection, no valid time, no acceptable answer or no    *)
(* file (it cannot be opened when nothing is mounted) end the attempt      *)
(* before anything is written.                                             *)
(***************************************************************************)
downloadFails ==
  /\ pc = "download"
  /\ pc' = "scan"
  /\ UNCHANGED <<files, config, mounted>>

(***************************************************************************)
(* The file is truncated and then filled by writeToStream(): the server    *)
(* may send any document, and the connection may break.                    *)
(***************************************************************************)
openPending ==
  /\ pc = "download"
  /\ mounted
  /\ PendingPath' = Junk
  /\ pc' = "receive"
  /\ UNCHANGED <<partition, Path, defaults, installed, config, mounted>>

received(whole) == pc' = IF whole THEN "commit" ELSE "discard"

writeToStream ==
  /\ pc = "receive"
  /\ \E file \in Files \ {None}, whole \in BOOLEAN :
       /\ PendingPath' = IF whole THEN file ELSE Junk
       /\ received(whole)
  /\ UNCHANGED <<partition, Path, defaults, installed, config, mounted>>

(***************************************************************************)
(* commitDownloaded() checks a document against a configuration of its     *)
(* own and renames the file, which replaces Path in one step or fails.     *)
(***************************************************************************)
committablePartly(file) == decodes(file, defaults, FALSE)

committable(file) == decodes(file, defaults, TRUE)

commitDownloaded ==
  /\ pc = "commit"
  /\ \E renamed \in BOOLEAN :
       IF committable(PendingPath) /\ renamed
       THEN /\ Path' = PendingPath
            /\ PendingPath' = None
            /\ installed' = TRUE
            /\ pc' = "restart"
       ELSE /\ pc' = "discard"
            /\ UNCHANGED <<Path, PendingPath, installed>>
  /\ UNCHANGED <<partition, defaults, config, mounted>>

discard ==
  /\ pc = "discard"
  /\ PendingPath' = None
  /\ pc' = "scan"
  /\ UNCHANGED <<partition, Path, defaults, installed, config, mounted>>

(***************************************************************************)
(* ESP.restart(), and power that fails at any other time.                  *)
(***************************************************************************)
restart ==
  /\ pc' = "setup"
  /\ config' = defaults
  /\ mounted' = FALSE
  /\ UNCHANGED files

Step == \/ begin \/ load \/ password \/ parse \/ downloadFails \/ openPending
        \/ writeToStream \/ commitDownloaded \/ discard

Next == Step \/ restart

Spec == Init /\ [][Next]_vars

-----------------------------------------------------------------------------
TypeOK ==
  /\ partition \in {"blank", "littlefs", "foreign"}
  /\ Path \in Files
  /\ PendingPath \in Files
  /\ config \in Configs
  /\ mounted \in BOOLEAN
  /\ installed \in BOOLEAN
  /\ pc \in {"setup", "load", "password", "scan", "download", "receive",
             "commit", "discard", "restart", "running"}

(***************************************************************************)
(* The doors a box runs with are the rows of the mapping it runs with,     *)
(* whatever fields the file left to the defaults, and a rejected document  *)
(* contributes nothing: decode() assigns all of `next' or none of it.      *)
(***************************************************************************)
WholeOrNothing ==
  /\ config.count = config.rows
  /\ pc # "restart" => config \in {defaults, decode(Path, defaults)}

(***************************************************************************)
(* From the moment a download is committed, every start of the box runs    *)
(* with a provisioned configuration, wherever power fails: runProvisioning *)
(* is never needed again.                                                  *)
(***************************************************************************)
InstalledRuns ==
  installed => /\ decode(Path, defaults).provisioned
               /\ pc \in {"restart", "setup", "load", "running"}

(***************************************************************************)
(* Data that is already on the flash is never lost: a partition that is    *)
(* neither blank nor LittleFS is left alone, and a configuration is        *)
(* replaced by another one only, never by part of a download (begin() and  *)
(* commitDownloaded()).                                                    *)
(***************************************************************************)
KeepsDataStep ==
  /\ partition = "foreign" => partition' = "foreign"
  /\ Path' # Path => decodes(Path', defaults, TRUE)
KeepsData == [][KeepsDataStep]_vars

=============================================================================
