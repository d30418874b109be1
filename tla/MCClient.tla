------------------------------ MODULE MCClient ------------------------------
(***************************************************************************)
(* The client's parts, one at a time: a behaviour stays in the lane it     *)
(* starts in, so the state space is the sum of those of the parts and not  *)
(* their product.  What a part chooses at the start is fixed in the lanes  *)
(* of the others; the file of the move lane starts on provider 1, since    *)
(* providers are only compared.  Of the devices that enrol one has its     *)
(* provider set up and the other asks for the configuration.               *)
(***************************************************************************)
EXTENDS BlobStream, ManifestMerge, ProviderMove, DeviceEnroll, VaultAccess, JournalCodec

VARIABLE lane

Lanes == {"blob", "manifest", "rows", "move", "enrol", "access", "journal"}

MCInit ==
    /\ lane \in Lanes
    /\ BlobInit /\ JcInit
    /\ MInit /\ (lane # "manifest" => \A d \in MDevices : offset[d] = 0)
    /\ RInit /\ (lane # "rows" => rkv = FALSE)
    /\ MoveInit /\ mvBody[1] = 1 /\ mvActive = 1 /\ (lane # "move" => mvOrder = <<1, 2>>)
    /\ EnInit /\ \A n \in Joiners : jn[n].provider = (n = "j1")
    /\ (lane # "enrol" => atomic)
    /\ AccInit /\ vaLogical         \* without it there are fewer operations and no others
    /\ (lane # "access" => vaAtomic)

\* Which provider is active is read when a copy has ended: it changes while one runs.  What a
\* session saves is read by the next unlock: after the last one nothing is saved.
ReadLater ==
    /\ mvActive' # mvActive => mvMove.step = "copy" /\ mvLeft > 0
    /\ mvSave' # mvSave \/ mvFlag' # mvFlag => mvLeft > 0

\* A device with a passkey, the only one on which unlocks throw, is in behaviours of one
\* operation and with a primary that compares as it stores.
FewThrows ==
    \A d \in VaDevices : va'[d].prf \/ va'[d].thrown > 0 =>
        vaAtomic /\ vaOps' <= 1 /\ d \in VaPasskeys

\* A behaviour of the enrolment has a second try or a save of another device, not both; with a
\* primary that compares before it stores neither a save nor a broken socket.
OneHardship == nTries' + nSaves' <= 1 /\ (~atomic => nSaves' + nFaults' = 0)

BlobLane == lane = "blob" /\ BlobNext
    /\ UNCHANGED <<maniVars, rowVars, moveVars, enrVars, accVars, jcVars>>
ManifestLane == lane = "manifest" /\ MNext
    /\ UNCHANGED <<blobVars, rowVars, moveVars, enrVars, accVars, jcVars>>
RowLane == lane = "rows" /\ RNext
    /\ UNCHANGED <<blobVars, maniVars, moveVars, enrVars, accVars, jcVars>>
MoveLane == lane = "move" /\ MoveNext /\ ReadLater
    /\ UNCHANGED <<blobVars, maniVars, rowVars, enrVars, accVars, jcVars>>
EnrolLane == lane = "enrol" /\ EnNext /\ OneHardship
    /\ UNCHANGED <<blobVars, maniVars, rowVars, moveVars, accVars, jcVars>>
AccessLane == lane = "access" /\ AccNext /\ FewThrows
    /\ UNCHANGED <<blobVars, maniVars, rowVars, moveVars, enrVars, jcVars>>
JournalLane == lane = "journal" /\ JcNext
    /\ UNCHANGED <<blobVars, maniVars, rowVars, moveVars, enrVars, accVars>>

MCNext ==
    /\ BlobLane \/ ManifestLane \/ RowLane \/ MoveLane \/ EnrolLane \/ AccessLane
         \/ JournalLane
    /\ UNCHANGED lane

MCSpec == MCInit /\ [][MCNext]_<<lane, blobVars, maniVars, rowVars, moveVars, enrVars,
                                 accVars, jcVars>>
=============================================================================
