---------------------------- MODULE ExportWindow ----------------------------
(* The window of the NBD server before a session: the list of drives that  *)
(* follows what is plugged in and out, and what Start is allowed to        *)
(* export.  One module for both programs (host): on Windows the system     *)
(* sends a message per change, on Linux a watcher of /dev tells that       *)
(* something changed.  A search is one step here, since nothing else       *)
(* happens in the window while it lasts.                                   *)
EXTENDS BmcSearch, SequencesExt

CONSTANTS
    Drives,       \* numbers of drive letters, of names "sd*" in their order
    DriveKinds,   \* what GetDriveType, the bus and a first access tell
    MaxChanges    \* bound: drives that come and go, and names of a file

\* What GetDriveType says of a letter without a drive.
Absent == [type |-> "no root", bus |-> "unknown", media |-> "floppy", ready |-> "no"]

ASSUME WindowConstants ==
    /\ IsFiniteSet(Drives) /\ Drives \subseteq Nat \ {0}
    /\ DriveKinds \subseteq [type : {"removable", "fixed", "other"},
          bus : {"usb", "sd", "sata", "unknown"}, media : {"disk", "floppy"},
          ready : {"yes", "slowly", "no"}]
    /\ MaxChanges \in Nat

VARIABLES
    view,          \* "starting" until the constructor is done, then "shown"
    attached,      \* per drive its kind, or Absent
    listed,        \* cboxDevice, SDDevices
    selected,      \* its current item, 0 for none
    notices,       \* messages that wait for the event loop
    searchDone,    \* search_live_rms_done; on Linux a ghost
    imageFile,     \* leFile: no name, or whether its file can be read
    credentials,   \* both of account and password are given
    types,         \* comboBox_Export_Type; on Linux two radio buttons
    currentType,   \* the one chosen, "none" for no current item
    startEnabled,  \* bStart, StartB
    exporting,     \* what Start exports: "no", "device" or "image"
    overlooked,    \* ghost: drives of whose change the program was not told
    picked,        \* ghost: the listed drive the user chose last, or 0
    changes        \* the counter of the bound

drivesList == <<listed, selected, overlooked, picked>>
form == <<imageFile, credentials>>
controls == <<types, currentType, startEnabled, searchDone, exporting>>
exportWindow == <<host, view, attached, notices, drivesList, form, controls, changes>>
-----------------------------------------------------------------------------
(* Drives.                                                                 *)

GetMediaType(k) == k.media = "disk"

GetDisksProperty(k) == k.bus # "unknown"

(* Removable but not SATA, or fixed on the USB bus or an SD card, not a    *)
(* floppy, and accessible, at once or with the slower of two requests.     *)
checkDriveType(k) ==
    /\ k.type \in {"removable", "fixed"}
    /\ GetMediaType(k) /\ GetDisksProperty(k)
    /\ k.type = "removable" => k.bus # "sata"
    /\ k.type = "fixed" => k.bus \in {"usb", "sd"}
    /\ k.ready # "no"

(* What a list that is made anew holds, in the order of the names.         *)
Present ==
    {n \in Drives : IF host = "Windows" THEN checkDriveType(attached[n])
                                        ELSE attached[n] # Absent}

getLogicalDrives ==
    {list \in [1 .. Cardinality(Present) -> Present] :
        /\ Range(list) = Present
        /\ \A i, j \in DOMAIN list : i < j => list[i] < list[j]}

FirstOf(list) == IF list = << >> THEN 0 ELSE list[1]

(* What the event loop is told of a change.  Windows sends a message with  *)
(* a mask of drives, if there is a window; on Linux changes that the       *)
(* program has not seen yet become one.                                    *)
Tell(what, mask) ==
    IF view = "starting"
    THEN overlooked' = overlooked \cup mask /\ UNCHANGED notices
    ELSE /\ notices' = IF host = "Windows" THEN Append(notices, <<what, mask>>)
                                           ELSE <<<<"directory", { }>>>>
         /\ UNCHANGED overlooked

Change == changes < MaxChanges /\ changes' = changes + 1

(* Drives are plugged in, a stick with two volumes for example.            *)
Attach ==
    /\ Change
    /\ \E mask \in (SUBSET {n \in Drives : attached[n] = Absent}) \ {{ }}, k \in DriveKinds :
          /\ attached' = [n \in Drives |-> IF n \in mask THEN k ELSE attached[n]]
          /\ Tell("arrival", mask)
    /\ UNCHANGED <<host, view, listed, selected, picked, form, controls>>

Detach ==
    /\ Change
    /\ \E mask \in (SUBSET {n \in Drives : attached[n] # Absent}) \ {{ }} :
          /\ attached' = [n \in Drives |-> IF n \in mask THEN Absent ELSE attached[n]]
          /\ Tell("removal", mask)
    /\ UNCHANGED <<host, view, listed, selected, picked, form, controls>>

(* A drive that is there is announced once more: its card was put in, or   *)
(* its volume was mounted again.                                           *)
Announce ==
    /\ host = "Windows" /\ Change
    /\ \E n \in Drives :
          /\ attached[n] # Absent
          /\ attached' = [attached EXCEPT ![n].ready = IF @ = "no" THEN "yes" ELSE @]
          /\ Tell("arrival", {n})
    /\ UNCHANGED <<host, view, listed, selected, picked, form, controls>>

(* Windows: the messages of nativeEvent.  Only the first drive of the mask *)
(* is looked at.                                                           *)
FirstDriveFromMask(mask) == CHOOSE n \in mask : \A o \in mask : n <= o

Notice(what) ==
    /\ view = "shown" /\ notices # << >> /\ notices[1][1] = what
    /\ notices' = Tail(notices)
    /\ UNCHANGED <<host, view, attached, form, controls, changes>>

\* Mutant: whether the drive is listed already is not looked at.
AddsUnseen(n) == checkDriveType(attached[n])

(* A drive that is not listed and passes the check is added; Qt makes the  *)
(* first item of a list the current one.                                   *)
Adds(n) == n \notin Range(listed) /\ checkDriveType(attached[n])

DeviceArrival ==
    /\ Notice("arrival")
    /\ LET mask == notices[1][2]
           n == FirstDriveFromMask(mask)
       IN  /\ listed' = IF Adds(n) THEN Append(listed, n) ELSE listed
           /\ selected' = IF Adds(n) /\ listed = << >> THEN n ELSE selected
           /\ overlooked' = overlooked \cup (mask \ {n})
    /\ UNCHANGED picked

(* findText finds the first item of that name, if there is one.  Qt 5      *)
(* makes the item before a removed current one the current one, and none   *)
(* if there is none before.                                                *)
FoundAt(n) == {i \in DOMAIN listed : listed[i] = n /\ \A j \in 1 .. i - 1 : listed[j] # n}

DeviceRemoveComplete ==
    /\ Notice("removal")
    /\ LET mask == notices[1][2]
           n == FirstDriveFromMask(mask)
       IN  /\ \/ FoundAt(n) = {} /\ UNCHANGED <<listed, selected>>
              \/ \E i \in FoundAt(n) :
                    /\ listed' = RemoveAt(listed, i)
                    /\ selected' = IF selected # n THEN selected
                                   ELSE IF i = 1 THEN 0 ELSE listed[i - 1]
           /\ picked' = IF picked = n THEN 0 ELSE picked
           /\ overlooked' = overlooked \cup (mask \ {n})

(* Linux: SDDevices is filled again, and its first item is current.        *)
check_usb_device ==
    /\ Notice("directory")
    /\ listed' \in getLogicalDrives
    /\ selected' = FirstOf(listed')
    /\ overlooked' = { }
    /\ picked' = IF selected' = picked THEN picked ELSE 0
-----------------------------------------------------------------------------
(* The types of an export, and the Start button.                           *)

(* comboBox_Export_Type is filled again.  With a file alone, item 1 of a   *)
(* list of one item becomes current, which is none.                        *)
check_devie_file ==
    LET drive == IF listed # << >> THEN <<"Device">> ELSE << >>
        image == IF imageFile' # "none" THEN <<"Image">> ELSE << >>
    IN  /\ types' = drive \o image
        /\ currentType' = IF drive = << >> THEN "none" ELSE "Device"

setReadWriteButton(ipSelected) ==
    startEnabled' =
        /\ listed # << >> \/ imageFile' = "readable"
        /\ ipSelected /\ credentials' /\ searchDone'

WindowInit ==
    /\ view = "starting"
    /\ attached \in [Drives -> DriveKinds \cup {Absent}]
    /\ listed \in getLogicalDrives /\ selected = FirstOf(listed)
    /\ notices = << >>
    /\ searchDone = FALSE
    /\ imageFile \in {"none", "readable"} /\ credentials = TRUE
    /\ host = "Linux" => imageFile = "none"
    /\ types = IF host = "Linux" THEN <<"Device", "Image">>
               ELSE (IF listed # << >> THEN <<"Device">> ELSE << >>)
                    \o (IF imageFile # "none" THEN <<"Image">> ELSE << >>)
    /\ currentType = IF types # << >> /\ types[1] = "Device" THEN "Device" ELSE "none"
    /\ startEnabled = FALSE /\ exporting = "no"
    /\ overlooked = { } /\ picked = 0 /\ changes = 0

(* The constructor is done: the window exists, /dev is watched.            *)
ShowWindow ==
    /\ view = "starting" /\ view' = "shown"
    /\ UNCHANGED <<host, attached, notices, drivesList, form, controls, changes>>

Clickable == view = "shown" /\ UNCHANGED <<host, attached, notices>>

(* The user picks a drive, or what to export.                              *)
PickDrive ==
    /\ Clickable
    /\ \E n \in Range(listed) : selected' = n /\ picked' = n
    /\ UNCHANGED <<view, listed, overlooked, form, controls, changes>>

PickType ==
    /\ Clickable
    /\ host = "Windows" => searchDone /\ exporting = "no"
    /\ \E t \in Range(types) : currentType' = t
    /\ UNCHANGED <<view, drivesList, form, types, startEnabled, searchDone,
                   exporting, changes>>

(* A file is chosen in a dialog.                                           *)
Browse ==
    /\ Clickable /\ host = "Windows" /\ Change
    /\ imageFile' \in {"readable", "unreadable"}
    /\ check_devie_file
    /\ UNCHANGED <<view, drivesList, credentials, startEnabled, searchDone, exporting>>

BrowseLinux ==
    /\ Clickable /\ host = "Linux" /\ Change
    /\ imageFile' \in {"readable", "unreadable"}
    /\ currentType' = "Image"
    /\ UNCHANGED <<view, drivesList, credentials, types, startEnabled, searchDone,
                   exporting>>

(* A file is typed, or dropped onto leFile: nothing else follows.          *)
DropFile ==
    /\ Clickable /\ Change
    /\ imageFile' \in {"none", "readable", "unreadable"}
    /\ UNCHANGED <<view, drivesList, credentials, controls>>

(* Account or password is edited.                                          *)
EditCredentials ==
    /\ Clickable /\ host = "Windows"
    /\ credentials' \in BOOLEAN
    /\ UNCHANGED <<view, drivesList, imageFile, types,
                   currentType, searchDone, exporting, changes>>
    /\ \E ipSelected \in BOOLEAN : setReadWriteButton(ipSelected)
-----------------------------------------------------------------------------
(* Search: whether it finds a BMC.  Without one the buttons stay as they   *)
(* are, although the list of BMCs is empty now.  On Windows it cannot be   *)
(* clicked during an export.                                               *)
ClickedSearch ==
    /\ Clickable
    /\ host = "Windows" => exporting = "no"
    /\ UNCHANGED <<view, drivesList, form, exporting, changes>>
    /\ searchDone' = TRUE
    /\ IF host = "Windows"
       THEN check_devie_file /\ \E ipSelected \in BOOLEAN : setReadWriteButton(ipSelected)
       ELSE startEnabled' = TRUE /\ UNCHANGED <<types, currentType>>
-----------------------------------------------------------------------------
(* Start and its end.  With no current type, data() is 0: a device.        *)

WindowStart ==
    /\ Clickable /\ startEnabled
    /\ UNCHANGED <<view, drivesList, form, types, currentType, searchDone,
                   changes>>
    /\ \/ /\ currentType = "Image"
          /\ host = "Windows" => imageFile # "none"
          /\ exporting' = "image" /\ startEnabled' = FALSE
       \/ /\ currentType # "Image"
          /\ host = "Windows" => listed # << >>
          /\ exporting' = "device" /\ startEnabled' = FALSE

(* The export ends: Cancel, Stop, or nbd_server_start gave up.             *)
WindowStop ==
    /\ Clickable /\ exporting # "no"
    /\ exporting' = "no" /\ startEnabled' = TRUE
    /\ UNCHANGED <<view, drivesList, form, types, currentType, searchDone,
                   changes>>
-----------------------------------------------------------------------------
WindowNext ==
    \/ Attach \/ Detach \/ Announce
    \/ DeviceArrival \/ DeviceRemoveComplete \/ check_usb_device
    \/ ShowWindow \/ PickDrive \/ PickType \/ Browse \/ BrowseLinux
    \/ DropFile \/ EditCredentials
    \/ ClickedSearch \/ WindowStart \/ WindowStop
=============================================================================
