----------------------------- MODULE UsbCollector -----------------------------
(***************************************************************************)
(* The USB collector of the agent (class externalstorage): the devices it  *)
(* finds in setupapi.dev.log, line by line, and the events of Windows that *)
(* it attributes to them.  The registry adds details to a device and no    *)
(* device, and is left out.                                                *)
(*                                                                         *)
(* Windows writes the log: a section has a header ">>>  [...]", a line     *)
(* ">>>  Section start" and a body; a crash may cut it short anywhere, a   *)
(* boot line may fall anywhere, and the agent may read a log whose last    *)
(* section is still being written.                                         *)
(* Of a line only the device it names, and in which form, and a word that  *)
(* counts for or against storage matter.                                   *)
(***************************************************************************)
EXTENDS Integers, SequencesExt

CONSTANTS
    Device,
    Serial,         \* a device's serial number, NoSerial if it is too short to count
    NoSerial,
    Pid,
    NoPid,
    SiliconMotion,  \* devices of VID_090C, the vendor the collector assumes
    StorageVid,     \* devices of a vendor on the list
    MaxLines,       \* bound on the log
    MaxEvents       \* bound on the events

\* What a line calls a device: USB\VID_x&PID_y\serial, the same in a "Device
\* Install", "Starting device" or "Configure Device" line, USBSTOR\ or WPDBUSENUM.
Form == {"usb", "configured", "usbstor", "wpd"}
Name == [dev : Device, form : Form]

\* A line names a device or holds a word; in the name of a header there may be an
\* excluded one.  What a body line says of both is said by two lines.
Line == [kind : {"header", "body"}, names : {<<>>}, word : {"none", "storage", "excluded"}]
            \cup [kind : {"header", "body"}, names : {<<n>> : n \in Name}, word : {"none"}]
            \cup [kind : {"header"}, names : {<<n>> : n \in Name}, word : {"excluded"}]
            \cup [kind : {"start", "boot"}, names : {<<>>}, word : {"none"}]

ASSUME UsbAssumption ==
    /\ IsFiniteSet(Device)
    /\ SiliconMotion \cup StorageVid \subseteq Device
    /\ DOMAIN Serial = Device /\ DOMAIN Pid = Device
    /\ \A d \in Device : Pid[d] # NoPid
    /\ MaxLines \in Nat /\ MaxEvents \in Nat

VARIABLES
    stage,              \* "parse", "match" or "done"
    lines,              \* read
    currentSection,
    inUSBSection,
    globalBootInfo,     \* the last boot line, 0 if there was none
    setupAPIInfoList,
    usbForensicsDevices,
    orphanGroups,       \* of a key, the events that fit no device
    eventViewerInfoList,\* the events so far: the name each gives
    log,                \* of a section, the serials that its header and its lines name, the
                        \* boot it began in, and whether its header names a storage device
    afterHeader         \* the last header has no start line yet

parseVars == <<lines, currentSection, inUSBSection, globalBootInfo, setupAPIInfoList, log,
               afterHeader>>
matchVars == <<usbForensicsDevices, orphanGroups, eventViewerInfoList>>
vars == <<stage, parseVars, matchVars>>

\* The text of a section.
NoText == [names |-> <<>>, storage |-> FALSE, excluded |-> FALSE, start |-> 0]

Keys == {Serial[d] : d \in Device} \cup {NoSerial}
Pids == {Pid[d] : d \in Device} \cup {NoPid}
Text == [names : Seq(Name), storage : BOOLEAN, excluded : BOOLEAN, start : Nat]
Time == [of : {"section", "boot"}, n : Nat]
Info == [serial : Keys, pid : Pids, time : Time, section : Nat]
Section == [header : SUBSET Keys, serials : SUBSET Keys, boot : Nat, owed : BOOLEAN]
UsbDevice == [key : Keys, pid : Pids, source : {"SetupAPI", "EventViewer"}, events : Seq(Nat)]

\* What an event names: it comes from the system, not from a configure line.
EventNames == {<<>>} \cup {<<n>> : n \in [dev : Device, form : Form \ {"configured"}]}

ParseTypeOK ==
    /\ lines \in Nat
    /\ currentSection \in Text
    /\ inUSBSection \in BOOLEAN
    /\ globalBootInfo \in Nat
    /\ setupAPIInfoList \in Seq(Info)
    /\ log \in Seq(Section)
    /\ afterHeader \in BOOLEAN

MatchTypeOK ==
    /\ usbForensicsDevices \in Seq(UsbDevice)
    /\ orphanGroups \in [Keys -> Seq(Nat)]
    /\ eventViewerInfoList \in Seq(EventNames)

TypeOK ==
    /\ stage \in {"parse", "match", "done"}
    /\ ParseTypeOK
    /\ MatchTypeOK

Init ==
    /\ stage = "parse"
    /\ lines = 0
    /\ currentSection = NoText
    /\ inUSBSection = FALSE
    /\ globalBootInfo = 0
    /\ setupAPIInfoList = <<>>
    /\ usbForensicsDevices = <<>>
    /\ orphanGroups = [k \in Keys |-> <<>>]
    /\ eventViewerInfoList = <<>>
    /\ log = <<>>
    /\ afterHeader = FALSE

-----------------------------------------------------------------------------
(***************************************************************************)
(* What is extracted from a section                                        *)
(***************************************************************************)

isStorageDeviceFromSetupAPI(text) ==
    /\ ~text.excluded
    /\ \/ text.storage
       \/ \E i \in DOMAIN text.names :
             text.names[i].form \in {"usbstor", "wpd"} \/ text.names[i].dev \in StorageVid

Matches(names, forms) == {i \in DOMAIN names : names[i].form \in forms}

First(names, forms) == names[Min(Matches(names, forms))].dev

\* A pattern looks at its first match only; the next one is tried if that is
\* no valid serial.
SerialPatterns == <<{"usb", "configured"}, {"usbstor"}, {"wpd"}, {"configured"}>>

extractSerialNumber(text) ==
    LET matched == {i \in DOMAIN SerialPatterns :
                       /\ Matches(text.names, SerialPatterns[i]) # {}
                       /\ Serial[First(text.names, SerialPatterns[i])] # NoSerial}
    IN  IF matched = {} THEN NoSerial
        ELSE Serial[First(text.names, SerialPatterns[Min(matched)])]

extractProductID(text) ==
    IF Matches(text.names, {"usb", "configured"}) = {} THEN NoPid
    ELSE Pid[First(text.names, {"usb", "configured"})]

\* The start of a section, or else the time of the boot.
extractFirstConnectionTime(text) ==
    IF text.start # 0 THEN [of |-> "section", n |-> text.start]
    ELSE [of |-> "boot", n |-> globalBootInfo]

\* The list when a section is closed.
Recorded ==
    LET info == [serial |-> extractSerialNumber(currentSection),
                 pid |-> extractProductID(currentSection),
                 time |-> extractFirstConnectionTime(currentSection),
                 section |-> Len(log)]
        empty == info.serial = NoSerial /\ info.time = [of |-> "boot", n |-> 0]
    IN  IF inUSBSection /\ isStorageDeviceFromSetupAPI(currentSection) /\ ~empty
        THEN Append(setupAPIInfoList, info)
        ELSE setupAPIInfoList

-----------------------------------------------------------------------------
(***************************************************************************)
(* parseSetupAPILogFile                                                    *)
(***************************************************************************)

SerialsOf(line) == {Serial[line.names[i].dev] : i \in DOMAIN line.names}

Extended(text, line) ==
    [names |-> text.names \o line.names,
     storage |-> text.storage \/ line.word = "storage",
     excluded |-> text.excluded \/ line.word = "excluded",
     start |-> IF line.kind = "start" /\ text.start = 0 THEN Len(log) ELSE text.start]

\* Mutant: a section's text is not emptied when the next one begins.
SectionBegunByKept(line) == Extended(currentSection, line)

SectionBegunBy(line) == Extended(NoText, line)

\* Mutant: only a header that names a stick by USBSTOR opens a section.
OpensUSBSectionStor(line) == \E i \in DOMAIN line.names : line.names[i].form = "usbstor"

\* Of the words, "Mass Storage" and "Disk&Ven_" open one, also without USB.
OpensUSBSection(line) == line.names # <<>> \/ line.word = "storage"

\* The header and the "Section start" line both begin with ">>>": each closes
\* what was before it, the second one the header.
readSectionLine(line) ==
    /\ stage = "parse" /\ lines < MaxLines
    /\ line.kind = "header" \/ (line.kind = "start" /\ afterHeader)
    /\ setupAPIInfoList' = Recorded
    /\ currentSection' = SectionBegunBy(line)
    /\ inUSBSection' = OpensUSBSection(line)
    /\ afterHeader' = (line.kind = "header")
    /\ log' = IF line.kind = "header"
              THEN Append(log, [header |-> SerialsOf(line), serials |-> SerialsOf(line),
                                boot |-> globalBootInfo,
                                owed |-> /\ line.names # <<>>
                                         /\ isStorageDeviceFromSetupAPI(Extended(NoText, line))])
              ELSE log
    /\ lines' = lines + 1
    /\ UNCHANGED <<stage, globalBootInfo, matchVars>>

\* A line that names a USB device is kept, in a USB section any line.
readLine(line) ==
    /\ stage = "parse" /\ lines < MaxLines
    /\ \/ line.kind = "boot"
       \/ line.kind = "body" /\ log # <<>> /\ ~afterHeader
    /\ globalBootInfo' = IF line.kind = "boot" THEN globalBootInfo + 1 ELSE globalBootInfo
    /\ IF inUSBSection \/ line.names # <<>>
       THEN /\ currentSection' = Extended(currentSection, line)
            /\ inUSBSection' = TRUE
       ELSE UNCHANGED <<currentSection, inUSBSection>>
    /\ log' = IF log = <<>> THEN log
              ELSE LET last == log[Len(log)]
                   IN  [log EXCEPT ![Len(log)] =
                           [last EXCEPT !.serials = @ \cup SerialsOf(line),
                                        !.boot = IF afterHeader THEN globalBootInfo' ELSE @]]
    /\ lines' = lines + 1
    /\ UNCHANGED <<stage, setupAPIInfoList, afterHeader, matchVars>>

\* The file ends, perhaps in a section; combineAndMatchData makes a device of
\* every record, whose key is the serial.
endOfFile ==
    /\ stage = "parse"
    /\ setupAPIInfoList' = Recorded
    /\ usbForensicsDevices' =
           [i \in DOMAIN setupAPIInfoList' |->
               [key |-> setupAPIInfoList'[i].serial, pid |-> setupAPIInfoList'[i].pid,
                source |-> "SetupAPI", events |-> <<>>]]
    /\ stage' = "match"
    /\ lines' = 0
    /\ currentSection' = NoText
    /\ inUSBSection' = FALSE
    /\ globalBootInfo' = 0
    /\ afterHeader' = FALSE
    /\ UNCHANGED <<log, orphanGroups, eventViewerInfoList>>

-----------------------------------------------------------------------------
(***************************************************************************)
(* handleOrphanEvents.  The events come in the order of their times; one   *)
(* may name no device.                                                     *)
(***************************************************************************)

\* By serial, or by VID and PID: a device's VID is taken to be 090C.
matchEventWithDevice(n, device) ==
    \/ device.key # NoSerial /\ Serial[n.dev] = device.key
    \/ n.form = "usb" /\ n.dev \in SiliconMotion /\ Pid[n.dev] = device.pid

\* extractSerialFromInstanceId finds none in a WPDBUSENUM name.
KeyOf(n) == IF n.form = "wpd" THEN NoSerial ELSE Serial[n.dev]

existingDeviceIds == {usbForensicsDevices[i].key : i \in DOMAIN usbForensicsDevices}

\* Mutant: the search goes on after the first device that matches.
ReceiverAll(matches) == matches

Receiver(matches) == {Min(matches)}

matchEvent(names) ==
    LET event == Len(eventViewerInfoList) + 1
        matches == {i \in DOMAIN usbForensicsDevices :
                       names # <<>> /\ matchEventWithDevice(names[1], usbForensicsDevices[i])}
    IN  /\ stage = "match"
        /\ event <= MaxEvents
        /\ eventViewerInfoList' = Append(eventViewerInfoList, names)
        /\ \/ /\ matches # {}
              /\ usbForensicsDevices' =
                     [i \in DOMAIN usbForensicsDevices |->
                         IF i \in Receiver(matches)
                         THEN [usbForensicsDevices[i] EXCEPT !.events = Append(@, event)]
                         ELSE usbForensicsDevices[i]]
              /\ UNCHANGED orphanGroups
           \/ /\ matches = {}
              /\ orphanGroups' =
                     IF names # <<>> /\ KeyOf(names[1]) \notin existingDeviceIds
                     THEN [orphanGroups EXCEPT ![KeyOf(names[1])] = Append(@, event)]
                     ELSE orphanGroups
              /\ UNCHANGED usbForensicsDevices
        /\ UNCHANGED <<stage, parseVars>>

\* Each group becomes a device.
createOrphanDevices ==
    /\ stage = "match"
    /\ LET groups == SetToSeq({k \in Keys : orphanGroups[k] # <<>>})
       IN  usbForensicsDevices' =
               usbForensicsDevices \o
                   [i \in DOMAIN groups |->
                       [key |-> groups[i], pid |-> NoPid, source |-> "EventViewer",
                        events |-> orphanGroups[groups[i]]]]
    /\ stage' = "done"
    /\ UNCHANGED <<parseVars, orphanGroups, eventViewerInfoList>>

-----------------------------------------------------------------------------
Next ==
    \/ \E line \in Line : readSectionLine(line) \/ readLine(line)
    \/ endOfFile
    \/ \E names \in EventNames : matchEvent(names)
    \/ createOrphanDevices

Spec == Init /\ [][Next]_vars

-----------------------------------------------------------------------------
(***************************************************************************)
(* Properties                                                              *)
(***************************************************************************)

\* A record tells of one section of the log: its serial is one that a line of
\* the section names, and its time is the section's start or that of the boot
\* the section began in, never those of a section or a boot before or after it.
\* (A section begins with its start line; a boot line may part it from its
\* header.)
RecordsFitLog ==
    \A i \in DOMAIN setupAPIInfoList :
        LET info == setupAPIInfoList[i]
        IN  /\ info.serial \in log[info.section].serials \cup {NoSerial}
            /\ info.time \in {[of |-> "section", n |-> info.section],
                              [of |-> "boot", n |-> log[info.section].boot]}

\* A storage device that a header names, unless that has an excluded word too,
\* gets a device with its serial, whatever the body of the section says and
\* wherever the file ends, if it has a serial or there is a boot line before the
\* section.
NoStorageLost ==
    stage # "parse" =>
        \A s \in DOMAIN log :
            log[s].owed /\ (log[s].boot # 0 \/ log[s].header # {NoSerial})
                => \E i \in DOMAIN setupAPIInfoList :
                       /\ setupAPIInfoList[i].section = s
                       /\ setupAPIInfoList[i].serial \in log[s].header

\* An event that names a device is in the list of one device, once and in the
\* order of time.  None is dropped, except where its name gives no serial and
\* the log has a device without one.
EventsPlaced ==
    stage = "done" =>
        /\ \A i \in DOMAIN usbForensicsDevices :
              LET e == usbForensicsDevices[i].events
              IN  \A j, k \in DOMAIN e : j < k => e[j] < e[k]
        /\ \A e \in DOMAIN eventViewerInfoList :
              LET owners == {i \in DOMAIN usbForensicsDevices :
                                Contains(usbForensicsDevices[i].events, e)}
                  names == eventViewerInfoList[e]
              IN  /\ Cardinality(owners) <= 1
                  /\ names = <<>> => owners = {}
                  /\ names # <<>> /\ owners = {} =>
                        /\ KeyOf(names[1]) = NoSerial
                        /\ \E i \in DOMAIN setupAPIInfoList : setupAPIInfoList[i].serial = NoSerial

=============================================================================
