-------------------------- MODULE UsbCollectorProofs --------------------------
(***************************************************************************)
(* Proofs about UsbCollector, for any devices, any log and any events: a   *)
(* record fits its section, no storage device with a header is lost, and   *)
(* an event goes to one device.                                            *)
(***************************************************************************)
EXTENDS UsbCollector, SequenceTheorems, FiniteSetTheorems, FunctionTheorems,
        WellFoundedInduction, TLAPS

\* What is in currentSection belongs to the last section of the log.
SectionInv ==
    /\ log = <<>> => ~inUSBSection /\ ~afterHeader /\ currentSection.names = <<>>
    /\ log # <<>> =>
          \A i \in DOMAIN currentSection.names :
              Serial[currentSection.names[i].dev] \in log[Len(log)].serials
    /\ stage = "parse" /\ log # <<>> =>
          currentSection.start = IF afterHeader THEN 0 ELSE Len(log)
    /\ afterHeader =>
          /\ stage = "parse"
          /\ globalBootInfo = log[Len(log)].boot
          /\ log[Len(log)].owed =>
                /\ inUSBSection /\ isStorageDeviceFromSetupAPI(currentSection)
                /\ \E n \in Name : /\ currentSection.names = <<n>>
                                  /\ log[Len(log)].header = {Serial[n.dev]}

\* Record r tells of a section of the log.
Fits(r) ==
    /\ r.section \in DOMAIN log
    /\ r.serial \in log[r.section].serials \cup {NoSerial}
    /\ r.time \in {[of |-> "section", n |-> r.section],
                   [of |-> "boot", n |-> log[r.section].boot]}

\* A header that is yet to be closed has no record.
FitInv ==
    \A i \in DOMAIN setupAPIInfoList :
        /\ Fits(setupAPIInfoList[i])
        /\ afterHeader => setupAPIInfoList[i].section # Len(log)

Owed(s) == log[s].owed /\ (log[s].boot # 0 \/ log[s].header # {NoSerial})

\* A record of the list is that of the device in the header of section s.
Listed(list, s, header) ==
    \E i \in DOMAIN list : list[i].section = s /\ list[i].serial \in header

\* A section that is owed a record has one, or its header is yet to be closed.
OwedInv ==
    \A s \in DOMAIN log :
        Owed(s) => \/ Listed(setupAPIInfoList, s, log[s].header)
                   \/ afterHeader /\ s = Len(log)

\* The events of a device or of a group are events that were read, in their order.
InOrder(events) ==
    /\ \A j \in DOMAIN events : events[j] \in 1 .. Len(eventViewerInfoList)
    /\ \A j, k \in DOMAIN events : j < k => events[j] < events[k]

AtDevice(i, e) == Contains(usbForensicsDevices[i].events, e)
InGroup(k, e) == Contains(orphanGroups[k], e)

\* Event e may be dropped.
MayDrop(e) ==
    /\ KeyOf(eventViewerInfoList[e][1]) = NoSerial
    /\ \E i \in DOMAIN setupAPIInfoList : setupAPIInfoList[i].serial = NoSerial

DeviceInv ==
    /\ \A i \in DOMAIN usbForensicsDevices : InOrder(usbForensicsDevices[i].events)
    /\ \A i, j \in DOMAIN usbForensicsDevices : \A e \in Nat :
          AtDevice(i, e) /\ AtDevice(j, e) => i = j
    /\ \A i \in DOMAIN usbForensicsDevices : \A e \in DOMAIN eventViewerInfoList :
          AtDevice(i, e) => eventViewerInfoList[e] # <<>>

GroupInv ==
    /\ \A k \in Keys : InOrder(orphanGroups[k])
    /\ \A k, l \in Keys : \A e \in Nat : InGroup(k, e) /\ InGroup(l, e) => k = l
    /\ \A k \in Keys : \A e \in DOMAIN eventViewerInfoList :
          InGroup(k, e) => eventViewerInfoList[e] # <<>>

PlaceInv ==
    /\ stage = "parse" => /\ usbForensicsDevices = <<>>
                          /\ eventViewerInfoList = <<>>
                          /\ orphanGroups = [k \in Keys |-> <<>>]
    /\ DeviceInv
    /\ GroupInv
    /\ stage = "match" =>
          /\ DOMAIN usbForensicsDevices = DOMAIN setupAPIInfoList
          /\ \A i \in DOMAIN usbForensicsDevices :
                usbForensicsDevices[i].key = setupAPIInfoList[i].serial
          /\ \A i \in DOMAIN usbForensicsDevices : \A k \in Keys : \A e \in Nat :
                ~(AtDevice(i, e) /\ InGroup(k, e))
    /\ \A e \in DOMAIN eventViewerInfoList :
          \/ eventViewerInfoList[e] = <<>>
          \/ \E i \in DOMAIN usbForensicsDevices : AtDevice(i, e)
          \/ stage = "match" /\ \E k \in Keys : InGroup(k, e)
          \/ MayDrop(e)

IInv == TypeOK /\ SectionInv /\ FitInv /\ OwedInv /\ PlaceInv

-----------------------------------------------------------------------------
(***************************************************************************)
(* What is found in a section                                              *)
(***************************************************************************)

\* A nonempty set of places has a first one.  (The library's induction cannot be
\* instantiated here, so the order of the subsets of an interval stands in.)
LEMMA FirstPlace ==
    ASSUME NEW n \in Nat, NEW I \in SUBSET (1 .. n), I # {}
    PROVE  Min(I) \in I /\ \A j \in I : Min(I) <= j
<1> DEFINE R == StrictSubsetOrdering(1 .. n)
           Before(i) == 1 .. (i - 1)
           T == {Before(i) : i \in I}
<1>1. IsWellFoundedOn(R, FiniteSubsetsOf(1 .. n))
  BY FS_StrictSubsetOrderingWellFounded
<1>2. T \subseteq FiniteSubsetsOf(1 .. n) /\ T # {}
  <2>1. \A i \in I : Before(i) \in FiniteSubsetsOf(1 .. n)
    BY FS_Interval DEF FiniteSubsetsOf
  <2> QED  BY <2>1
<1>3. PICK i \in I : \A j \in I : <<Before(j), Before(i)>> \notin R
  <2> HIDE DEF R
  <2>1. \E x \in T : \A y \in T : <<y, x>> \notin R
    BY <1>1, <1>2, WFMin
  <2> QED  BY <2>1
<1>4. ASSUME NEW j \in I, j < i PROVE FALSE
  <2>1. Before(j) \subseteq Before(i) /\ j \in Before(i) /\ j \notin Before(j)
    BY <1>4
  <2>2. Before(i) \in SUBSET (1 .. n) /\ Before(j) \in SUBSET (1 .. n)
    OBVIOUS
  <2> HIDE DEF Before
  <2> QED  BY <1>3, <2>1, <2>2 DEF StrictSubsetOrdering
<1>5. \A j \in I : i <= j
  BY <1>4
<1> QED  BY <1>5 DEF Min

\* The first match of a pattern is one of the section's names.
LEMMA FirstIsNamed ==
    ASSUME NEW names \in Seq(Name), NEW forms, Matches(names, forms) # {}
    PROVE  \E i \in DOMAIN names : First(names, forms) = names[i].dev
<1>1. Len(names) \in Nat /\ DOMAIN names = 1 .. Len(names)
  BY LenProperties
<1>2. Matches(names, forms) \in SUBSET (1 .. Len(names))
  BY <1>1 DEF Matches
<1>3. Min(Matches(names, forms)) \in Matches(names, forms)
  BY <1>1, <1>2, FirstPlace
<1> QED  BY <1>1, <1>2, <1>3 DEF First

\* The serial of a section is that of a name in it.
LEMMA SerialIsNamed ==
    ASSUME NEW text \in Text
    PROVE  \/ extractSerialNumber(text) = NoSerial
           \/ \E i \in DOMAIN text.names : extractSerialNumber(text) = Serial[text.names[i].dev]
<1> DEFINE matched == {i \in DOMAIN SerialPatterns :
                          /\ Matches(text.names, SerialPatterns[i]) # {}
                          /\ Serial[First(text.names, SerialPatterns[i])] # NoSerial}
<1>1. text.names \in Seq(Name)
  BY DEF Text
<1>2. matched \in SUBSET (1 .. 4)
  BY DEF SerialPatterns
<1>3. CASE matched = {}
  BY <1>3 DEF extractSerialNumber
<1>4. CASE matched # {}
  <2>1. Min(matched) \in matched
    <3> HIDE DEF matched
    <3> QED  BY <1>2, <1>4, FirstPlace
  <2>2. PICK i \in DOMAIN text.names :
            First(text.names, SerialPatterns[Min(matched)]) = text.names[i].dev
    BY <2>1, <1>1, FirstIsNamed
  <2>3. extractSerialNumber(text) = Serial[First(text.names, SerialPatterns[Min(matched)])]
    BY <1>4 DEF extractSerialNumber
  <2> HIDE DEF matched
  <2> QED  BY <2>2, <2>3
<1> QED  BY <1>3, <1>4

\* The product ID of a section is that of a device, or none.
LEMMA ProductIDType == \A text \in Text : extractProductID(text) \in Pids
<1> TAKE text \in Text
<1>1. CASE Matches(text.names, {"usb", "configured"}) = {}
  BY <1>1 DEF extractProductID, Pids
<1>2. CASE Matches(text.names, {"usb", "configured"}) # {}
  <2>1. text.names \in Seq(Name)
    BY DEF Text
  <2>2. PICK i \in DOMAIN text.names :
            First(text.names, {"usb", "configured"}) = text.names[i].dev
    BY <1>2, <2>1, FirstIsNamed
  <2>3. text.names[i] \in Name
    BY <2>1, LenProperties, ElementOfSeq
  <2>4. text.names[i].dev \in Device
    BY <2>3 DEF Name
  <2> QED  BY <1>2, <2>2, <2>4 DEF extractProductID, Pids
<1> QED  BY <1>1, <1>2

\* The serials of a section are serials of devices.
LEMMA SerialTypes ==
    ASSUME NEW text \in Text
    PROVE  /\ extractSerialNumber(text) \in Keys
           /\ \A i \in DOMAIN text.names : Serial[text.names[i].dev] \in Keys
<1>1. \A i \in DOMAIN text.names : text.names[i] \in Name
  BY LenProperties, ElementOfSeq DEF Text
<1>2. \A i \in DOMAIN text.names : text.names[i].dev \in Device
  BY <1>1 DEF Name
<1>3. \A i \in DOMAIN text.names : Serial[text.names[i].dev] \in Keys
  BY <1>2 DEF Keys
<1>4. NoSerial \in Keys
  BY DEF Keys
<1> QED  BY <1>3, <1>4, SerialIsNamed

-----------------------------------------------------------------------------
(***************************************************************************)
(* Types                                                                   *)
(***************************************************************************)

LEMMA LineType ==
    ASSUME NEW line \in Line
    PROVE  /\ line.kind \in {"header", "body", "start", "boot"}
           /\ line.names = <<>> \/ \E n \in Name : line.names = <<n>>
           /\ line.names \in Seq(Name)
           /\ line.kind = "boot" \/ line.kind = "start" => line.names = <<>> /\ line.word = "none"
<1>1. line.kind \in {"header", "body", "start", "boot"}
  BY DEF Line
<1>2. line.names = <<>> \/ \E n \in Name : line.names = <<n>>
  BY DEF Line
<1>3. line.names \in Seq(Name)
  <2>1. \A n \in Name : <<n>> \in Seq(Name)
    OBVIOUS
  <2> QED  BY <1>2, <2>1, EmptySeq
<1>4. line.kind = "boot" \/ line.kind = "start" => line.names = <<>> /\ line.word = "none"
  BY DEF Line
<1> QED  BY <1>1, <1>2, <1>3, <1>4

LEMMA NoTextType == NoText \in Text
BY DEF NoText, Text

\* A line is added to a text behind the names that are in it.
LEMMA ExtendedType ==
    ASSUME log \in Seq(Section), NEW text \in Text, NEW line \in Line
    PROVE  /\ Extended(text, line) \in Text
           /\ \A i \in DOMAIN Extended(text, line).names :
                 \/ i \in DOMAIN text.names /\ Extended(text, line).names[i] = text.names[i]
                 \/ \E j \in DOMAIN line.names :
                       Extended(text, line).names[i] = line.names[j]
<1>1. text.names \in Seq(Name) /\ line.names \in Seq(Name)
  BY LineType DEF Text
<1>2. /\ text.names \o line.names \in Seq(Name)
      /\ Len(text.names \o line.names) = Len(text.names) + Len(line.names)
      /\ \A i \in 1 .. Len(text.names) + Len(line.names) :
            (text.names \o line.names)[i] =
                IF i <= Len(text.names) THEN text.names[i]
                ELSE line.names[i - Len(text.names)]
  BY <1>1, ConcatProperties
<1>3. /\ Len(text.names) \in Nat /\ DOMAIN text.names = 1 .. Len(text.names)
      /\ Len(line.names) \in Nat /\ DOMAIN line.names = 1 .. Len(line.names)
      /\ DOMAIN (text.names \o line.names) = 1 .. Len(text.names \o line.names)
  BY <1>1, <1>2, LenProperties
<1>4. /\ Extended(text, line).names = text.names \o line.names
      /\ Extended(text, line).start \in {text.start, Len(log)}
      /\ Extended(text, line) = [names |-> Extended(text, line).names,
                                 storage |-> Extended(text, line).storage,
                                 excluded |-> Extended(text, line).excluded,
                                 start |-> Extended(text, line).start]
  BY DEF Extended
<1>5. Extended(text, line).start \in Nat
  <2>1. Len(log) \in Nat
    BY LenProperties
  <2> QED  BY <1>4, <2>1 DEF Text
<1>6. Extended(text, line).storage \in BOOLEAN /\ Extended(text, line).excluded \in BOOLEAN
  BY Zenon DEF Extended
<1>7. Extended(text, line) \in Text
  BY <1>2, <1>4, <1>5, <1>6, Zenon DEF Text
<1>8. ASSUME NEW i \in DOMAIN Extended(text, line).names
      PROVE  \/ i \in DOMAIN text.names /\ Extended(text, line).names[i] = text.names[i]
             \/ \E j \in DOMAIN line.names : Extended(text, line).names[i] = line.names[j]
  <2> DEFINE m == Len(text.names)
             n == Len(line.names)
             all == text.names \o line.names
  <2>1. /\ i \in 1 .. m + n /\ m \in Nat /\ n \in Nat
        /\ all[i] = IF i <= m THEN text.names[i] ELSE line.names[i - m]
        /\ Extended(text, line).names = all
    BY <1>2, <1>3, <1>4, <1>8
  <2> HIDE DEF m, n, all
  <2>2. CASE i <= m
    <3>1. i \in 1 .. m /\ all[i] = text.names[i]
      BY <2>1, <2>2
    <3> QED  BY <2>1, <3>1, <1>3 DEF m
  <2>3. CASE ~(i <= m)
    <3>1. i - m \in 1 .. n /\ all[i] = line.names[i - m]
      BY <2>1, <2>3
    <3> QED  BY <2>1, <3>1, <1>3 DEF n
  <2> QED  BY <2>2, <2>3
<1> QED  BY <1>7, <1>8

LEMMA InitTypeOK == Init => TypeOK
<1> SUFFICES ASSUME Init PROVE TypeOK
  OBVIOUS
<1>1. ParseTypeOK
  BY NoTextType, EmptySeq DEF Init, ParseTypeOK
<1>2. MatchTypeOK
  BY EmptySeq DEF Init, MatchTypeOK
<1> QED  BY <1>1, <1>2 DEF Init, TypeOK

\* Closing a section adds at most one record, that of the section.
LEMMA RecordedAdds ==
    ASSUME ParseTypeOK
    PROVE  \/ Recorded = setupAPIInfoList
           \/ \E info \in Info :
                 /\ inUSBSection
                 /\ Recorded = Append(setupAPIInfoList, info)
                 /\ info.serial = extractSerialNumber(currentSection)
                 /\ info.time = extractFirstConnectionTime(currentSection)
                 /\ info.section = Len(log)
<1> DEFINE info == [serial |-> extractSerialNumber(currentSection),
                    pid |-> extractProductID(currentSection),
                    time |-> extractFirstConnectionTime(currentSection),
                    section |-> Len(log)]
<1>1. currentSection \in Text /\ Len(log) \in Nat
  BY LenProperties DEF ParseTypeOK
<1>2. currentSection.start \in Nat /\ globalBootInfo \in Nat
  BY <1>1 DEF Text, ParseTypeOK
<1>3. extractFirstConnectionTime(currentSection) \in Time
  BY <1>2 DEF extractFirstConnectionTime, Time
<1>4. info \in Info
  BY <1>1, <1>3, SerialTypes, ProductIDType DEF Info
<1>5. \/ Recorded = setupAPIInfoList
      \/ inUSBSection /\ Recorded = Append(setupAPIInfoList, info)
  BY DEF Recorded
<1> QED  BY <1>4, <1>5

LEMMA RecordedType == ParseTypeOK => Recorded \in Seq(Info)
<1> SUFFICES ASSUME ParseTypeOK PROVE Recorded \in Seq(Info)
  OBVIOUS
<1>1. setupAPIInfoList \in Seq(Info)
  BY DEF ParseTypeOK
<1> QED  BY <1>1, RecordedAdds, AppendProperties

\* The serials of a line are serials of devices.
LEMMA SerialsOfType == \A line \in Line : SerialsOf(line) \in SUBSET Keys
<1> TAKE line \in Line
<1>1. line.names \in Seq(Name)
  BY LineType
<1>2. \A i \in DOMAIN line.names : line.names[i] \in Name
  BY <1>1, LenProperties, ElementOfSeq
<1>3. \A i \in DOMAIN line.names : line.names[i].dev \in Device
  BY <1>2 DEF Name
<1> QED  BY <1>3 DEF SerialsOf, Keys

LEMMA SectionLineTypes ==
    ASSUME ParseTypeOK, NEW line \in Line, readSectionLine(line)
    PROVE  ParseTypeOK'
<1> DEFINE new == [header |-> SerialsOf(line), serials |-> SerialsOf(line),
                   boot |-> globalBootInfo,
                   owed |-> /\ line.names # <<>>
                            /\ isStorageDeviceFromSetupAPI(Extended(NoText, line))]
<1>1. lines' \in Nat /\ globalBootInfo' \in Nat
  BY DEF readSectionLine, ParseTypeOK
<1>2. currentSection' \in Text
  BY NoTextType, ExtendedType DEF readSectionLine, ParseTypeOK, SectionBegunBy
<1>3. inUSBSection' \in BOOLEAN /\ afterHeader' \in BOOLEAN
  BY Zenon DEF readSectionLine, OpensUSBSection
<1>4. setupAPIInfoList' \in Seq(Info)
  BY RecordedType DEF readSectionLine
<1>5. log' \in Seq(Section)
  <2>1. new.owed \in BOOLEAN
    BY Zenon
  <2>2. new \in Section
    BY <2>1, SerialsOfType, Zenon DEF Section, ParseTypeOK
  <2>3. log' = Append(log, new) \/ log' = log
    BY Zenon DEF readSectionLine
  <2> HIDE DEF new
  <2> QED  BY <2>2, <2>3, AppendProperties DEF ParseTypeOK
<1> QED  BY <1>1, <1>2, <1>3, <1>4, <1>5 DEF ParseTypeOK

\* A line of the body adds to the serials of the last section; a boot line between
\* a header and its start line is the boot the section begins in.
LEMMA LineKeepsLog ==
    ASSUME ParseTypeOK, SectionInv, NEW line \in Line, readLine(line)
    PROVE  /\ log' \in Seq(Section)
           /\ Len(log') = Len(log)
           /\ \A s \in 1 .. Len(log) :
                 /\ log'[s].boot = log[s].boot \/ (afterHeader /\ s = Len(log))
                 /\ log'[s].owed = log[s].owed
                 /\ log'[s].header = log[s].header
                 /\ log[s].serials \subseteq log'[s].serials
           /\ log # <<>> /\ afterHeader => log'[Len(log)].boot = globalBootInfo'
           /\ log # <<>> => SerialsOf(line) \subseteq log'[Len(log)].serials
           /\ line.names # <<>> => log # <<>> /\ ~afterHeader
<1>1. log \in Seq(Section) /\ globalBootInfo' \in Nat
  BY DEF readLine, ParseTypeOK
<1>2. line.names # <<>> => log # <<>> /\ ~afterHeader
  BY LineType DEF readLine
<1>3. CASE log = <<>>
  <2>1. log' = log
    BY <1>3 DEF readLine
  <2> QED  BY <1>1, <1>2, <1>3, <2>1
<1>4. CASE log # <<>>
  <2> DEFINE n == Len(log)
             last == [log[n] EXCEPT !.serials = @ \cup SerialsOf(line),
                                    !.boot = IF afterHeader THEN globalBootInfo' ELSE @]
  <2>1. n \in 1 .. n /\ log[n] \in Section
    BY <1>1, <1>4, EmptySeq, ElementOfSeq
  <2>2. /\ last.serials = log[n].serials \cup SerialsOf(line)
        /\ last.boot = IF afterHeader THEN globalBootInfo' ELSE log[n].boot
        /\ last.owed = log[n].owed
        /\ last.header = log[n].header
        /\ last \in Section
    BY <1>1, <2>1, SerialsOfType DEF Section
  <2>3. log' = [log EXCEPT ![n] = last]
    BY <1>4, Zenon DEF readLine
  <2> HIDE DEF last
  <2>4. /\ log' \in Seq(Section)
        /\ Len(log') = n
        /\ \A s \in 1 .. n : log'[s] = IF s = n THEN last ELSE log[s]
    BY <1>1, <2>1, <2>2, <2>3, ExceptSeq
  <2> QED  BY <1>2, <2>1, <2>2, <2>4
<1> QED  BY <1>3, <1>4

LEMMA LineTypes ==
    ASSUME ParseTypeOK, SectionInv, NEW line \in Line, readLine(line)
    PROVE  ParseTypeOK'
<1>1. lines' \in Nat /\ globalBootInfo' \in Nat
  BY DEF readLine, ParseTypeOK
<1>2. currentSection' \in Text /\ inUSBSection' \in BOOLEAN
  BY ExtendedType DEF readLine, ParseTypeOK
<1>3. UNCHANGED <<setupAPIInfoList, afterHeader>>
  BY DEF readLine
<1>4. log' \in Seq(Section)
  BY LineKeepsLog
<1> QED  BY <1>1, <1>2, <1>3, <1>4 DEF ParseTypeOK

LEMMA EndTypes ==
    ASSUME ParseTypeOK, MatchTypeOK, endOfFile
    PROVE  /\ ParseTypeOK'
           /\ MatchTypeOK'
           /\ DOMAIN usbForensicsDevices' = DOMAIN setupAPIInfoList'
           /\ \A i \in DOMAIN usbForensicsDevices' :
                 /\ usbForensicsDevices'[i].key = setupAPIInfoList'[i].serial
                 /\ usbForensicsDevices'[i].events = <<>>
<1> DEFINE device(i) == [key |-> setupAPIInfoList'[i].serial, pid |-> setupAPIInfoList'[i].pid,
                         source |-> "SetupAPI", events |-> <<>>]
           n == Len(setupAPIInfoList')
<1>1. setupAPIInfoList' \in Seq(Info)
  BY RecordedType DEF endOfFile
<1>2. ParseTypeOK'
  BY <1>1, NoTextType DEF endOfFile, ParseTypeOK
<1>3. n \in Nat /\ DOMAIN setupAPIInfoList' = 1 .. n
  BY <1>1, LenProperties
<1>4. \A i \in 1 .. n : device(i) \in UsbDevice
  <2>1. \A i \in 1 .. n : setupAPIInfoList'[i] \in Info
    BY <1>1, <1>3, ElementOfSeq
  <2> QED  BY <2>1, EmptySeq DEF Info, UsbDevice
<1>5. usbForensicsDevices' = [i \in 1 .. n |-> device(i)]
  BY <1>3 DEF endOfFile
<1>6. usbForensicsDevices' \in Seq(UsbDevice)
  <2> HIDE DEF device, n
  <2> QED  BY <1>3, <1>4, <1>5, IsASeq
<1>7. MatchTypeOK'
  BY <1>6 DEF endOfFile, MatchTypeOK
<1> QED  BY <1>2, <1>3, <1>5, <1>7

-----------------------------------------------------------------------------
(***************************************************************************)
(* Records and sections                                                    *)
(***************************************************************************)

LEMMA EmptyIsZero ==
    ASSUME NEW S, NEW s \in Seq(S)
    PROVE  /\ s = <<>> <=> Len(s) = 0
           /\ s # <<>> => Len(s) \in 1 .. Len(s)
BY EmptySeq, LenProperties

LEMMA InitParse == Init => SectionInv /\ FitInv /\ OwedInv
BY DEF Init, SectionInv, FitInv, OwedInv, NoText

\* What a "Section start" line or a header makes of the section.
LEMMA SectionBegins ==
    ASSUME ParseTypeOK, SectionInv, NEW line \in Line, readSectionLine(line)
    PROVE  /\ line.kind = "header" =>
                 /\ log' # <<>>
                 /\ Len(log') = Len(log) + 1
                 /\ \A s \in 1 .. Len(log) : log'[s] = log[s]
                 /\ log'[Len(log')].header = SerialsOf(line)
                 /\ log'[Len(log')].serials = SerialsOf(line)
                 /\ log'[Len(log')].boot = globalBootInfo
                 /\ log'[Len(log')].owed =>
                       /\ line.names # <<>>
                       /\ isStorageDeviceFromSetupAPI(Extended(NoText, line))
           /\ line.kind = "start" /\ afterHeader => log # <<>> /\ log' = log
           /\ \/ line.kind = "header"
              \/ line.kind = "start" /\ afterHeader
<1> DEFINE owed == /\ line.names # <<>>
                   /\ isStorageDeviceFromSetupAPI(Extended(NoText, line))
           new == [header |-> SerialsOf(line), serials |-> SerialsOf(line),
                   boot |-> globalBootInfo, owed |-> owed]
<1>1. \/ line.kind = "header"
      \/ line.kind = "start" /\ afterHeader
  BY DEF readSectionLine
<1>2. afterHeader => log # <<>>
  BY DEF SectionInv
<1>3. ASSUME line.kind = "header"
      PROVE  /\ log' # <<>>
             /\ Len(log') = Len(log) + 1
             /\ \A s \in 1 .. Len(log) : log'[s] = log[s]
             /\ log'[Len(log')] = new
  <2>1. log' = Append(log, new)
    BY <1>3, Zenon DEF readSectionLine
  <2>2. new \in Section
    <3>1. owed \in BOOLEAN
      BY Zenon
    <3> HIDE DEF owed
    <3> QED  BY <3>1, SerialsOfType DEF Section, ParseTypeOK
  <2>3. log \in Seq(Section)
    BY DEF ParseTypeOK
  <2> HIDE DEF new
  <2> QED  BY <2>1, <2>2, <2>3, AppendProperties
<1>4. new.header = SerialsOf(line) /\ new.serials = SerialsOf(line) /\ new.boot = globalBootInfo /\ new.owed = owed
  BY Zenon
<1>5. line.kind = "start" => log' = log
  BY DEF readSectionLine
<1> HIDE DEF new
<1> QED  BY <1>1, <1>2, <1>3, <1>4, <1>5, Zenon DEF owed

LEMMA SectionLineInv ==
    ASSUME ParseTypeOK, SectionInv, stage = "parse", NEW line \in Line, readSectionLine(line)
    PROVE  SectionInv'
<1>1. \A i \in DOMAIN currentSection'.names :
         \E j \in DOMAIN line.names : currentSection'.names[i] = line.names[j]
  <2>1. currentSection' = Extended(NoText, line)
    BY Zenon DEF readSectionLine, SectionBegunBy
  <2>2. log \in Seq(Section) /\ DOMAIN NoText.names = {}
    BY DEF ParseTypeOK, NoText
  <2> QED  BY <2>1, <2>2, NoTextType, ExtendedType
<1>2. \A i \in DOMAIN currentSection'.names : Serial[currentSection'.names[i].dev] \in SerialsOf(line)
  BY <1>1 DEF SerialsOf
<1>3. /\ currentSection' = Extended(NoText, line)
      /\ currentSection'.start = IF line.kind = "start" THEN Len(log) ELSE 0
      /\ inUSBSection' = OpensUSBSection(line)
      /\ afterHeader' = (line.kind = "header")
      /\ globalBootInfo' = globalBootInfo
      /\ stage' = "parse"
  BY DEF readSectionLine, SectionBegunBy, Extended, NoText
<1>4. CASE line.kind = "header"
  <2>1. ASSUME line.names # <<>>
        PROVE  \E n \in Name : currentSection'.names = <<n>> /\ SerialsOf(line) = {Serial[n.dev]}
    <3>1. PICK n \in Name : line.names = <<n>>
      BY <2>1, LineType
    <3>2. currentSection'.names = <<n>>
      BY <1>3, <3>1 DEF Extended, NoText
    <3>3. SerialsOf(line) = {Serial[n.dev]}
      BY <3>1 DEF SerialsOf
    <3> QED  BY <3>2, <3>3
  <2> QED  BY <1>2, <1>3, <1>4, <2>1, SectionBegins DEF SectionInv, OpensUSBSection
<1>5. CASE line.kind = "start" /\ afterHeader
  <2>1. DOMAIN currentSection'.names = {}
    BY <1>1, <1>5, LineType
  <2> QED  BY <2>1, <1>3, <1>5, SectionBegins DEF SectionInv
<1> QED  BY <1>4, <1>5, SectionBegins

\* A boot line says nothing of a device.
LEMMA BootLine ==
    ASSUME NEW text, NEW line \in Line, line.kind = "boot", text.names \in Seq(Name)
    PROVE  /\ Extended(text, line).names = text.names
           /\ isStorageDeviceFromSetupAPI(Extended(text, line))
                  <=> isStorageDeviceFromSetupAPI(text)
<1>1. line.names = <<>> /\ line.word = "none"
  BY LineType
<1>2. /\ Extended(text, line).names = text.names
      /\ Extended(text, line).storage <=> text.storage
      /\ Extended(text, line).excluded <=> text.excluded
  <2>1. Extended(text, line).names = text.names \o line.names
    BY DEF Extended
  <2>2. text.names \o line.names = text.names
    BY <1>1, ConcatEmptySeq
  <2>3. line.word # "storage" /\ line.word # "excluded"
    BY <1>1
  <2>4. /\ Extended(text, line).storage <=> text.storage
        /\ Extended(text, line).excluded <=> text.excluded
    BY <2>3, Zenon DEF Extended
  <2> QED  BY <2>1, <2>2, <2>4
<1> QED  BY <1>2, Zenon DEF isStorageDeviceFromSetupAPI

LEMMA LineInv ==
    ASSUME ParseTypeOK, SectionInv, NEW line \in Line, readLine(line)
    PROVE  SectionInv'
<1>1. afterHeader' = afterHeader /\ stage = "parse" /\ stage' = "parse"
  BY DEF readLine
<1>2. Len(log') = Len(log) /\ (log' = <<>> <=> log = <<>>)
  BY LineKeepsLog, EmptyIsZero DEF ParseTypeOK
<1>3. CASE log = <<>>
  <2>1. line.names = <<>>
    BY <1>3, LineKeepsLog
  <2> QED  BY <2>1, <1>1, <1>2, <1>3 DEF SectionInv, readLine
<1>4. CASE log # <<>>
  <2>1. Len(log) \in 1 .. Len(log)
    BY <1>4, EmptyIsZero DEF ParseTypeOK
  <2>2. log[Len(log)].serials \subseteq log'[Len(log)].serials
    BY <2>1, LineKeepsLog
  <2>3. SerialsOf(line) \subseteq log'[Len(log)].serials
    BY <1>4, LineKeepsLog
  <2>4. currentSection' \in {currentSection, Extended(currentSection, line)}
    BY DEF readLine
  <2>5. currentSection'.start = currentSection.start
    <3>1. line.kind # "start"
      BY DEF readLine
    <3>2. Extended(currentSection, line).start = currentSection.start
      BY <3>1 DEF Extended
    <3> QED  BY <3>2, <2>4
  <2>6. ASSUME NEW i \in DOMAIN currentSection'.names
        PROVE  Serial[currentSection'.names[i].dev] \in log'[Len(log)].serials
    <3>1. \/ /\ i \in DOMAIN currentSection.names
             /\ currentSection'.names[i] = currentSection.names[i]
          \/ \E j \in DOMAIN line.names : currentSection'.names[i] = line.names[j]
      BY <2>4, <2>6, ExtendedType DEF ParseTypeOK
    <3>2. CASE /\ i \in DOMAIN currentSection.names
               /\ currentSection'.names[i] = currentSection.names[i]
      BY <3>2, <2>2, <1>4 DEF SectionInv
    <3>3. CASE \E j \in DOMAIN line.names : currentSection'.names[i] = line.names[j]
      BY <3>3, <2>3 DEF SerialsOf
    <3> QED  BY <3>1, <3>2, <3>3
  <2>7. ASSUME afterHeader
        PROVE  /\ globalBootInfo' = log'[Len(log)].boot
               /\ log'[Len(log)].owed =>
                     /\ inUSBSection' /\ isStorageDeviceFromSetupAPI(currentSection')
                     /\ \E n \in Name : /\ currentSection'.names = <<n>>
                                       /\ log'[Len(log)].header = {Serial[n.dev]}
    <3>1. globalBootInfo' = log'[Len(log)].boot
      BY <1>4, <2>7, LineKeepsLog
    <3>2. log'[Len(log)].owed = log[Len(log)].owed /\ log'[Len(log)].header = log[Len(log)].header
      BY <2>1, LineKeepsLog
    <3>3. line.kind = "boot" /\ currentSection.names \in Seq(Name)
      BY <2>7 DEF readLine, ParseTypeOK, Text
    <3>4. /\ currentSection'.names = currentSection.names
          /\ isStorageDeviceFromSetupAPI(currentSection')
                 <=> isStorageDeviceFromSetupAPI(currentSection)
      BY <2>4, <3>3, BootLine
    <3>5. inUSBSection => inUSBSection'
      BY Zenon DEF readLine
    <3> QED  BY <2>7, <3>1, <3>2, <3>4, <3>5, Zenon DEF SectionInv
  <2> QED  BY <1>1, <1>2, <1>4, <2>5, <2>6, <2>7 DEF SectionInv
<1> QED  BY <1>3, <1>4

LEMMA EndInv == SectionInv /\ endOfFile => SectionInv'
BY DEF SectionInv, endOfFile, NoText

\* The list after a section is closed fits the log, too.
LEMMA RecordedFits ==
    ASSUME ParseTypeOK, SectionInv, FitInv, stage = "parse"
    PROVE  \A i \in DOMAIN Recorded : Fits(Recorded[i])
<1>1. CASE Recorded = setupAPIInfoList
  BY <1>1 DEF FitInv
<1>2. ASSUME NEW info \in Info,
             inUSBSection,
             Recorded = Append(setupAPIInfoList, info),
             info.serial = extractSerialNumber(currentSection),
             info.time = extractFirstConnectionTime(currentSection),
             info.section = Len(log)
      PROVE  \A i \in DOMAIN Recorded : Fits(Recorded[i])
  <2>1. log # <<>>
    BY <1>2 DEF SectionInv
  <2>2. Len(log) \in DOMAIN log /\ Len(log) # 0
    BY <2>1, EmptyIsZero, LenProperties DEF ParseTypeOK
  <2>3. info.serial \in log[Len(log)].serials \cup {NoSerial}
    BY <1>2, <2>1, SerialIsNamed DEF ParseTypeOK, SectionInv
  <2>4. info.time \in {[of |-> "section", n |-> Len(log)],
                       [of |-> "boot", n |-> log[Len(log)].boot]}
    BY <1>2, <2>1, <2>2 DEF SectionInv, extractFirstConnectionTime
  <2>5. Fits(info)
    BY <1>2, <2>2, <2>3, <2>4 DEF Fits
  <2>6. /\ setupAPIInfoList \in Seq(Info)
        /\ Len(setupAPIInfoList) \in Nat
        /\ DOMAIN setupAPIInfoList = 1 .. Len(setupAPIInfoList)
    BY LenProperties DEF ParseTypeOK
  <2>7. /\ DOMAIN Recorded = 1 .. Len(setupAPIInfoList) + 1
        /\ \A i \in 1 .. Len(setupAPIInfoList) : Recorded[i] = setupAPIInfoList[i]
        /\ Recorded[Len(setupAPIInfoList) + 1] = info
    BY <1>2, <2>6, AppendProperties, LenProperties
  <2>8. \A i \in 1 .. Len(setupAPIInfoList) : Fits(Recorded[i])
    BY <2>6, <2>7 DEF FitInv
  <2> QED  BY <2>5, <2>6, <2>7, <2>8
<1> QED  BY <1>1, <1>2, RecordedAdds

\* What fits the log fits what the log becomes.
LEMMA StaysFit ==
    ASSUME ParseTypeOK, ParseTypeOK', NEW r, Fits(r),
           Len(log') >= Len(log),
           log'[r.section].boot = log[r.section].boot,
           \A s \in 1 .. Len(log) : log[s].serials \subseteq log'[s].serials
    PROVE  Fits(r)'
<1>1. /\ Len(log) \in Nat /\ DOMAIN log = 1 .. Len(log)
      /\ Len(log') \in Nat /\ DOMAIN log' = 1 .. Len(log')
  BY LenProperties DEF ParseTypeOK
<1>2. r.section \in 1 .. Len(log) /\ r.section \in 1 .. Len(log')
  BY <1>1 DEF Fits
<1> QED  BY <1>1, <1>2 DEF Fits

LEMMA FitStep ==
    ASSUME ParseTypeOK, ParseTypeOK', FitInv,
           \/ setupAPIInfoList' = setupAPIInfoList
           \/ setupAPIInfoList' = Recorded /\ SectionInv /\ stage = "parse",
           Len(log') >= Len(log),
           afterHeader' => \/ Len(log') # Len(log)
                           \/ afterHeader /\ setupAPIInfoList' = setupAPIInfoList,
           \A s \in 1 .. Len(log) :
              /\ \/ log'[s].boot = log[s].boot
                 \/ afterHeader /\ s = Len(log) /\ setupAPIInfoList' = setupAPIInfoList
              /\ log[s].serials \subseteq log'[s].serials
    PROVE  FitInv'
<1>1. \A i \in DOMAIN setupAPIInfoList' : Fits(setupAPIInfoList'[i])
  <2>1. CASE setupAPIInfoList' = setupAPIInfoList
    BY <2>1 DEF FitInv
  <2>2. CASE setupAPIInfoList' = Recorded /\ SectionInv /\ stage = "parse"
    BY <2>2, RecordedFits
  <2> QED  BY <2>1, <2>2
<1>2. /\ Len(log) \in Nat /\ DOMAIN log = 1 .. Len(log)
      /\ Len(log') \in Nat
  BY LenProperties DEF ParseTypeOK
<1>3. SUFFICES ASSUME NEW i \in DOMAIN setupAPIInfoList',
                      NEW r, r = setupAPIInfoList'[i], Fits(r)
               PROVE  Fits(r)' /\ (afterHeader' => r.section # Len(log'))
  BY <1>1 DEF FitInv, Fits
<1>4. r.section \in 1 .. Len(log)
  BY <1>2, <1>3 DEF Fits
<1>5. afterHeader /\ setupAPIInfoList' = setupAPIInfoList => r.section # Len(log)
  BY <1>3 DEF FitInv
<1>6. log'[r.section].boot = log[r.section].boot
  BY <1>4, <1>5
<1>7. Fits(r)'
  BY <1>3, <1>6, StaysFit
<1>8. Len(log') # Len(log) => r.section # Len(log')
  <2>1. \A m, n \in Nat : \A t \in 1 .. m : n >= m /\ n # m => t # n
    OBVIOUS
  <2>2. Len(log) \in Nat /\ Len(log') \in Nat
    BY <1>2
  <2> QED  BY <1>4, <2>1, <2>2
<1>9. afterHeader' => r.section # Len(log')
  BY <1>5, <1>8, Zenon
<1> QED  BY <1>7, <1>9

\* The sections that are owed a record keep the one they have.
LEMMA RecordedKeeps ==
    ASSUME ParseTypeOK, NEW i \in DOMAIN setupAPIInfoList
    PROVE  i \in DOMAIN Recorded /\ Recorded[i] = setupAPIInfoList[i]
<1>1. /\ setupAPIInfoList \in Seq(Info)
      /\ Len(setupAPIInfoList) \in Nat
      /\ DOMAIN setupAPIInfoList = 1 .. Len(setupAPIInfoList)
  BY LenProperties DEF ParseTypeOK
<1>2. CASE Recorded = setupAPIInfoList
  BY <1>2
<1>3. ASSUME NEW info \in Info, Recorded = Append(setupAPIInfoList, info)
      PROVE  i \in DOMAIN Recorded /\ Recorded[i] = setupAPIInfoList[i]
  <2>1. /\ Recorded \in Seq(Info)
        /\ Len(Recorded) = Len(setupAPIInfoList) + 1
        /\ \A j \in 1 .. Len(setupAPIInfoList) : Recorded[j] = setupAPIInfoList[j]
    BY <1>1, <1>3, AppendProperties
  <2>2. DOMAIN Recorded = 1 .. Len(Recorded)
    BY <2>1, LenProperties
  <2> QED  BY <1>1, <2>1, <2>2
<1> QED  BY <1>2, <1>3, RecordedAdds

\* A name alone has the serial of its device, in whichever form it is.
LEMMA SerialOfName ==
    ASSUME NEW n \in Name, NEW text, text.names = <<n>>
    PROVE  extractSerialNumber(text) = Serial[n.dev]
<1> DEFINE matched == {i \in DOMAIN SerialPatterns :
                          /\ Matches(text.names, SerialPatterns[i]) # {}
                          /\ Serial[First(text.names, SerialPatterns[i])] # NoSerial}
<1>1. ASSUME NEW forms, Matches(text.names, forms) # {}
      PROVE  First(text.names, forms) = n.dev
  <2>1. text.names \in Seq(Name) /\ DOMAIN text.names = {1} /\ text.names[1] = n
    OBVIOUS
  <2> QED  BY <1>1, <2>1, FirstIsNamed
<1>2. ASSUME Serial[n.dev] # NoSerial PROVE matched # {}
  <2>1. DOMAIN text.names = {1} /\ text.names[1].form = n.form
    OBVIOUS
  <2>2. \A forms : n.form \in forms => Matches(text.names, forms) # {}
    BY <2>1 DEF Matches
  <2>3. n.form \in Form
    BY DEF Name
  <2>4. PICK i \in DOMAIN SerialPatterns : n.form \in SerialPatterns[i]
    <3>1. /\ DOMAIN SerialPatterns = 1 .. 4
          /\ SerialPatterns[1] = {"usb", "configured"} /\ SerialPatterns[2] = {"usbstor"}
          /\ SerialPatterns[3] = {"wpd"}
      BY DEF SerialPatterns
    <3>2. 1 \in 1 .. 4 /\ 2 \in 1 .. 4 /\ 3 \in 1 .. 4
      OBVIOUS
    <3> QED  BY <2>3, <3>1, <3>2 DEF Form
  <2> QED  BY <1>1, <1>2, <2>2, <2>4
<1>3. CASE matched = {}
  BY <1>2, <1>3 DEF extractSerialNumber
<1>4. CASE matched # {}
  <2>1. matched \in SUBSET (1 .. 4)
    BY DEF SerialPatterns
  <2>2. extractSerialNumber(text) = Serial[First(text.names, SerialPatterns[Min(matched)])]
    BY <1>4 DEF extractSerialNumber
  <2>3. Min(matched) \in matched
    <3> HIDE DEF matched
    <3> QED  BY <1>4, <2>1, FirstPlace
  <2>4. Matches(text.names, SerialPatterns[Min(matched)]) # {}
    BY <2>3
  <2> HIDE DEF matched
  <2> QED  BY <1>1, <2>2, <2>4
<1> QED  BY <1>3, <1>4

\* The end of a header whose section is owed a record makes one.
LEMMA OwedRecorded ==
    ASSUME ParseTypeOK, SectionInv, afterHeader, Owed(Len(log))
    PROVE  Listed(Recorded, Len(log), log[Len(log)].header)
<1>1. log # <<>> /\ stage = "parse" /\ globalBootInfo = log[Len(log)].boot
  BY DEF SectionInv
<1>2. inUSBSection /\ isStorageDeviceFromSetupAPI(currentSection)
  BY DEF SectionInv, Owed
<1>3. PICK n \in Name : /\ currentSection.names = <<n>>
                       /\ log[Len(log)].header = {Serial[n.dev]}
  BY DEF SectionInv, Owed
<1>4. extractSerialNumber(currentSection) = Serial[n.dev]
  BY <1>3, SerialOfName
<1>5. extractFirstConnectionTime(currentSection) = [of |-> "boot", n |-> globalBootInfo]
  BY <1>1 DEF SectionInv, extractFirstConnectionTime
<1>6. \/ extractSerialNumber(currentSection) # NoSerial
      \/ extractFirstConnectionTime(currentSection) # [of |-> "boot", n |-> 0]
  BY <1>1, <1>3, <1>4, <1>5 DEF Owed
<1> DEFINE info == [serial |-> extractSerialNumber(currentSection),
                    pid |-> extractProductID(currentSection),
                    time |-> extractFirstConnectionTime(currentSection),
                    section |-> Len(log)]
<1>7. Recorded = Append(setupAPIInfoList, info)
  BY <1>2, <1>6, Zenon DEF Recorded
<1>8. info.section = Len(log) /\ info.serial \in log[Len(log)].header
  BY <1>3, <1>4
<1>9. info \in Info
  <2>1. currentSection \in Text /\ Len(log) \in Nat /\ globalBootInfo \in Nat
    BY LenProperties DEF ParseTypeOK
  <2>2. extractFirstConnectionTime(currentSection) \in Time
    BY <1>5, <2>1 DEF Time
  <2> QED  BY <2>1, <2>2, SerialTypes, ProductIDType DEF Info
<1> HIDE DEF info
<1>10. /\ setupAPIInfoList \in Seq(Info)
       /\ Len(setupAPIInfoList) \in Nat
  BY LenProperties DEF ParseTypeOK
<1>11. /\ Recorded \in Seq(Info)
       /\ Len(Recorded) = Len(setupAPIInfoList) + 1
       /\ Recorded[Len(setupAPIInfoList) + 1] = info
  BY <1>7, <1>9, <1>10, AppendProperties
<1>12. Len(setupAPIInfoList) + 1 \in DOMAIN Recorded
  BY <1>10, <1>11, LenProperties
<1> QED  BY <1>8, <1>11, <1>12 DEF Listed

LEMMA OwedStep ==
    ASSUME ParseTypeOK, ParseTypeOK', SectionInv, OwedInv,
           \/ setupAPIInfoList' = setupAPIInfoList /\ afterHeader' = afterHeader
                 /\ Len(log') = Len(log)
           \/ setupAPIInfoList' = Recorded
                 /\ \A s \in 1 .. Len(log) : log'[s].boot = log[s].boot,
           Len(log') \in {Len(log), Len(log) + 1},
           Len(log') = Len(log) + 1 => afterHeader',
           \A s \in 1 .. Len(log) :
              /\ log'[s].owed = log[s].owed /\ log'[s].header = log[s].header
              /\ log'[s].boot = log[s].boot \/ (afterHeader /\ s = Len(log))
    PROVE  OwedInv'
<1>1. /\ Len(log) \in Nat /\ DOMAIN log = 1 .. Len(log)
      /\ Len(log') \in Nat /\ DOMAIN log' = 1 .. Len(log')
  BY LenProperties DEF ParseTypeOK
<1> SUFFICES ASSUME NEW s \in 1 .. Len(log'),
                    log'[s].owed /\ (log'[s].boot # 0 \/ log'[s].header # {NoSerial})
             PROVE  \/ Listed(setupAPIInfoList', s, log'[s].header)
                    \/ afterHeader' /\ s = Len(log')
  BY <1>1 DEF OwedInv, Owed, Listed
<1>a. \A m, n \in Nat : n \in {m, m + 1} =>
             \A t \in 1 .. n : t \in 1 .. m \/ (t = n /\ n = m + 1)
  OBVIOUS
<1>b. s \in 1 .. Len(log) \/ (s = Len(log') /\ Len(log') = Len(log) + 1)
  BY <1>1, <1>a
<1>2. CASE s = Len(log') /\ Len(log') = Len(log) + 1
  BY <1>2, Zenon
<1>3. CASE s \in 1 .. Len(log)
  <2>1. s \in DOMAIN log /\ log'[s].header = log[s].header
    BY <1>1, <1>3
  <2>2. log'[s].boot = log[s].boot => Owed(s)
    BY <1>3 DEF Owed
  <2>3. CASE setupAPIInfoList' = setupAPIInfoList /\ afterHeader' = afterHeader
                /\ Len(log') = Len(log)
    <3>1. CASE afterHeader /\ s = Len(log)
      BY <2>3, <3>1
    <3>2. CASE ~(afterHeader /\ s = Len(log))
      <4>1. Owed(s)
        BY <1>3, <2>2, <3>2
      <4> QED  BY <2>1, <2>3, <3>2, <4>1, Zenon DEF OwedInv
    <3> QED  BY <3>1, <3>2
  <2>4. CASE setupAPIInfoList' = Recorded
                /\ \A t \in 1 .. Len(log) : log'[t].boot = log[t].boot
    <3>1. Owed(s)
      BY <1>3, <2>2, <2>4
    <3>2. CASE Listed(setupAPIInfoList, s, log[s].header)
      BY <2>1, <2>4, <3>2, RecordedKeeps DEF Listed
    <3>3. CASE afterHeader /\ s = Len(log)
      BY <2>1, <2>4, <3>1, <3>3, OwedRecorded
    <3> QED  BY <2>1, <3>1, <3>2, <3>3, Zenon DEF OwedInv
  <2> QED  BY <2>3, <2>4
<1> QED  BY <1>b, <1>2, <1>3

-----------------------------------------------------------------------------
(***************************************************************************)
(* Events and devices                                                      *)
(***************************************************************************)

\* A list of events with the next event behind it.
LEMMA AppendedEvents ==
    ASSUME NEW s \in Seq(Nat), NEW n \in Nat,
           \A j \in DOMAIN s : s[j] \in 1 .. n,
           \A j, k \in DOMAIN s : j < k => s[j] < s[k]
    PROVE  LET t == Append(s, n + 1)
           IN  /\ t \in Seq(Nat)
               /\ t # <<>>
               /\ \A j \in DOMAIN t : t[j] \in 1 .. n + 1
               /\ \A j, k \in DOMAIN t : j < k => t[j] < t[k]
               /\ \A e \in Nat : Contains(t, e) <=> Contains(s, e) \/ e = n + 1
               /\ ~Contains(s, n + 1)
<1> DEFINE t == Append(s, n + 1)
           m == Len(s)
<1>1. /\ m \in Nat /\ DOMAIN s = 1 .. m
      /\ t \in Seq(Nat) /\ t # <<>> /\ Len(t) = m + 1
      /\ \A j \in 1 .. m : t[j] = s[j]
      /\ t[m + 1] = n + 1
  <2>1. n + 1 \in Nat
    OBVIOUS
  <2>2. Len(s) \in Nat /\ DOMAIN s = 1 .. Len(s)
    BY LenProperties
  <2> QED  BY <2>1, <2>2, AppendProperties
<1>2. DOMAIN t = 1 .. m + 1
  BY <1>1, LenProperties
<1> HIDE DEF t, m
<1>3. \A j \in DOMAIN t : t[j] \in 1 .. n + 1
  BY <1>1, <1>2
<1>4. \A j, k \in DOMAIN t : j < k => t[j] < t[k]
  <2>1. SUFFICES ASSUME NEW j \in 1 .. m + 1, NEW k \in 1 .. m + 1, j < k
                 PROVE  t[j] < t[k]
    BY <1>2
  <2>2. j \in 1 .. m /\ t[j] = s[j] /\ s[j] \in 1 .. n
    <3>1. j \in 1 .. m
      BY <2>1, <1>1
    <3> QED  BY <3>1, <1>1
  <2>3. CASE k = m + 1
    BY <2>2, <2>3, <1>1
  <2>4. CASE k \in 1 .. m
    BY <2>1, <2>2, <2>4, <1>1
  <2> QED  BY <2>3, <2>4, <1>1
<1>5. \A e \in Nat : Contains(t, e) <=> Contains(s, e) \/ e = n + 1
  <2> TAKE e \in Nat
  <2>1. ASSUME NEW i \in 1 .. m, s[i] = e PROVE Contains(t, e)
    <3>1. i \in 1 .. Len(t) /\ t[i] = e
      BY <2>1, <1>1
    <3> QED  BY <3>1 DEF Contains
  <2>2. ASSUME e = n + 1 PROVE Contains(t, e)
    <3>1. m + 1 \in 1 .. Len(t) /\ t[m + 1] = e
      BY <2>2, <1>1
    <3> QED  BY <3>1 DEF Contains
  <2>3. ASSUME NEW i \in 1 .. m + 1, t[i] = e, e # n + 1 PROVE Contains(s, e)
    <3>1. i \in 1 .. m /\ s[i] = e
      BY <2>3, <1>1
    <3> QED  BY <3>1 DEF Contains, m
  <2> QED  BY <2>1, <2>2, <2>3, <1>1 DEF Contains, m
<1>6. ~Contains(s, n + 1)
  <2>1. \A j \in 1 .. m : s[j] # n + 1
    BY <1>1
  <2> QED  BY <2>1 DEF Contains, m
<1> QED  BY <1>1, <1>3, <1>4, <1>5, <1>6 DEF t

\* Of an event, the first device that matches gets it, or the group of its key.
LEMMA EventGoes ==
    ASSUME MatchTypeOK, NEW names \in EventNames, matchEvent(names)
    PROVE  LET n == Len(eventViewerInfoList)
               dev == usbForensicsDevices
           IN  /\ n \in Nat
               /\ eventViewerInfoList' \in Seq(EventNames)
               /\ Len(eventViewerInfoList') = n + 1
               /\ \A e \in 1 .. n : eventViewerInfoList'[e] = eventViewerInfoList[e]
               /\ eventViewerInfoList'[n + 1] = names
               /\ \/ \E d \in DOMAIN dev :
                        /\ names # <<>>
                        /\ usbForensicsDevices' =
                              [dev EXCEPT ![d] = [dev[d] EXCEPT !.events = Append(@, n + 1)]]
                        /\ orphanGroups' = orphanGroups
                  \/ /\ names # <<>>
                     /\ KeyOf(names[1]) \in Keys
                     /\ usbForensicsDevices' = dev
                     /\ orphanGroups' =
                           [orphanGroups EXCEPT ![KeyOf(names[1])] = Append(@, n + 1)]
                  \/ /\ usbForensicsDevices' = dev
                     /\ orphanGroups' = orphanGroups
                     /\ names # <<>> =>
                           /\ KeyOf(names[1]) = NoSerial
                           /\ \E i \in DOMAIN dev : dev[i].key = NoSerial
<1> DEFINE n == Len(eventViewerInfoList)
           dev == usbForensicsDevices
           matches == {i \in DOMAIN dev : names # <<>> /\ matchEventWithDevice(names[1], dev[i])}
<1>1. /\ n \in Nat
      /\ eventViewerInfoList' \in Seq(EventNames)
      /\ Len(eventViewerInfoList') = n + 1
      /\ \A e \in 1 .. n : eventViewerInfoList'[e] = eventViewerInfoList[e]
      /\ eventViewerInfoList'[n + 1] = names
  <2>1. eventViewerInfoList' = Append(eventViewerInfoList, names)
    BY DEF matchEvent
  <2>2. eventViewerInfoList \in Seq(EventNames)
    BY DEF MatchTypeOK
  <2> HIDE DEF EventNames
  <2> QED  BY <2>1, <2>2, AppendProperties, LenProperties
<1>2. /\ dev \in Seq(UsbDevice) /\ Len(dev) \in Nat /\ DOMAIN dev = 1 .. Len(dev)
  BY LenProperties DEF MatchTypeOK
<1>3. CASE matches # {}
  <2>1. matches \in SUBSET (1 .. Len(dev))
    BY <1>2
  <2>2. Min(matches) \in matches
    <3> HIDE DEF matches
    <3> QED  BY <2>1, <1>2, <1>3, FirstPlace
  <2>3. PICK d : d = Min(matches)
    OBVIOUS
  <2>4. d \in DOMAIN dev /\ names # <<>>
    BY <2>2, <2>3
  <2>5. /\ usbForensicsDevices' =
              [i \in DOMAIN dev |->
                  IF i \in Receiver(matches)
                  THEN [dev[i] EXCEPT !.events = Append(@, n + 1)] ELSE dev[i]]
        /\ orphanGroups' = orphanGroups
    BY <1>3 DEF matchEvent
  <2>6. Receiver(matches) = {d}
    BY <2>3 DEF Receiver
  <2> HIDE DEF matches
  <2>7. usbForensicsDevices' = [dev EXCEPT ![d] = [dev[d] EXCEPT !.events = Append(@, n + 1)]]
    BY <2>4, <2>5, <2>6
  <2> QED  BY <1>1, <2>4, <2>5, <2>7
<1>4. CASE matches = {}
  <2>1. /\ usbForensicsDevices' = dev
        /\ orphanGroups' = IF names # <<>> /\ KeyOf(names[1]) \notin existingDeviceIds
                           THEN [orphanGroups EXCEPT ![KeyOf(names[1])] = Append(@, n + 1)]
                           ELSE orphanGroups
    BY <1>4 DEF matchEvent
  <2>2. CASE names = <<>>
    BY <1>1, <2>1, <2>2
  <2>3. CASE names # <<>>
    <3>1. names[1].dev \in Device
      BY <2>3 DEF EventNames
    <3>2. KeyOf(names[1]) \in Keys
      BY <3>1 DEF KeyOf, Keys
    <3>3. CASE KeyOf(names[1]) \notin existingDeviceIds
      BY <1>1, <2>1, <2>3, <3>2, <3>3
    <3>4. CASE KeyOf(names[1]) \in existingDeviceIds
      <4>1. PICK i \in DOMAIN dev : dev[i].key = KeyOf(names[1])
        BY <3>4 DEF existingDeviceIds
      <4>2. ~matchEventWithDevice(names[1], dev[i])
        BY <1>4, <2>3
      <4>3. KeyOf(names[1]) = NoSerial
        BY <4>1, <4>2 DEF matchEventWithDevice, KeyOf
      <4> QED  BY <1>1, <2>1, <3>4, <4>1, <4>3
    <3> QED  BY <3>3, <3>4
  <2> QED  BY <2>2, <2>3
<1> QED  BY <1>3, <1>4

\* The next event has been read.
Grown(names) ==
    /\ eventViewerInfoList' \in Seq(EventNames)
    /\ Len(eventViewerInfoList') = Len(eventViewerInfoList) + 1
    /\ \A e \in 1 .. Len(eventViewerInfoList) : eventViewerInfoList'[e] = eventViewerInfoList[e]
    /\ eventViewerInfoList'[Len(eventViewerInfoList) + 1] = names

LEMMA GrownDomains ==
    ASSUME MatchTypeOK, NEW names, Grown(names)
    PROVE  /\ Len(eventViewerInfoList) \in Nat
           /\ DOMAIN eventViewerInfoList = 1 .. Len(eventViewerInfoList)
           /\ Len(eventViewerInfoList') = Len(eventViewerInfoList) + 1
           /\ DOMAIN eventViewerInfoList' = 1 .. Len(eventViewerInfoList) + 1
           /\ \A e \in 1 .. Len(eventViewerInfoList) + 1 :
                 /\ e \in Nat
                 /\ e \in 1 .. Len(eventViewerInfoList) \/ e = Len(eventViewerInfoList) + 1
<1>1. Len(eventViewerInfoList) \in Nat
  BY LenProperties DEF MatchTypeOK
<1>2. DOMAIN eventViewerInfoList = 1 .. Len(eventViewerInfoList)
  BY LenProperties DEF MatchTypeOK
<1>3. DOMAIN eventViewerInfoList' = 1 .. Len(eventViewerInfoList')
  BY LenProperties DEF Grown
<1> QED  BY <1>1, <1>2, <1>3 DEF Grown

LEMMA OrderStays ==
    ASSUME MatchTypeOK, NEW names, Grown(names), NEW s, InOrder(s)
    PROVE  InOrder(s)'
BY GrownDomains DEF InOrder

\* The events of the devices, and of the groups, are events that were read.
LEMMA EventsRead ==
    ASSUME MatchTypeOK
    PROVE  /\ \A i \in DOMAIN usbForensicsDevices :
                 /\ usbForensicsDevices[i] \in UsbDevice
                 /\ usbForensicsDevices[i].events \in Seq(Nat)
           /\ DeviceInv =>
                 \A i \in DOMAIN usbForensicsDevices : \A e \in Nat :
                    AtDevice(i, e) => e \in 1 .. Len(eventViewerInfoList)
           /\ GroupInv =>
                 \A k \in Keys : \A e \in Nat :
                    InGroup(k, e) => e \in 1 .. Len(eventViewerInfoList)
<1>1. \A i \in DOMAIN usbForensicsDevices : usbForensicsDevices[i] \in UsbDevice
  BY LenProperties, ElementOfSeq DEF MatchTypeOK
<1>2. \A i \in DOMAIN usbForensicsDevices : usbForensicsDevices[i].events \in Seq(Nat)
  BY <1>1 DEF UsbDevice
<1>3. ASSUME NEW s \in Seq(Nat), InOrder(s), NEW e \in Nat, Contains(s, e)
      PROVE  e \in 1 .. Len(eventViewerInfoList)
  <2>1. PICK j \in 1 .. Len(s) : s[j] = e
    BY <1>3 DEF Contains
  <2>2. j \in DOMAIN s
    BY <2>1, LenProperties
  <2> QED  BY <1>3, <2>1, <2>2 DEF InOrder
<1>4. DeviceInv => \A i \in DOMAIN usbForensicsDevices : InOrder(usbForensicsDevices[i].events)
  BY DEF DeviceInv
<1>5. GroupInv => \A k \in Keys : InOrder(orphanGroups[k]) /\ orphanGroups[k] \in Seq(Nat)
  BY DEF GroupInv, MatchTypeOK
<1> QED  BY <1>1, <1>2, <1>3, <1>4, <1>5 DEF AtDevice, InGroup

LEMMA DevicesKept ==
    ASSUME MatchTypeOK, DeviceInv, NEW names, Grown(names),
           usbForensicsDevices' = usbForensicsDevices
    PROVE  /\ DeviceInv'
           /\ \A i \in DOMAIN usbForensicsDevices : \A e \in Nat : AtDevice(i, e)' <=> AtDevice(i, e)
<1>1. \A i \in DOMAIN usbForensicsDevices : \A e \in Nat : AtDevice(i, e)' <=> AtDevice(i, e)
  BY DEF AtDevice
<1>2. \A i \in DOMAIN usbForensicsDevices : InOrder(usbForensicsDevices[i].events)'
  <2>1. \A s : InOrder(s) => InOrder(s)'
    BY OrderStays
  <2>2. \A i \in DOMAIN usbForensicsDevices : InOrder(usbForensicsDevices[i].events)
    BY DEF DeviceInv
  <2> QED  BY <2>1, <2>2 DEF InOrder
<1>3. \A i \in DOMAIN usbForensicsDevices : \A e \in DOMAIN eventViewerInfoList' :
         AtDevice(i, e) => eventViewerInfoList'[e] # <<>>
  <2> TAKE i \in DOMAIN usbForensicsDevices
  <2> TAKE e \in DOMAIN eventViewerInfoList'
  <2> HAVE AtDevice(i, e)
  <2>1. e \in 1 .. Len(eventViewerInfoList)
    BY EventsRead, GrownDomains
  <2>2. eventViewerInfoList[e] # <<>> /\ eventViewerInfoList'[e] = eventViewerInfoList[e]
    BY <2>1, GrownDomains DEF DeviceInv, Grown
  <2> QED  BY <2>2
<1>4. \A i, j \in DOMAIN usbForensicsDevices : \A e \in Nat :
         AtDevice(i, e) /\ AtDevice(j, e) => i = j
  BY DEF DeviceInv
<1> QED  BY <1>1, <1>2, <1>3, <1>4, Zenon DEF DeviceInv, AtDevice

LEMMA DevicesGain ==
    ASSUME MatchTypeOK, DeviceInv, NEW names, Grown(names), names # <<>>,
           NEW d \in DOMAIN usbForensicsDevices,
           usbForensicsDevices' =
               [usbForensicsDevices EXCEPT ![d] = [usbForensicsDevices[d] EXCEPT
                   !.events = Append(@, Len(eventViewerInfoList) + 1)]]
    PROVE  /\ DeviceInv'
           /\ usbForensicsDevices' \in Seq(UsbDevice)
           /\ DOMAIN usbForensicsDevices' = DOMAIN usbForensicsDevices
           /\ \A i \in DOMAIN usbForensicsDevices :
                 usbForensicsDevices'[i].key = usbForensicsDevices[i].key
           /\ \A i \in DOMAIN usbForensicsDevices : \A e \in Nat :
                 AtDevice(i, e)' <=>
                     AtDevice(i, e) \/ (i = d /\ e = Len(eventViewerInfoList) + 1)
<1> DEFINE n == Len(eventViewerInfoList)
           D == DOMAIN usbForensicsDevices
           t == Append(usbForensicsDevices[d].events, n + 1)
           gains == [usbForensicsDevices[d] EXCEPT !.events = t]
<1>1. /\ n \in Nat /\ n + 1 \in Nat
      /\ \A i \in D : usbForensicsDevices[i] \in UsbDevice
      /\ \A i \in D : usbForensicsDevices[i].events \in Seq(Nat)
      /\ \A i \in D : InOrder(usbForensicsDevices[i].events)
      /\ \A i \in D : \A e \in Nat : AtDevice(i, e) => e \in 1 .. n
  BY GrownDomains, EventsRead DEF DeviceInv
<1>2. /\ t \in Seq(Nat)
      /\ \A j \in DOMAIN t : t[j] \in 1 .. n + 1
      /\ \A j, k \in DOMAIN t : j < k => t[j] < t[k]
      /\ \A e \in Nat : Contains(t, e) <=> Contains(usbForensicsDevices[d].events, e) \/ e = n + 1
  <2>1. /\ \A j \in DOMAIN usbForensicsDevices[d].events : usbForensicsDevices[d].events[j] \in 1 .. n
        /\ \A j, k \in DOMAIN usbForensicsDevices[d].events :
              j < k => usbForensicsDevices[d].events[j] < usbForensicsDevices[d].events[k]
    BY <1>1 DEF InOrder
  <2> QED  BY <1>1, <2>1, AppendedEvents
<1> HIDE DEF t
<1>3. gains \in UsbDevice /\ gains.key = usbForensicsDevices[d].key /\ gains.events = t
  BY <1>1, <1>2 DEF UsbDevice
<1>4. /\ usbForensicsDevices' \in Seq(UsbDevice)
      /\ DOMAIN usbForensicsDevices' = D
      /\ \A i \in D : usbForensicsDevices'[i] = IF i = d THEN gains ELSE usbForensicsDevices[i]
  <2>1. usbForensicsDevices \in Seq(UsbDevice) /\ D = 1 .. Len(usbForensicsDevices)
    BY LenProperties DEF MatchTypeOK
  <2>2. usbForensicsDevices' = [usbForensicsDevices EXCEPT ![d] = gains]
    BY DEF t
  <2>3. d \in 1 .. Len(usbForensicsDevices) /\ gains \in UsbDevice
    BY <1>3, <2>1
  <2> HIDE DEF gains
  <2>4. /\ [usbForensicsDevices EXCEPT ![d] = gains] \in Seq(UsbDevice)
        /\ Len([usbForensicsDevices EXCEPT ![d] = gains]) = Len(usbForensicsDevices)
    BY <2>1, <2>3, ExceptSeq
  <2> QED  BY <2>1, <2>2, <2>4
<1>5. /\ \A i \in D : usbForensicsDevices'[i].key = usbForensicsDevices[i].key
      /\ \A i \in D : usbForensicsDevices'[i].events =
                          IF i = d THEN t ELSE usbForensicsDevices[i].events
  BY <1>3, <1>4
<1> HIDE DEF gains
<1>6. \A i \in D : \A e \in Nat : AtDevice(i, e)' <=> AtDevice(i, e) \/ (i = d /\ e = n + 1)
  BY <1>2, <1>5 DEF AtDevice
<1>7. \A i \in D : InOrder(usbForensicsDevices[i].events)'
  <2> TAKE i \in D
  <2>1. CASE i = d
    <3>1. Len(eventViewerInfoList') = n + 1
      BY GrownDomains
    <3>2. usbForensicsDevices'[i].events = t
      BY <1>5, <2>1
    <3> QED  BY <1>2, <3>1, <3>2 DEF InOrder
  <2>2. CASE i # d
    <3>1. usbForensicsDevices'[i].events = usbForensicsDevices[i].events
      BY <1>5, <2>2
    <3>2. \A s : InOrder(s) => InOrder(s)'
      BY OrderStays
    <3> QED  BY <1>1, <3>1, <3>2 DEF InOrder
  <2> QED  BY <2>1, <2>2
<1>8. \A i, j \in D : \A e \in Nat : AtDevice(i, e)' /\ AtDevice(j, e)' => i = j
  <2> TAKE i, j \in D
  <2> TAKE e \in Nat
  <2>1. CASE e = n + 1
    <3>1. ~AtDevice(i, e) /\ ~AtDevice(j, e)
      BY <1>1, <2>1
    <3> QED  BY <1>6, <3>1
  <2>2. CASE e # n + 1
    BY <1>6, <2>2 DEF DeviceInv
  <2> QED  BY <2>1, <2>2
<1>9. \A i \in D : \A e \in DOMAIN eventViewerInfoList' :
         AtDevice(i, e)' => eventViewerInfoList'[e] # <<>>
  <2> TAKE i \in D
  <2> TAKE e \in DOMAIN eventViewerInfoList'
  <2>1. e \in Nat /\ (e \in 1 .. n \/ e = n + 1)
    BY GrownDomains
  <2>2. CASE e = n + 1
    BY <2>2 DEF Grown
  <2>3. CASE e \in 1 .. n /\ e # n + 1
    <3>1. eventViewerInfoList'[e] = eventViewerInfoList[e] /\ e \in DOMAIN eventViewerInfoList
      BY <2>3, GrownDomains DEF Grown
    <3> QED  BY <1>6, <2>1, <2>3, <3>1 DEF DeviceInv
  <2> QED  BY <2>1, <2>2, <2>3
<1>10. DeviceInv'
  BY <1>4, <1>7, <1>8, <1>9, Zenon DEF DeviceInv
<1> QED  BY <1>4, <1>5, <1>6, <1>10

LEMMA GroupsKept ==
    ASSUME MatchTypeOK, GroupInv, NEW names, Grown(names), orphanGroups' = orphanGroups
    PROVE  /\ GroupInv'
           /\ \A k \in Keys : \A e \in Nat : InGroup(k, e)' <=> InGroup(k, e)
<1>1. \A k \in Keys : \A e \in Nat : InGroup(k, e)' <=> InGroup(k, e)
  BY DEF InGroup
<1>2. \A k \in Keys : InOrder(orphanGroups[k])'
  <2>1. \A s : InOrder(s) => InOrder(s)'
    BY OrderStays
  <2>2. \A k \in Keys : InOrder(orphanGroups[k])
    BY DEF GroupInv
  <2> QED  BY <2>1, <2>2 DEF InOrder
<1>3. \A k \in Keys : \A e \in DOMAIN eventViewerInfoList' :
         InGroup(k, e) => eventViewerInfoList'[e] # <<>>
  <2> TAKE k \in Keys
  <2> TAKE e \in DOMAIN eventViewerInfoList'
  <2> HAVE InGroup(k, e)
  <2>1. e \in 1 .. Len(eventViewerInfoList)
    BY EventsRead, GrownDomains
  <2>2. eventViewerInfoList[e] # <<>> /\ eventViewerInfoList'[e] = eventViewerInfoList[e]
    BY <2>1, GrownDomains DEF GroupInv, Grown
  <2> QED  BY <2>2
<1>4. \A k, l \in Keys : \A e \in Nat : InGroup(k, e) /\ InGroup(l, e) => k = l
  BY DEF GroupInv
<1> QED  BY <1>1, <1>2, <1>3, <1>4, Zenon DEF GroupInv, InGroup

LEMMA GroupsGain ==
    ASSUME MatchTypeOK, GroupInv, NEW names, Grown(names), names # <<>>,
           NEW g \in Keys,
           orphanGroups' = [orphanGroups EXCEPT ![g] = Append(@, Len(eventViewerInfoList) + 1)]
    PROVE  /\ GroupInv'
           /\ orphanGroups' \in [Keys -> Seq(Nat)]
           /\ \A k \in Keys : \A e \in Nat :
                 InGroup(k, e)' <=> InGroup(k, e) \/ (k = g /\ e = Len(eventViewerInfoList) + 1)
<1> DEFINE n == Len(eventViewerInfoList)
           t == Append(orphanGroups[g], n + 1)
<1>1. /\ n \in Nat /\ n + 1 \in Nat
      /\ orphanGroups \in [Keys -> Seq(Nat)]
      /\ \A k \in Keys : orphanGroups[k] \in Seq(Nat)
      /\ \A k \in Keys : InOrder(orphanGroups[k])
      /\ \A k \in Keys : \A e \in Nat : InGroup(k, e) => e \in 1 .. n
  BY GrownDomains, EventsRead DEF GroupInv, MatchTypeOK
<1>2. /\ t \in Seq(Nat)
      /\ \A j \in DOMAIN t : t[j] \in 1 .. n + 1
      /\ \A j, k \in DOMAIN t : j < k => t[j] < t[k]
      /\ \A e \in Nat : Contains(t, e) <=> Contains(orphanGroups[g], e) \/ e = n + 1
  <2>1. /\ \A j \in DOMAIN orphanGroups[g] : orphanGroups[g][j] \in 1 .. n
        /\ \A j, k \in DOMAIN orphanGroups[g] : j < k => orphanGroups[g][j] < orphanGroups[g][k]
    BY <1>1 DEF InOrder
  <2> QED  BY <1>1, <2>1, AppendedEvents
<1> HIDE DEF t
<1>3. /\ orphanGroups' \in [Keys -> Seq(Nat)]
      /\ \A k \in Keys : orphanGroups'[k] = IF k = g THEN t ELSE orphanGroups[k]
  BY <1>1, <1>2 DEF t
<1>4. \A k \in Keys : \A e \in Nat : InGroup(k, e)' <=> InGroup(k, e) \/ (k = g /\ e = n + 1)
  BY <1>2, <1>3 DEF InGroup
<1>5. \A k \in Keys : InOrder(orphanGroups[k])'
  <2> TAKE k \in Keys
  <2>1. CASE k = g
    <3>1. Len(eventViewerInfoList') = n + 1
      BY GrownDomains
    <3>2. orphanGroups'[k] = t
      BY <1>3, <2>1
    <3> QED  BY <1>2, <3>1, <3>2 DEF InOrder
  <2>2. CASE k # g
    <3>1. orphanGroups'[k] = orphanGroups[k]
      BY <1>3, <2>2
    <3>2. \A s : InOrder(s) => InOrder(s)'
      BY OrderStays
    <3> QED  BY <1>1, <3>1, <3>2 DEF InOrder
  <2> QED  BY <2>1, <2>2
<1>6. \A k, l \in Keys : \A e \in Nat : InGroup(k, e)' /\ InGroup(l, e)' => k = l
  <2> TAKE k, l \in Keys
  <2> TAKE e \in Nat
  <2>1. CASE e = n + 1
    <3>1. ~InGroup(k, e) /\ ~InGroup(l, e)
      BY <1>1, <2>1
    <3> QED  BY <1>4, <3>1
  <2>2. CASE e # n + 1
    BY <1>4, <2>2 DEF GroupInv
  <2> QED  BY <2>1, <2>2
<1>7. \A k \in Keys : \A e \in DOMAIN eventViewerInfoList' :
         InGroup(k, e)' => eventViewerInfoList'[e] # <<>>
  <2> TAKE k \in Keys
  <2> TAKE e \in DOMAIN eventViewerInfoList'
  <2>1. e \in Nat /\ (e \in 1 .. n \/ e = n + 1)
    BY GrownDomains
  <2>2. CASE e = n + 1
    BY <2>2 DEF Grown
  <2>3. CASE e \in 1 .. n /\ e # n + 1
    <3>1. eventViewerInfoList'[e] = eventViewerInfoList[e] /\ e \in DOMAIN eventViewerInfoList
      BY <2>3, GrownDomains DEF Grown
    <3> QED  BY <1>4, <2>1, <2>3, <3>1 DEF GroupInv
  <2> QED  BY <2>1, <2>2, <2>3
<1>8. GroupInv'
  BY <1>5, <1>6, <1>7, Zenon DEF GroupInv
<1> QED  BY <1>3, <1>4, <1>8

\* The next event has gone to the devices of ds and to the groups of gs.
GoneTo(names, ds, gs) ==
    /\ DeviceInv' /\ GroupInv'
    /\ DOMAIN usbForensicsDevices' = DOMAIN usbForensicsDevices
    /\ \A i \in DOMAIN usbForensicsDevices :
          usbForensicsDevices'[i].key = usbForensicsDevices[i].key
    /\ ds = {} \/ gs = {}
    /\ \A i \in DOMAIN usbForensicsDevices : \A e \in Nat :
          AtDevice(i, e)' <=>
              AtDevice(i, e) \/ (i \in ds /\ e = Len(eventViewerInfoList) + 1)
    /\ \A k \in Keys : \A e \in Nat :
          InGroup(k, e)' <=>
              InGroup(k, e) \/ (k \in gs /\ e = Len(eventViewerInfoList) + 1)
    /\ names # <<>> =>
          \/ ds # {} \/ gs # {}
          \/ /\ KeyOf(names[1]) = NoSerial
             /\ \E i \in DOMAIN usbForensicsDevices : usbForensicsDevices[i].key = NoSerial

LEMMA PlacesGrow ==
    ASSUME MatchTypeOK, PlaceInv, stage = "match", UNCHANGED <<stage, setupAPIInfoList>>,
           NEW names, Grown(names),
           NEW ds \in SUBSET DOMAIN usbForensicsDevices, NEW gs \in SUBSET Keys,
           GoneTo(names, ds, gs)
    PROVE  PlaceInv'
<1> DEFINE n == Len(eventViewerInfoList)
           D == DOMAIN usbForensicsDevices
<1> USE DEF GoneTo
<1>1. \A i \in D : \A k \in Keys : \A e \in Nat : ~(AtDevice(i, e)' /\ InGroup(k, e)')
  <2> SUFFICES ASSUME NEW i \in D, NEW k \in Keys, NEW e \in Nat, AtDevice(i, e)', InGroup(k, e)'
               PROVE  FALSE
    OBVIOUS
  <2>1. CASE e = n + 1
    <3>1. e \notin 1 .. n
      BY <2>1, GrownDomains
    <3>2. ~AtDevice(i, e) /\ ~InGroup(k, e)
      BY <3>1, EventsRead DEF PlaceInv
    <3> QED  BY <3>2
  <2>2. CASE e # n + 1
    BY <2>2 DEF PlaceInv
  <2> QED  BY <2>1, <2>2
<1>2. /\ D = DOMAIN setupAPIInfoList
      /\ \A i \in D : usbForensicsDevices[i].key = setupAPIInfoList[i].serial
  BY DEF PlaceInv
<1>3. ASSUME NEW e \in 1 .. n
      PROVE  \/ eventViewerInfoList'[e] = <<>>
             \/ \E i \in D : AtDevice(i, e)'
             \/ \E k \in Keys : InGroup(k, e)'
             \/ MayDrop(e)'
  <2>1. /\ e \in Nat /\ e \in DOMAIN eventViewerInfoList
        /\ eventViewerInfoList'[e] = eventViewerInfoList[e]
    BY GrownDomains DEF Grown
  <2>2. CASE eventViewerInfoList[e] = <<>>
    BY <2>1, <2>2
  <2>3. CASE \E i \in D : AtDevice(i, e)
    BY <2>1, <2>3
  <2>4. CASE \E k \in Keys : InGroup(k, e)
    BY <2>1, <2>4
  <2>5. CASE MayDrop(e)
    BY <2>1, <2>5 DEF MayDrop
  <2> QED  BY <2>1, <2>2, <2>3, <2>4, <2>5 DEF PlaceInv
<1> PICK next \in Nat : next = n + 1
  BY GrownDomains
<1>4. \/ eventViewerInfoList'[next] = <<>>
      \/ \E i \in D : AtDevice(i, next)'
      \/ \E k \in Keys : InGroup(k, next)'
      \/ MayDrop(next)'
  <2>1. eventViewerInfoList'[next] = names
    BY DEF Grown
  <2>2. CASE names = <<>>
    BY <2>1, <2>2
  <2>3. CASE ds # {}
    BY <2>1, <2>3
  <2>4. CASE gs # {}
    BY <2>1, <2>4
  <2>5. CASE /\ KeyOf(names[1]) = NoSerial
             /\ \E i \in D : usbForensicsDevices[i].key = NoSerial
    <3>1. \E i \in DOMAIN setupAPIInfoList' : setupAPIInfoList'[i].serial = NoSerial
      BY <1>2, <2>5
    <3> QED  BY <2>1, <2>5, <3>1 DEF MayDrop
  <2> QED  BY <2>1, <2>2, <2>3, <2>4, <2>5
<1>5. \A e \in DOMAIN eventViewerInfoList' : e \in 1 .. n \/ e = next
  BY GrownDomains
<1>6. \A e \in DOMAIN eventViewerInfoList' :
         \/ eventViewerInfoList'[e] = <<>>
         \/ \E i \in D : AtDevice(i, e)'
         \/ \E k \in Keys : InGroup(k, e)'
         \/ MayDrop(e)'
  BY <1>3, <1>4, <1>5, Zenon
<1>7. /\ DOMAIN usbForensicsDevices' = DOMAIN setupAPIInfoList'
      /\ \A i \in DOMAIN usbForensicsDevices' :
            usbForensicsDevices'[i].key = setupAPIInfoList'[i].serial
  BY <1>2
<1> QED  BY <1>1, <1>6, <1>7, Zenon DEF PlaceInv

LEMMA EventStep ==
    ASSUME MatchTypeOK, PlaceInv, NEW names \in EventNames, matchEvent(names)
    PROVE  MatchTypeOK' /\ PlaceInv'
<1> DEFINE n == Len(eventViewerInfoList)
           dev == usbForensicsDevices
<1>1. /\ stage = "match"
      /\ UNCHANGED <<stage, setupAPIInfoList>>
  BY DEF matchEvent, parseVars
<1>2. Grown(names)
  BY EventGoes DEF Grown
<1>3. DeviceInv /\ GroupInv
  BY DEF PlaceInv
<1>4. /\ orphanGroups \in [Keys -> Seq(Nat)]
      /\ dev \in Seq(UsbDevice)
      /\ eventViewerInfoList' \in Seq(EventNames)
  BY EventGoes DEF MatchTypeOK
<1>5. CASE \E d \in DOMAIN dev :
              /\ names # <<>>
              /\ usbForensicsDevices' =
                    [dev EXCEPT ![d] = [dev[d] EXCEPT !.events = Append(@, n + 1)]]
              /\ orphanGroups' = orphanGroups
  <2>1. PICK d \in DOMAIN dev :
              /\ names # <<>>
              /\ usbForensicsDevices' =
                    [dev EXCEPT ![d] = [dev[d] EXCEPT !.events = Append(@, n + 1)]]
              /\ orphanGroups' = orphanGroups
    BY <1>5
  <2>2. /\ DeviceInv'
        /\ usbForensicsDevices' \in Seq(UsbDevice)
        /\ DOMAIN usbForensicsDevices' = DOMAIN dev
        /\ \A i \in DOMAIN dev : usbForensicsDevices'[i].key = dev[i].key
        /\ \A i \in DOMAIN dev : \A e \in Nat :
              AtDevice(i, e)' <=> AtDevice(i, e) \/ (i = d /\ e = n + 1)
    BY <1>2, <1>3, <2>1, DevicesGain
  <2>3. /\ GroupInv'
        /\ \A k \in Keys : \A e \in Nat : InGroup(k, e)' <=> InGroup(k, e)
    BY <1>2, <1>3, <2>1, GroupsKept
  <2>4. {d} \in SUBSET DOMAIN dev /\ {} \in SUBSET Keys /\ {d} # {}
    OBVIOUS
  <2>5. GoneTo(names, {d}, {})
    BY <2>2, <2>3, <2>4 DEF GoneTo
  <2>6. PlaceInv'
    BY <1>1, <1>2, <2>4, <2>5, PlacesGrow
  <2> QED  BY <1>4, <2>1, <2>2, <2>6 DEF MatchTypeOK
<1>6. CASE /\ names # <<>>
           /\ KeyOf(names[1]) \in Keys
           /\ usbForensicsDevices' = dev
           /\ orphanGroups' = [orphanGroups EXCEPT ![KeyOf(names[1])] = Append(@, n + 1)]
  <2>1. PICK g \in Keys : g = KeyOf(names[1])
    BY <1>6
  <2>2. /\ GroupInv'
        /\ orphanGroups' \in [Keys -> Seq(Nat)]
        /\ \A k \in Keys : \A e \in Nat :
              InGroup(k, e)' <=> InGroup(k, e) \/ (k = g /\ e = n + 1)
    BY <1>2, <1>3, <1>6, <2>1, GroupsGain
  <2>3. /\ DeviceInv'
        /\ \A i \in DOMAIN dev : \A e \in Nat : AtDevice(i, e)' <=> AtDevice(i, e)
    BY <1>2, <1>3, <1>6, DevicesKept
  <2>4. {} \in SUBSET DOMAIN dev /\ {g} \in SUBSET Keys /\ {g} # {}
    OBVIOUS
  <2>5. GoneTo(names, {}, {g})
    BY <1>6, <2>2, <2>3, <2>4 DEF GoneTo
  <2>6. PlaceInv'
    BY <1>1, <1>2, <2>4, <2>5, PlacesGrow
  <2> QED  BY <1>4, <1>6, <2>2, <2>6 DEF MatchTypeOK
<1>7. CASE /\ usbForensicsDevices' = dev
           /\ orphanGroups' = orphanGroups
           /\ names # <<>> =>
                 /\ KeyOf(names[1]) = NoSerial
                 /\ \E i \in DOMAIN dev : dev[i].key = NoSerial
  <2>1. /\ GroupInv'
        /\ \A k \in Keys : \A e \in Nat : InGroup(k, e)' <=> InGroup(k, e)
    BY <1>2, <1>3, <1>7, GroupsKept
  <2>2. /\ DeviceInv'
        /\ \A i \in DOMAIN dev : \A e \in Nat : AtDevice(i, e)' <=> AtDevice(i, e)
    BY <1>2, <1>3, <1>7, DevicesKept
  <2>3. {} \in SUBSET DOMAIN dev /\ {} \in SUBSET Keys
    OBVIOUS
  <2>4. GoneTo(names, {}, {})
    BY <1>7, <2>1, <2>2 DEF GoneTo
  <2>5. PlaceInv'
    BY <1>1, <1>2, <2>3, <2>4, PlacesGrow
  <2> QED  BY <1>4, <1>7, <2>5 DEF MatchTypeOK
<1> QED  BY <1>5, <1>6, <1>7, EventGoes

-----------------------------------------------------------------------------
(***************************************************************************)
(* The groups become devices                                               *)
(***************************************************************************)

\* The keys of the groups, in any order, each once.
LEMMA GroupsListed ==
    ASSUME NEW K \in SUBSET Keys
    PROVE  /\ SetToSeq(K) \in Seq(K)
           /\ \A k \in K : \E j \in DOMAIN SetToSeq(K) : SetToSeq(K)[j] = k
           /\ \A i, j \in DOMAIN SetToSeq(K) : SetToSeq(K)[i] = SetToSeq(K)[j] => i = j
<1> DEFINE T == {Serial[d] : d \in Device}
           f == [d \in Device |-> Serial[d]]
           c == Cardinality(K)
           g == SetToSeq(K)
<1>1. IsFiniteSet(K)
  <2>1. f \in Surjection(Device, T)
    BY DEF Surjection
  <2>2. IsFiniteSet(T)
    <3> HIDE DEF f, T
    <3> QED  BY <2>1, UsbAssumption, FS_Surjection
  <2>3. IsFiniteSet(Keys)
    BY <2>2, FS_AddElement DEF Keys
  <2> QED  BY <2>3, FS_Subset
<1>2. c \in Nat /\ ExistsBijection(1 .. c, K)
  BY <1>1, FS_CardinalityType
<1>3. \E h \in [1 .. c -> K] : IsInjective(h)
  BY <1>2 DEF ExistsBijection, Bijection, Injection
<1>4. g \in [1 .. c -> K] /\ IsInjective(g)
  BY <1>3 DEF SetToSeq
<1> HIDE DEF g
<1>5. IsFiniteSet(1 .. c) /\ Cardinality(1 .. c) = c
  BY <1>2, FS_Interval
<1>6. g \in Injection(1 .. c, K)
  BY <1>4 DEF Injection
<1>7. g \in Surjection(1 .. c, K)
  <2> HIDE DEF c
  <2>1. Cardinality(1 .. c) = Cardinality(K)
    BY <1>5 DEF c
  <2> QED  BY <1>1, <1>6, <2>1, FS_Injection
<1>8. g \in Seq(K)
  BY <1>2, <1>4
<1>9. DOMAIN g = 1 .. c
  BY <1>4
<1> QED  BY <1>4, <1>7, <1>8, <1>9 DEF IsInjective, Surjection, g

LEMMA CreateStep ==
    ASSUME MatchTypeOK, PlaceInv, createOrphanDevices
    PROVE  MatchTypeOK' /\ PlaceInv'
<1> DEFINE dev == usbForensicsDevices
           K == {k \in Keys : orphanGroups[k] # <<>>}
           groups == SetToSeq(K)
           device(i) == [key |-> groups[i], pid |-> NoPid, source |-> "EventViewer",
                         events |-> orphanGroups[groups[i]]]
           m == Len(dev)
           c == Len(groups)
           orphans == [i \in 1 .. c |-> device(i)]
<1>1. /\ groups \in Seq(K)
      /\ c \in Nat /\ DOMAIN groups = 1 .. c
      /\ \A k \in K : \E j \in 1 .. c : groups[j] = k
      /\ \A i, j \in 1 .. c : groups[i] = groups[j] => i = j
      /\ \A j \in 1 .. c : groups[j] \in K
  <2>1. K \in SUBSET Keys
    OBVIOUS
  <2> HIDE DEF K
  <2> QED  BY <2>1, GroupsListed, LenProperties, ElementOfSeq
<1>2. /\ dev \in Seq(UsbDevice) /\ m \in Nat /\ DOMAIN dev = 1 .. m
      /\ orphanGroups \in [Keys -> Seq(Nat)]
      /\ \A i \in 1 .. m : dev[i].events \in Seq(Nat)
  BY LenProperties, EventsRead DEF MatchTypeOK
<1>3. usbForensicsDevices' = dev \o orphans
  BY <1>1 DEF createOrphanDevices
<1>4. stage = "match" /\ stage' = "done"
      /\ UNCHANGED <<orphanGroups, eventViewerInfoList, setupAPIInfoList>>
  BY DEF createOrphanDevices, parseVars
<1>5. \A j \in 1 .. c : device(j) \in UsbDevice
  <2> TAKE j \in 1 .. c
  <2>1. groups[j] \in Keys /\ orphanGroups[groups[j]] \in Seq(Nat)
    BY <1>1, <1>2
  <2> HIDE DEF groups
  <2> QED  BY <2>1 DEF UsbDevice, Pids
<1>6. /\ orphans \in Seq(UsbDevice)
      /\ Len(orphans) = c
      /\ \A j \in 1 .. c : orphans[j] = device(j)
  <2> HIDE DEF device
  <2>1. orphans \in Seq(UsbDevice)
    BY <1>1, <1>5, IsASeq
  <2>2. Len(orphans) = c
    BY <1>1
  <2> QED  BY <2>1, <2>2
<1> HIDE DEF c, orphans, device
<1>7. /\ usbForensicsDevices' \in Seq(UsbDevice)
      /\ Len(usbForensicsDevices') = m + c
      /\ DOMAIN usbForensicsDevices' = 1 .. m + c
      /\ \A i \in 1 .. m + c : usbForensicsDevices'[i] = IF i <= m THEN dev[i] ELSE orphans[i - m]
  <2>1. /\ dev \o orphans \in Seq(UsbDevice)
        /\ Len(dev \o orphans) = Len(dev) + Len(orphans)
        /\ \A i \in 1 .. Len(dev) + Len(orphans) :
              (dev \o orphans)[i] = IF i <= Len(dev) THEN dev[i] ELSE orphans[i - Len(dev)]
    BY <1>2, <1>6, ConcatProperties
  <2>2. DOMAIN (dev \o orphans) = 1 .. Len(dev \o orphans)
    BY <2>1, LenProperties
  <2> HIDE DEF dev
  <2> QED  BY <1>3, <1>6, <2>1, <2>2
<1>8. MatchTypeOK'
  BY <1>4, <1>7 DEF MatchTypeOK
<1>9. \A i \in 1 .. m : i \in 1 .. m + c /\ usbForensicsDevices'[i].events = dev[i].events
  BY <1>1, <1>2, <1>7
<1>10. \A j \in 1 .. c : /\ m + j \in 1 .. m + c
                         /\ usbForensicsDevices'[m + j].events = orphanGroups[groups[j]]
  <2> TAKE j \in 1 .. c
  <2>1. m + j \in 1 .. m + c /\ ~(m + j <= m) /\ (m + j) - m = j
    BY <1>1, <1>2
  <2>2. usbForensicsDevices'[m + j] = device(j)
    BY <1>6, <1>7, <2>1
  <2> QED  BY <2>1, <2>2 DEF device
<1>11. \A i \in 1 .. m + c : i \in 1 .. m \/ \E j \in 1 .. c : i = m + j
  <2> TAKE i \in 1 .. m + c
  <2>1. i \in 1 .. m \/ (i - m \in 1 .. c /\ i = m + (i - m))
    BY <1>1, <1>2
  <2> QED  BY <2>1
<1> HIDE DEF groups, K, m
<1>12. \A i \in 1 .. m : \A e \in Nat : AtDevice(i, e)' <=> AtDevice(i, e)
  BY <1>9 DEF AtDevice
<1>13. \A j \in 1 .. c : \A i \in 1 .. m + c : i = m + j =>
           \A e \in Nat : AtDevice(i, e)' <=> InGroup(groups[j], e)
  BY <1>10 DEF AtDevice, InGroup
<1>14. DeviceInv /\ GroupInv
  BY DEF PlaceInv
<1>15. \A i \in 1 .. m + c : InOrder(usbForensicsDevices[i].events)'
  <2> TAKE i \in 1 .. m + c
  <2>1. CASE i \in 1 .. m
    <3>1. InOrder(dev[i].events)
      BY <1>2, <1>14, <2>1 DEF DeviceInv
    <3> QED  BY <1>4, <1>9, <2>1, <3>1 DEF InOrder
  <2>2. ASSUME NEW j \in 1 .. c, i = m + j PROVE InOrder(usbForensicsDevices[i].events)'
    <3>1. InOrder(orphanGroups[groups[j]])
      BY <1>1, <1>14 DEF GroupInv, K
    <3> QED  BY <1>4, <1>10, <2>2, <3>1 DEF InOrder
  <2> QED  BY <1>11, <2>1, <2>2
<1>16. \A j \in 1 .. c : groups[j] \in Keys
  BY <1>1 DEF K
<1>17. \A i, l \in 1 .. m + c : \A e \in Nat : AtDevice(i, e)' /\ AtDevice(l, e)' => i = l
  <2> SUFFICES ASSUME NEW i \in 1 .. m + c, NEW l \in 1 .. m + c, NEW e \in Nat,
                      AtDevice(i, e)', AtDevice(l, e)'
               PROVE  i = l
    OBVIOUS
  <2>1. CASE i \in 1 .. m /\ l \in 1 .. m
    BY <1>2, <1>12, <1>14, <2>1 DEF DeviceInv
  <2>2. ASSUME NEW x \in 1 .. m + c, NEW j \in 1 .. c, x = m + j, NEW y \in 1 .. m,
               AtDevice(x, e)', AtDevice(y, e)'
        PROVE  FALSE
    <3>1. InGroup(groups[j], e) /\ AtDevice(y, e)
      BY <1>12, <1>13, <2>2
    <3>2. y \in DOMAIN usbForensicsDevices
      BY <1>2
    <3> QED  BY <1>4, <1>16, <3>1, <3>2 DEF PlaceInv
  <2>3. ASSUME NEW j \in 1 .. c, i = m + j, NEW h \in 1 .. c, l = m + h
        PROVE  i = l
    <3>1. InGroup(groups[j], e) /\ InGroup(groups[h], e)
      BY <1>13, <2>3
    <3>2. groups[j] = groups[h]
      BY <1>14, <1>16, <3>1 DEF GroupInv
    <3> QED  BY <1>1, <2>3, <3>2
  <2> QED  BY <1>11, <2>1, <2>2, <2>3
<1>18. \A i \in 1 .. m + c : \A e \in DOMAIN eventViewerInfoList :
          AtDevice(i, e)' => eventViewerInfoList[e] # <<>>
  <2> SUFFICES ASSUME NEW i \in 1 .. m + c, NEW e \in DOMAIN eventViewerInfoList, AtDevice(i, e)'
               PROVE  eventViewerInfoList[e] # <<>>
    OBVIOUS
  <2>1. e \in Nat
    BY LenProperties DEF MatchTypeOK
  <2>2. CASE i \in 1 .. m
    BY <1>2, <1>12, <1>14, <2>1, <2>2 DEF DeviceInv
  <2>3. ASSUME NEW j \in 1 .. c, i = m + j PROVE eventViewerInfoList[e] # <<>>
    BY <1>13, <1>14, <1>16, <2>1, <2>3 DEF GroupInv
  <2> QED  BY <1>11, <2>2, <2>3
<1>19. DeviceInv'
  BY <1>4, <1>7, <1>15, <1>17, <1>18, Zenon DEF DeviceInv
<1>20. GroupInv'
  BY <1>4, <1>14 DEF GroupInv, InGroup, InOrder
<1>21. \A e \in DOMAIN eventViewerInfoList :
          \/ eventViewerInfoList[e] = <<>>
          \/ \E i \in 1 .. m + c : AtDevice(i, e)'
          \/ MayDrop(e)'
  <2> TAKE e \in DOMAIN eventViewerInfoList
  <2>1. e \in Nat
    BY LenProperties DEF MatchTypeOK
  <2>2. CASE \E i \in DOMAIN usbForensicsDevices : AtDevice(i, e)
    BY <1>2, <1>9, <1>12, <2>1, <2>2
  <2>3. ASSUME NEW k \in Keys, InGroup(k, e)
        PROVE  \E i \in 1 .. m + c : AtDevice(i, e)'
    <3>1. orphanGroups[k] # <<>>
      BY <2>3, EmptySeq DEF InGroup, Contains
    <3>2. PICK j \in 1 .. c : groups[j] = k
      BY <1>1, <3>1 DEF K
    <3>3. PICK i \in 1 .. m + c : i = m + j
      BY <1>10
    <3> QED  BY <1>13, <2>1, <2>3, <3>2, <3>3
  <2>4. CASE MayDrop(e)
    BY <1>4, <2>4 DEF MayDrop
  <2> QED  BY <2>2, <2>3, <2>4, Zenon DEF PlaceInv
<1>22. PlaceInv'
  BY <1>4, <1>7, <1>19, <1>20, <1>21, Zenon DEF PlaceInv
<1> QED  BY <1>8, <1>22

-----------------------------------------------------------------------------
(***************************************************************************)
(* The invariant                                                           *)
(***************************************************************************)

LEMMA NothingInEmpty == \A e : ~Contains(<<>>, e)
BY EmptySeq DEF Contains

LEMMA InitPlace == Init => PlaceInv
<1> SUFFICES ASSUME Init PROVE PlaceInv
  OBVIOUS
<1>1. /\ stage = "parse" /\ usbForensicsDevices = <<>> /\ eventViewerInfoList = <<>>
      /\ orphanGroups = [k \in Keys |-> <<>>]
  BY DEF Init
<1>2. DeviceInv /\ GroupInv
  BY <1>1, NothingInEmpty DEF DeviceInv, GroupInv, AtDevice, InGroup, InOrder
<1> QED  BY <1>1, <1>2 DEF PlaceInv

LEMMA ParsePlace ==
    ASSUME PlaceInv, stage = "parse", UNCHANGED <<stage, matchVars>>
    PROVE  PlaceInv'
<1>1. UNCHANGED <<stage, usbForensicsDevices, orphanGroups, eventViewerInfoList>>
  BY DEF matchVars
<1>2. eventViewerInfoList = <<>> /\ DeviceInv /\ GroupInv
  BY DEF PlaceInv
<1>3. DeviceInv' /\ GroupInv'
  BY <1>1, <1>2 DEF DeviceInv, GroupInv, AtDevice, InGroup, InOrder
<1> QED  BY <1>1, <1>2, <1>3 DEF PlaceInv

LEMMA EndPlace ==
    ASSUME ParseTypeOK, MatchTypeOK, PlaceInv, endOfFile
    PROVE  PlaceInv'
<1>1. /\ stage = "parse" /\ stage' = "match"
      /\ UNCHANGED <<orphanGroups, eventViewerInfoList>>
  BY DEF endOfFile
<1>2. /\ eventViewerInfoList = <<>> /\ orphanGroups = [k \in Keys |-> <<>>]
  BY <1>1 DEF PlaceInv
<1>3. /\ DOMAIN usbForensicsDevices' = DOMAIN setupAPIInfoList'
      /\ \A i \in DOMAIN usbForensicsDevices' :
            /\ usbForensicsDevices'[i].key = setupAPIInfoList'[i].serial
            /\ usbForensicsDevices'[i].events = <<>>
  BY EndTypes
<1>4. \A i \in DOMAIN usbForensicsDevices' : \A e : ~AtDevice(i, e)'
  BY <1>3, NothingInEmpty DEF AtDevice
<1>5. \A k \in Keys : \A e : ~InGroup(k, e)'
  BY <1>1, <1>2, NothingInEmpty DEF InGroup
<1>6. DeviceInv'
  BY <1>3, <1>4 DEF DeviceInv, InOrder
<1>7. GroupInv'
  BY <1>1, <1>2, <1>5 DEF GroupInv, InOrder
<1>8. DOMAIN eventViewerInfoList' = {} /\ stage' # "parse"
  BY <1>1, <1>2
<1> QED  BY <1>3, <1>4, <1>6, <1>7, <1>8, Zenon DEF PlaceInv

LEMMA InitIInv == Init => IInv
BY InitTypeOK, InitParse, InitPlace DEF IInv

LEMMA NextIInv == IInv /\ [Next]_vars => IInv'
<1> SUFFICES ASSUME IInv, [Next]_vars PROVE IInv'
  OBVIOUS
<1> USE DEF IInv, TypeOK
<1>1. CASE UNCHANGED vars
  <2>1. UNCHANGED <<stage, parseVars, matchVars>>
    BY <1>1 DEF vars
  <2>2. TypeOK'
    BY <2>1 DEF ParseTypeOK, MatchTypeOK, parseVars, matchVars
  <2>3. SectionInv' /\ FitInv' /\ OwedInv'
    BY <2>1 DEF SectionInv, FitInv, Fits, OwedInv, Owed, Listed, parseVars
  <2>4. PlaceInv'
    <3>1. UNCHANGED <<stage, usbForensicsDevices, orphanGroups, eventViewerInfoList,
                      setupAPIInfoList>>
      BY <2>1 DEF parseVars, matchVars
    <3>2. /\ \A i, e : AtDevice(i, e)' <=> AtDevice(i, e)
          /\ \A k, e : InGroup(k, e)' <=> InGroup(k, e)
          /\ \A e : MayDrop(e)' <=> MayDrop(e)
      BY <3>1 DEF AtDevice, InGroup, MayDrop
    <3>3. DeviceInv' /\ GroupInv'
      BY <3>1 DEF PlaceInv, DeviceInv, GroupInv, AtDevice, InGroup, InOrder
    <3> QED  BY <3>1, <3>2, <3>3 DEF PlaceInv
  <2> QED  BY <2>2, <2>3, <2>4
<1>2. ASSUME NEW line \in Line, readSectionLine(line) PROVE IInv'
  <2>1. stage = "parse" /\ UNCHANGED <<stage, matchVars>> /\ setupAPIInfoList' = Recorded
    BY <1>2 DEF readSectionLine
  <2>2. ParseTypeOK' /\ MatchTypeOK' /\ stage' = "parse"
    BY <1>2, <2>1, SectionLineTypes DEF MatchTypeOK, matchVars
  <2>3. SectionInv'
    BY <1>2, <2>1, SectionLineInv
  <2>4. /\ \A s \in 1 .. Len(log) : log'[s] = log[s]
        /\ Len(log') \in {Len(log), Len(log) + 1}
        /\ Len(log') = Len(log) + 1 <=> afterHeader'
        /\ Len(log') >= Len(log)
    <3>1. Len(log) \in Nat
      BY LenProperties DEF ParseTypeOK
    <3>2. Len(log) # Len(log) + 1
      BY <3>1
    <3>3. CASE line.kind = "header"
      <4>1. Len(log') = Len(log) + 1 /\ \A s \in 1 .. Len(log) : log'[s] = log[s]
        BY <1>2, <3>3, SectionBegins
      <4>2. afterHeader'
        BY <1>2, <3>3, Zenon DEF readSectionLine
      <4> QED  BY <3>1, <4>1, <4>2
    <3>4. CASE line.kind = "start" /\ afterHeader
      <4>1. log' = log /\ ~afterHeader'
        BY <1>2, <3>4, SectionBegins DEF readSectionLine
      <4> QED  BY <3>1, <3>2, <4>1
    <3> QED  BY <1>2, <3>3, <3>4, SectionBegins
  <2>5. FitInv'
    <3>1. Len(log) \in Nat /\ Len(log) # Len(log) + 1
      BY LenProperties DEF ParseTypeOK
    <3> QED  BY <2>1, <2>2, <2>4, <3>1, FitStep
  <2>6. OwedInv'
    BY <2>1, <2>2, <2>4, OwedStep
  <2>7. PlaceInv'
    BY <2>1, ParsePlace
  <2> QED  BY <2>2, <2>3, <2>5, <2>6, <2>7
<1>3. ASSUME NEW line \in Line, readLine(line) PROVE IInv'
  <2>1. /\ stage = "parse" /\ UNCHANGED <<stage, matchVars>>
        /\ UNCHANGED <<setupAPIInfoList, afterHeader>>
    BY <1>3 DEF readLine
  <2>2. ParseTypeOK' /\ MatchTypeOK' /\ stage' = "parse"
    BY <1>3, <2>1, LineTypes DEF MatchTypeOK, matchVars
  <2>3. SectionInv'
    BY <1>3, LineInv
  <2>4. /\ Len(log') = Len(log) /\ Len(log) \in Nat
        /\ \A s \in 1 .. Len(log) :
              /\ log'[s].boot = log[s].boot \/ (afterHeader /\ s = Len(log))
              /\ log'[s].owed = log[s].owed /\ log'[s].header = log[s].header
              /\ log[s].serials \subseteq log'[s].serials
    BY <1>3, LineKeepsLog, LenProperties DEF ParseTypeOK
  <2>5. Len(log') >= Len(log) /\ Len(log') # Len(log) + 1
    BY <2>4
  <2>6. FitInv'
    BY <2>1, <2>2, <2>4, <2>5, FitStep
  <2>7. OwedInv'
    BY <2>1, <2>2, <2>4, <2>5, OwedStep
  <2>8. PlaceInv'
    BY <2>1, ParsePlace
  <2> QED  BY <2>2, <2>3, <2>6, <2>7, <2>8
<1>4. CASE endOfFile
  <2>1. /\ stage = "parse" /\ stage' = "match" /\ log' = log /\ setupAPIInfoList' = Recorded
        /\ ~afterHeader'
    BY <1>4 DEF endOfFile
  <2>2. ParseTypeOK' /\ MatchTypeOK'
    BY <1>4, EndTypes
  <2>3. Len(log) \in Nat /\ Len(log') >= Len(log) /\ Len(log') # Len(log) + 1
    BY <2>1, LenProperties DEF ParseTypeOK
  <2>4. SectionInv'
    BY <1>4, EndInv
  <2>5. FitInv'
    BY <2>1, <2>2, <2>3, FitStep
  <2>6. OwedInv'
    BY <2>1, <2>2, <2>3, OwedStep
  <2>7. PlaceInv'
    BY <1>4, EndPlace
  <2> QED  BY <2>1, <2>2, <2>4, <2>5, <2>6, <2>7
<1>5. ASSUME NEW names \in EventNames, matchEvent(names) PROVE IInv'
  <2>1. stage = "match" /\ UNCHANGED <<stage, parseVars>>
    BY <1>5 DEF matchEvent
  <2>2. ParseTypeOK' /\ SectionInv' /\ FitInv' /\ OwedInv'
    BY <2>1 DEF ParseTypeOK, SectionInv, FitInv, Fits, OwedInv, Owed, Listed, parseVars
  <2> QED  BY <1>5, <2>1, <2>2, EventStep
<1>6. CASE createOrphanDevices
  <2>1. stage = "match" /\ stage' = "done" /\ UNCHANGED parseVars
    BY <1>6 DEF createOrphanDevices
  <2>2. ParseTypeOK' /\ SectionInv' /\ FitInv' /\ OwedInv'
    BY <2>1 DEF ParseTypeOK, SectionInv, FitInv, Fits, OwedInv, Owed, Listed, parseVars
  <2> QED  BY <1>6, <2>1, <2>2, CreateStep
<1> QED  BY <1>1, <1>2, <1>3, <1>4, <1>5, <1>6 DEF Next, EventNames

-----------------------------------------------------------------------------
(***************************************************************************)
(* Theorems                                                                *)
(***************************************************************************)

\* The invariant holds, for any devices and any number of lines and events.
THEOREM Spec_IInv == Spec => []IInv
BY InitIInv, NextIInv, PTL DEF Spec

\* The parser's and the matcher's variables keep their types; a key is the serial
\* of a device, or none.
THEOREM Spec_TypeOK == Spec => []TypeOK
<1>1. IInv => TypeOK
  BY DEF IInv
<1> QED  BY <1>1, Spec_IInv, PTL

\* A record tells of one section: its serial is named in it, its time is its own.
THEOREM Spec_RecordsFitLog == Spec => []RecordsFitLog
<1>1. IInv => RecordsFitLog
  BY DEF IInv, FitInv, Fits, RecordsFitLog
<1> QED  BY <1>1, Spec_IInv, PTL

\* A storage device that a header names, with no excluded word, is on the list with
\* its serial when the file has been read, if it has one or a boot line before it.
THEOREM Spec_NoStorageLost == Spec => []NoStorageLost
<1>1. IInv => NoStorageLost
  BY DEF IInv, OwedInv, Owed, Listed, SectionInv, NoStorageLost
<1> QED  BY <1>1, Spec_IInv, PTL

\* An event that names a device is in the list of one device, and dropped only if
\* its name gives no serial and the log has a device without one.
THEOREM Spec_EventsPlaced == Spec => []EventsPlaced
<1>1. ASSUME IInv, stage = "done" PROVE EventsPlaced
  <2>1. DeviceInv /\ DOMAIN eventViewerInfoList \subseteq Nat
    BY <1>1, LenProperties DEF IInv, PlaceInv, TypeOK, MatchTypeOK
  <2>2. \A i \in DOMAIN usbForensicsDevices :
           LET e == usbForensicsDevices[i].events
           IN  \A j, k \in DOMAIN e : j < k => e[j] < e[k]
    BY <2>1 DEF DeviceInv, InOrder
  <2>3. ASSUME NEW e \in DOMAIN eventViewerInfoList
        PROVE  LET owners == {i \in DOMAIN usbForensicsDevices :
                                 Contains(usbForensicsDevices[i].events, e)}
                   names == eventViewerInfoList[e]
               IN  /\ Cardinality(owners) <= 1
                   /\ names = <<>> => owners = {}
                   /\ names # <<>> /\ owners = {} =>
                         /\ KeyOf(names[1]) = NoSerial
                         /\ \E i \in DOMAIN setupAPIInfoList :
                               setupAPIInfoList[i].serial = NoSerial
    <3> DEFINE owners == {i \in DOMAIN usbForensicsDevices :
                             Contains(usbForensicsDevices[i].events, e)}
    <3>1. \A i \in DOMAIN usbForensicsDevices : i \in owners <=> AtDevice(i, e)
      BY DEF AtDevice
    <3>2. owners \subseteq DOMAIN usbForensicsDevices
      OBVIOUS
    <3> HIDE DEF owners
    <3>3. \A i, j \in owners : i = j
      BY <2>1, <3>1, <3>2 DEF DeviceInv
    <3>4. owners = {} \/ \E i : owners = {i}
      BY <3>3
    <3>5. Cardinality(owners) <= 1
      <4>1. Cardinality({}) = 0 /\ \A i : Cardinality({i}) = 1
        BY FS_EmptySet, FS_Singleton
      <4>2. Cardinality(owners) \in {0, 1}
        BY <3>4, <4>1, Zenon
      <4> QED  BY <4>2
    <3>6. eventViewerInfoList[e] = <<>> => owners = {}
      BY <2>1, <3>1, <3>2 DEF DeviceInv
    <3>7. eventViewerInfoList[e] # <<>> /\ owners = {} => MayDrop(e)
      BY <1>1, <3>1 DEF IInv, PlaceInv
    <3> QED  BY <3>5, <3>6, <3>7 DEF MayDrop, owners
  <2> QED  BY <2>2, <2>3 DEF EventsPlaced
<1>2. stage # "done" => EventsPlaced
  BY DEF EventsPlaced
<1>3. IInv => EventsPlaced
  BY <1>1, <1>2
<1> QED  BY <1>3, Spec_IInv, PTL

=============================================================================
