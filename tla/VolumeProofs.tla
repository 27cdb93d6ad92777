---------------------------- MODULE VolumeProofs ----------------------------
(***************************************************************************)
(* Theorems about format, the luks commands, nuke and entropise, for any   *)
(* passphrases, keyslots and drives, and any number of changes by others.  *)
(***************************************************************************)
EXTENDS Volume, TLAPS

-----------------------------------------------------------------------------
(***************************************************************************)
(* The inductive invariant.                                                *)
(***************************************************************************)
\* A header that opens volume v.
Good(h, v) == h # NoHeader /\ h.vol = v /\ Used(h) # {}
SomeGood(v) == \E h \in {header, file} : Good(h, v)

\* A command works with a passphrase that has been entered.
Entered ==
    /\ pc \in {"f_luks", "f_verify", "f_open", "k_add", "k_remove", "k_convert"} => phrase \in Phrases
    /\ pc = "k_add" => new \in Phrases

\* What is unlinked is a header that no data depend on.
Detached ==
    /\ pc \in FormatPCs /\ detached /\ ~created => file = NoHeader \/ gaveUp
    /\ pc \in {"f_verify", "f_open", "f_mkfs"} /\ detached => created

\* The filesystem that mkfs is about to make can be opened again.
MapperKept == pc = "f_mkfs" /\ mapper # Plain => SomeGood(mapper)

\* A drive that sanitizes is not being formatted.
Quiet == pc \in FormatPCs => sanitize # "running"

\* KeyKept, of headers with a key.
DataKept == readable /\ payload # Plain /\ ~gaveUp => SomeGood(payload)

KeyInv == Entered /\ Detached /\ MapperKept /\ Quiet /\ DataKept

IsGone == ~readable /\ payload = Plain /\ header = NoHeader

\* What nuke has done when it comes to report it.
EraseInv ==
    /\ pc # "idle" => outcome = "none"
    /\ pc = "e_poll" /\ sanitize = "done" => IsGone
    /\ erased => pc = "e_disable" /\ IsGone
    /\ password => "password" \in stuck \/ pc \in {"e_erase", "e_disable"}
    /\ DestroyedIsGone

\* What the cleanup of format has to undo, and still can.
UndoInv ==
    pc \in FormatPCs =>
        /\ \/ mapper = Plain \/ "mapper" \in stuck
           \/ opened /\ pc \notin {"f_restore", "f_unlink"}
        /\ elsewhere => "mapper" \in stuck
        /\ \/ mounted # "own" \/ {"mount", "mapper"} \subseteq stuck
           \/ placed /\ pc \in {"f_chown", "f_umount"}
        /\ pc \in {"f_mount", "f_chown"} => placed /\ written
        /\ written => pc \notin {"f_phrase", "f_luks", "f_verify", "f_open", "f_mkfs", "f_place", "f_record"}
        /\ \/ "record" \in stuck
           \/ IF written /\ pc # "f_unlink" THEN previous = before ELSE record = before


-----------------------------------------------------------------------------
(***************************************************************************)
(* Type correctness.                                                       *)
(***************************************************************************)
\* What the constants give.
LEMMA ConstantTypes ==
  /\ Plain \notin Volumes /\ NoHeader \notin Headers /\ NoPhrase \notin Phrases
  /\ MaxEvents \in Nat
  BY VolumeConstants DEF Plain, Volumes

\* A new header.
LEMMA OneKeyType ==
  ASSUME NEW v \in Volumes, NEW s \in Keyslots, NEW p \in Phrases \cup {NoPhrase}
  PROVE  OneKey(v, s, p) \in Headers
  BY DEF OneKey, Headers, Slots

\* A keyslot that is written.
LEMMA SlotWritten ==
  ASSUME NEW h \in Headers, NEW s \in Keyslots, NEW p \in Phrases \cup {NoPhrase}
  PROVE  /\ [h EXCEPT !.slots[s] = p] \in Headers
         /\ [h EXCEPT !.slots[s] = p].vol = h.vol
         /\ [h EXCEPT !.slots[s] = p].slots = [h.slots EXCEPT ![s] = p]
  BY DEF Headers, Slots

\* The chains of methods that the erasures build are sequences.
LEMMA Sequences ==
  ASSUME NEW S
  PROVE  /\ <<>> \in Seq(S) /\ (\A m \in S : <<m>> \in Seq(S))
         /\ \A s, t \in Seq(S) : s \o t \in Seq(S)
  OBVIOUS

\* The methods that a drive has.
LEMMA ChainTypes ==
  ASSUME NEW d \in Drives
  PROVE  Software(d) \in Seq(Methods) /\ Hardware(d) \o Software(d) \in Seq(Methods)
<1>1. Software(d) \in Seq(Methods)
  <2>1. /\ "zero" \in Methods /\ "discard" \in Methods /\ "secure discard" \in Methods
    BY DEF Methods
  <2>2. \A M : \A a, b \in M : <<a>> \in Seq(M) /\ <<a, b>> \in Seq(M)
    OBVIOUS
  <2>. QED  BY <2>1, <2>2 DEF Software
<1>2. Hardware(d) \in Seq(Methods)
  <2>. DEFINE If(m) == IF m \in d.can THEN <<m>> ELSE <<>>
  <2>1. \A m \in Methods : If(m) \in Seq(Methods)
    BY Sequences
  <2>2. /\ If("sanitize crypto") \in Seq(Methods) /\ If("sanitize block") \in Seq(Methods)
        /\ If("format crypto") \in Seq(Methods) /\ If("format block") \in Seq(Methods)
        /\ If("ata sanitize") \in Seq(Methods) /\ If("ata erase") \in Seq(Methods)
    <3>. HIDE DEF If
    <3>. QED  BY <2>1 DEF Methods
  <2>3. Hardware(d) = IF d.type = "part" THEN <<>>
                      ELSE IF d.nvme THEN If("sanitize crypto") \o If("sanitize block")
                                          \o If("format crypto") \o If("format block")
                      ELSE If("ata sanitize") \o If("ata erase")
    BY Zenon DEF Hardware
  <2>. HIDE DEF If
  <2>4. /\ If("sanitize crypto") \o If("sanitize block") \o If("format crypto") \o If("format block")
             \in Seq(Methods)
        /\ If("ata sanitize") \o If("ata erase") \in Seq(Methods)
    BY <2>2, Sequences, Zenon
  <2>. QED  BY <2>3, <2>4, Sequences, Zenon
<1>. QED  BY <1>1, <1>2, Sequences

\* The end of a command, and a nuke that goes on to the next method.
LEMMA EndFormatType ==
  ASSUME TypeOK, NEW how, EndFormat(how)
  PROVE  FormattingTypeOK' /\ pc' = "idle" /\ outcome' = how /\ phrase' = NoPhrase
         /\ stuck' \subseteq {"mapper", "mount", "record", "password"}
  BY DEF EndFormat, EndCommand, FormattingTypeOK, TypeOK, VolumeTypeOK

\* An erasure that has ended has reset its variables.
LEMMA EndEraseType ==
  ASSUME NEW how, EndErase(how)
  PROVE  SecureEraseTypeOK' /\ pc' = "idle" /\ outcome' = how /\ phrase' = NoPhrase
  BY Sequences DEF EndErase, EndCommand, SecureEraseTypeOK

\* An erasure that goes on tries the next method of its chain or has ended.
LEMMA OnwardType ==
  ASSUME TypeOK, Onward
  PROVE  SecureEraseTypeOK' /\ pc' \in {"idle", "e_try"} /\ phrase' \in {phrase, NoPhrase}
         /\ outcome' \in {"ended", outcome}
<1>1. CASE Len(chain) > 1
  <2>1. \A M : \A s \in Seq(M) : Len(s) > 1 => Tail(s) \in Seq(M)
    OBVIOUS
  <2>. QED  BY <1>1, <2>1 DEF Onward, TypeOK, SecureEraseTypeOK
<1>2. CASE ~(Len(chain) > 1)
  BY <1>2, EndEraseType DEF Onward
<1>. QED  BY <1>1, <1>2

\* format keeps the types.
LEMMA FormatTypeStep ==
  ASSUME TypeOK, Formatter
  PROVE  TypeOK'
<1>1. UNCHANGED <<keyLocals, eraseLocals>>
  BY DEF Formatter
<1>2. LuksKeysTypeOK' /\ SecureEraseTypeOK'
  BY <1>1 DEF TypeOK, LuksKeysTypeOK, SecureEraseTypeOK, keyLocals, eraseLocals
<1>3. CASE FormatStart
  <2>1. VolumeTypeOK'
    BY <1>3 DEF FormatStart, TypeOK, VolumeTypeOK, world, device, medium, use
  <2>2. FormattingTypeOK' /\ pc' \in FormatPCs /\ outcome' = "none"
    BY <1>3 DEF FormatStart, StartCommand, TypeOK, FormattingTypeOK, VolumeTypeOK, FormatPCs
  <2>. QED  BY <1>2, <2>1, <2>2 DEF TypeOK
<1>4. CASE Generate \/ VerifyLuks \/ Place \/ Mount \/ FormatFails \/ WriteBreaks \/ Mkfs
  <2>1. VolumeTypeOK'
    <3>1. CASE Generate \/ VerifyLuks \/ Place \/ FormatFails
      <4>1. /\ UNCHANGED <<world, events, stuck, gaveUp>>
            /\ phrase' \in Phrases \cup {phrase}
        BY <3>1 DEF Generate, VerifyLuks, Place, FormatFails, history
      <4>. QED  BY <4>1 DEF TypeOK, VolumeTypeOK, world, device, medium, use
    <3>2. CASE Mount
      BY <3>2 DEF Mount, TypeOK, VolumeTypeOK, medium, history
    <3>3. CASE WriteBreaks \/ Mkfs
      BY <3>3 DEF WriteBreaks, Mkfs, TypeOK, VolumeTypeOK, use
    <3>. QED  BY <1>4, <3>1, <3>2, <3>3
  <2>2. UNCHANGED formatLocals /\ pc' \in FormatPCs /\ outcome' = outcome
    BY <1>4 DEF Generate, VerifyLuks, Place, Mount, FormatFails, WriteBreaks, Mkfs, history, FormatPCs
  <2>3. FormattingTypeOK'
    BY <2>2 DEF TypeOK, FormattingTypeOK, formatLocals, flags
  <2>. QED  BY <1>2, <2>1, <2>2, <2>3 DEF TypeOK
<1>5. CASE LuksFormat
  <2>1. PICK v \in Fresh, s \in Keyslots :
           IF detached THEN file' = OneKey(v, s, phrase) /\ UNCHANGED medium
           ELSE header' = OneKey(v, s, phrase) /\ readable' = FALSE /\ payload' = Plain /\ UNCHANGED file
    BY <1>5 DEF LuksFormat
  <2>2. OneKey(v, s, phrase) \in Headers
    BY OneKeyType DEF Fresh, TypeOK, VolumeTypeOK
  <2>3. /\ header' \in Headers \cup {NoHeader} /\ file' \in Headers \cup {NoHeader}
        /\ payload' \in {Plain} \cup Volumes /\ readable' \in BOOLEAN
    BY <2>1, <2>2 DEF TypeOK, VolumeTypeOK, medium
  <2>4. VolumeTypeOK'
    BY <1>5, <2>3 DEF LuksFormat, TypeOK, VolumeTypeOK, use
  <2>5. FormattingTypeOK' /\ pc' \in FormatPCs /\ outcome' = outcome
    BY <1>5 DEF LuksFormat, TypeOK, FormattingTypeOK, FormatPCs
  <2>. QED  BY <1>2, <2>4, <2>5 DEF TypeOK
<1>6. CASE OpenMapper
  <2>1. NewHeader \in Headers
    BY <1>6 DEF OpenMapper, Opens, NewHeader, HeaderAt, TypeOK, VolumeTypeOK
  <2>2. mapper' \in Volumes
    BY <1>6, <2>1 DEF OpenMapper, Headers
  <2>3. VolumeTypeOK'
    BY <1>6, <2>2 DEF OpenMapper, TypeOK, VolumeTypeOK, medium
  <2>4. FormattingTypeOK' /\ pc' \in FormatPCs /\ outcome' = outcome
    BY <1>6 DEF OpenMapper, TypeOK, FormattingTypeOK, FormatPCs
  <2>. QED  BY <1>2, <2>3, <2>4 DEF TypeOK
<1>7. CASE SaveRecord
  <2>1. VolumeTypeOK'
    BY <1>7 DEF SaveRecord, TypeOK, VolumeTypeOK, device, medium, use
  <2>2. FormattingTypeOK' /\ pc' \in FormatPCs /\ outcome' = outcome
    BY <1>7 DEF SaveRecord, TypeOK, VolumeTypeOK, FormattingTypeOK, FormatPCs
  <2>. QED  BY <1>2, <2>1, <2>2 DEF TypeOK
<1>8. CASE CleanUpMount \/ UmountFails \/ CleanUpMapper
  <2>1. VolumeTypeOK'
    <3>1. CASE CleanUpMount
      BY <3>1 DEF CleanUpMount, TypeOK, VolumeTypeOK, medium
    <3>2. CASE CleanUpMapper
      BY <3>2 DEF CleanUpMapper, TypeOK, VolumeTypeOK, medium
    <3>3. CASE UmountFails
      BY <3>3 DEF UmountFails, TypeOK, VolumeTypeOK, world, device, medium, use
    <3>. QED  BY <1>8, <3>1, <3>2, <3>3
  <2>2. UNCHANGED formatLocals /\ pc' \in FormatPCs /\ outcome' = outcome
    BY <1>8 DEF CleanUpMount, UmountFails, CleanUpMapper, FormatPCs
  <2>3. FormattingTypeOK'
    BY <2>2 DEF TypeOK, FormattingTypeOK, formatLocals, flags
  <2>. QED  BY <1>2, <2>1, <2>2, <2>3 DEF TypeOK
<1>9. CASE RestoreRecord
  <2>1. VolumeTypeOK'
    BY <1>9 DEF RestoreRecord, TypeOK, VolumeTypeOK, FormattingTypeOK, device, medium, use
  <2>2. UNCHANGED formatLocals /\ pc' \in FormatPCs /\ outcome' = outcome
    BY <1>9 DEF RestoreRecord, FormatPCs
  <2>3. FormattingTypeOK'
    BY <2>2 DEF TypeOK, FormattingTypeOK, formatLocals, flags
  <2>. QED  BY <1>2, <2>1, <2>2, <2>3 DEF TypeOK
<1>10. CASE Chown \/ UnlinkHeader
  <2>1. PICK how \in {"ended", "format failed"} : EndFormat(how)
    BY <1>10 DEF Chown, UnlinkHeader
  <2>2. VolumeTypeOK'
    <3>1. UNCHANGED <<device, record, events, gaveUp>> /\ file' \in {file, NoHeader}
      BY <1>10 DEF Chown, UnlinkHeader, world
    <3>2. phrase' = NoPhrase /\ stuck' \subseteq {"mapper", "mount", "record", "password"}
      BY <2>1, EndFormatType
    <3>. QED  BY <3>1, <3>2 DEF TypeOK, VolumeTypeOK, device, medium, use
  <2>. QED  BY <1>2, <2>1, <2>2, EndFormatType DEF TypeOK
<1>. QED
  BY <1>3, <1>4, <1>5, <1>6, <1>7, <1>8, <1>9, <1>10 DEF Formatter, FormatStep

\* What the luks commands write.
LEMMA WriteType ==
  ASSUME TypeOK, NEW h \in Headers \cup {NoHeader}, Write(h)
  PROVE  header' \in Headers \cup {NoHeader} /\ file' \in Headers \cup {NoHeader}
  BY DEF TypeOK, VolumeTypeOK, Write

\* The luks commands keep the types.
LEMMA KeyTypeStep ==
  ASSUME TypeOK, Keeper
  PROVE  TypeOK'
<1>1. UNCHANGED <<formatLocals, eraseLocals>>
  BY DEF Keeper
<1>2. FormattingTypeOK' /\ SecureEraseTypeOK'
  BY <1>1 DEF TypeOK, FormattingTypeOK, SecureEraseTypeOK, formatLocals, flags, eraseLocals
<1>3. LuksKeysTypeOK' /\ phrase' \in Phrases \cup {NoPhrase} /\ pc' \in {"idle"} \cup KeyPCs
      /\ outcome' \in {"none", "ended", outcome}
  <2>1. CASE PasswdStart \/ ParamsStart
    BY <2>1 DEF PasswdStart, ParamsStart, KeyStart, StartCommand, Where, LuksKeysTypeOK, KeyPCs
  <2>2. CASE BackupStart \/ RestoreStart \/ WipeStart
    BY <2>2 DEF BackupStart, RestoreStart, WipeStart, StartCommand, TypeOK, VolumeTypeOK,
       LuksKeysTypeOK, KeyPCs, keyLocals
  <2>3. CASE AddKey
    BY <2>3 DEF AddKey, TypeOK, VolumeTypeOK, LuksKeysTypeOK, KeyPCs, keyLocals, history
  <2>4. CASE RemoveKey \/ ConvertKey \/ Backup \/ Restore \/ Wipe \/ KeyFails
    <3>1. EndKeys
      BY <2>4 DEF RemoveKey, ConvertKey, Backup, Restore, Wipe, KeyFails
    <3>. QED  BY <3>1 DEF EndKeys, EndCommand, LuksKeysTypeOK
  <2>. QED  BY <2>1, <2>2, <2>3, <2>4 DEF Keeper, KeyCommand, KeyStep
<1>4. header' \in Headers \cup {NoHeader} /\ file' \in Headers \cup {NoHeader}
  <2>1. CASE AddKey
    <3>1. PICK s \in Free(HeaderAt(where)) : Write([HeaderAt(where) EXCEPT !.slots[s] = new])
      BY <2>1 DEF AddKey
    <3>2. HeaderAt(where) \in Headers /\ s \in Keyslots
      BY <2>1 DEF AddKey, Opens, HeaderAt, Free, TypeOK, VolumeTypeOK
    <3>. QED  BY <3>1, <3>2, SlotWritten, WriteType DEF TypeOK, LuksKeysTypeOK
  <2>2. CASE RemoveKey
    <3>1. PICK s \in Keyslots : Write([HeaderAt(where) EXCEPT !.slots[s] = NoPhrase])
      BY <2>2 DEF RemoveKey
    <3>2. HeaderAt(where) \in Headers
      BY <2>2 DEF RemoveKey, HeaderAt, TypeOK, VolumeTypeOK
    <3>. QED  BY <3>1, <3>2, SlotWritten, WriteType
  <2>3. CASE Backup \/ Restore \/ Wipe
    BY <2>3 DEF Backup, Restore, Wipe, TypeOK, VolumeTypeOK, device, medium
  <2>4. CASE KeyCommand \/ ConvertKey \/ KeyFails
    BY <2>4 DEF KeyCommand, PasswdStart, ParamsStart, KeyStart, BackupStart, RestoreStart, WipeStart,
       ConvertKey, KeyFails, TypeOK, VolumeTypeOK, world, device, medium
  <2>. QED  BY <2>1, <2>2, <2>3, <2>4 DEF Keeper, KeyStep
<1>5. /\ UNCHANGED <<drive, readable, payload, use, sanitize, password, record, events, stuck>>
      /\ gaveUp' \in BOOLEAN
  <2>1. CASE KeyCommand
    BY <2>1 DEF KeyCommand, PasswdStart, ParamsStart, KeyStart, BackupStart, RestoreStart, WipeStart,
       TypeOK, VolumeTypeOK, world, device, medium
  <2>2. CASE AddKey \/ RemoveKey
    BY <2>2 DEF AddKey, RemoveKey, TypeOK, VolumeTypeOK, history
  <2>3. CASE ConvertKey \/ Backup \/ KeyFails
    BY <2>3 DEF ConvertKey, Backup, KeyFails, TypeOK, VolumeTypeOK, world, device, medium
  <2>4. CASE Restore \/ Wipe
    BY <2>4 DEF Restore, Wipe, Keeps, TypeOK, VolumeTypeOK
  <2>. QED  BY <2>1, <2>2, <2>3, <2>4 DEF Keeper, KeyStep
<1>6. VolumeTypeOK'
  BY <1>3, <1>4, <1>5 DEF TypeOK, VolumeTypeOK, use
<1>. QED  BY <1>2, <1>3, <1>6 DEF TypeOK

\* nuke and entropise keep the types.
LEMMA EraseTypeStep ==
  ASSUME TypeOK, Eraser
  PROVE  TypeOK'
<1>1. UNCHANGED <<formatLocals, keyLocals>>
  BY DEF Eraser
<1>2. FormattingTypeOK' /\ LuksKeysTypeOK'
  BY <1>1 DEF TypeOK, FormattingTypeOK, LuksKeysTypeOK, formatLocals, flags, keyLocals
<1>3. SecureEraseTypeOK' /\ phrase' \in Phrases \cup {NoPhrase} /\ pc' \in {"idle"} \cup ErasePCs
      /\ outcome' \in {"none", "ended", "begun", "nuked", "entropised", outcome}
  <2>1. CASE EraseCommand
    <3>1. chain' \in Seq(Methods)
      BY <2>1, ChainTypes DEF EraseCommand, NukeStart, EntropiseStart, TypeOK, VolumeTypeOK,
         SecureEraseTypeOK, eraseLocals
    <3>. QED
      BY <2>1, <3>1 DEF EraseCommand, NukeStart, EntropiseStart, StartCommand, TypeOK, VolumeTypeOK,
         SecureEraseTypeOK, eraseLocals, ErasePCs
  <2>2. CASE Sanitize \/ AtaErase \/ AtaEraseFails
    BY <2>2, Sequences DEF Sanitize, AtaErase, AtaEraseFails, TypeOK, VolumeTypeOK, SecureEraseTypeOK,
       eraseLocals, ErasePCs, history
  <2>3. CASE PollGivesUp \/ MethodFails
    BY <2>3, OnwardType DEF PollGivesUp, MethodFails, TypeOK, VolumeTypeOK, ErasePCs
  <2>4. CASE PollDone \/ AtaSanitize \/ EraseAtOnce \/ Overwrite \/ Entropise \/ EraseInterrupted
    <3>1. PICK how \in {"ended", "begun", "nuked", "entropised"} : EndErase(how)
      BY <2>4 DEF PollDone, AtaSanitize, EraseAtOnce, Overwrite, Entropise, EraseInterrupted
    <3>. QED  BY <3>1, EndEraseType
  <2>5. CASE SetPassword
    BY <2>5, EndEraseType DEF SetPassword, TypeOK, VolumeTypeOK, SecureEraseTypeOK, eraseLocals, ErasePCs
  <2>6. CASE Disable
    BY <2>6, EndEraseType, OnwardType DEF Disable, TypeOK, VolumeTypeOK, ErasePCs
  <2>. QED  BY <2>1, <2>2, <2>3, <2>4, <2>5, <2>6 DEF Eraser, EraseStep
<1>4. UNCHANGED <<drive, use, file, record, events>> /\ gaveUp' \in BOOLEAN
  <2>1. CASE EraseCommand
    BY <2>1 DEF EraseCommand, NukeStart, EntropiseStart, world, device, use
  <2>2. CASE Sanitize \/ PollDone \/ PollGivesUp \/ AtaErase \/ AtaEraseFails
    BY <2>2 DEF Sanitize, PollDone, PollGivesUp, AtaErase, AtaEraseFails, TypeOK, VolumeTypeOK,
       world, device, use, history
  <2>3. CASE AtaSanitize \/ EraseAtOnce \/ Overwrite \/ MethodFails \/ SetPassword \/ Disable
             \/ Entropise \/ EraseInterrupted
    BY <2>3 DEF AtaSanitize, EraseAtOnce, Overwrite, MethodFails, SetPassword, Disable, Entropise,
       EraseInterrupted, TypeOK, VolumeTypeOK, use
  <2>. QED  BY <2>1, <2>2, <2>3 DEF Eraser, EraseStep
<1>5. readable' \in BOOLEAN /\ payload' \in {Plain} \cup Volumes /\ header' \in Headers \cup {NoHeader}
  <2>1. CASE EraseCommand \/ PollDone \/ PollGivesUp \/ AtaEraseFails
    BY <2>1 DEF EraseCommand, NukeStart, EntropiseStart, PollDone, PollGivesUp, AtaEraseFails,
       TypeOK, VolumeTypeOK, world, device, medium
  <2>2. CASE Sanitize \/ AtaSanitize \/ MethodFails \/ EraseInterrupted \/ SetPassword \/ Disable
    BY <2>2 DEF Sanitize, AtaSanitize, MethodFails, EraseInterrupted, SetPassword, Disable,
       TypeOK, VolumeTypeOK, medium
  <2>3. CASE AtaErase \/ EraseAtOnce \/ Overwrite \/ Entropise
    BY <2>3 DEF AtaErase, EraseAtOnce, Overwrite, Entropise, Gone
  <2>. QED  BY <2>1, <2>2, <2>3 DEF Eraser, EraseStep
<1>6. /\ sanitize' \in {"never", "running", "done", "failed"} /\ password' \in BOOLEAN
      /\ stuck' \subseteq {"mapper", "mount", "record", "password"}
  <2>1. CASE EraseCommand \/ PollDone \/ PollGivesUp \/ AtaEraseFails
    BY <2>1 DEF EraseCommand, NukeStart, EntropiseStart, PollDone, PollGivesUp, AtaEraseFails,
       TypeOK, VolumeTypeOK, world, device, history
  <2>2. CASE Sanitize \/ AtaErase
    BY <2>2 DEF Sanitize, AtaErase, TypeOK, VolumeTypeOK, history
  <2>3. CASE AtaSanitize \/ EraseAtOnce \/ Overwrite \/ MethodFails \/ SetPassword \/ Disable
             \/ Entropise \/ EraseInterrupted
    BY <2>3 DEF AtaSanitize, EraseAtOnce, Overwrite, MethodFails, SetPassword, Disable, Entropise,
       EraseInterrupted, TypeOK, VolumeTypeOK
  <2>. QED  BY <2>1, <2>2, <2>3 DEF Eraser, EraseStep
<1>7. VolumeTypeOK'
  BY <1>3, <1>4, <1>5, <1>6 DEF TypeOK, VolumeTypeOK, use
<1>. QED  BY <1>2, <1>3, <1>7 DEF TypeOK

\* Others keep the types.
LEMMA OthersTypeStep ==
  ASSUME TypeOK, Others
  PROVE  TypeOK'
<1>1. UNCHANGED <<formatLocals, keyLocals, eraseLocals>>
  BY DEF Others
<1>2. FormattingTypeOK' /\ LuksKeysTypeOK' /\ SecureEraseTypeOK'
  BY <1>1 DEF TypeOK, FormattingTypeOK, LuksKeysTypeOK, SecureEraseTypeOK, formatLocals, flags,
     keyLocals, eraseLocals
<1>3. CASE OthersAct
  <2>1. Event
    BY <1>3 DEF OthersAct, OthersMount, OthersMountTheirs, OthersUnmount, OthersRecord, OthersAddKey,
       OthersRemoveKey
  <2>2. events' \in 0 .. MaxEvents
    <3>1. MaxEvents \in Nat /\ events \in 0 .. MaxEvents /\ events < MaxEvents /\ events' = events + 1
      BY <2>1, ConstantTypes DEF Event, TypeOK, VolumeTypeOK
    <3>. QED  BY <3>1
  <2>3. mounted' \in {"none", "own", "other"} /\ elsewhere' \in BOOLEAN /\ file' = file
        /\ record' \in {"none", "own", "other"}
        /\ stuck' \subseteq {"mapper", "mount", "record", "password"}
    BY <1>3 DEF OthersAct, OthersMount, OthersMountTheirs, OthersUnmount, OthersRecord, OthersAddKey,
       OthersRemoveKey, Held, TypeOK, VolumeTypeOK
  <2>4. header' \in Headers \cup {NoHeader}
    <3>1. CASE OthersAddKey
      <4>1. PICK s \in Free(header), p \in Phrases : header' = [header EXCEPT !.slots[s] = p]
        BY <3>1 DEF OthersAddKey
      <4>. QED  BY <3>1, <4>1, SlotWritten DEF OthersAddKey, Free, TypeOK, VolumeTypeOK
    <3>2. CASE OthersRemoveKey
      <4>1. PICK s \in Used(header) : header' = [header EXCEPT !.slots[s] = NoPhrase]
        BY <3>2 DEF OthersRemoveKey
      <4>. QED  BY <3>2, <4>1, SlotWritten DEF OthersRemoveKey, Used, TypeOK, VolumeTypeOK
    <3>3. CASE OthersMount \/ OthersMountTheirs \/ OthersUnmount \/ OthersRecord
      BY <3>3 DEF OthersMount, OthersMountTheirs, OthersUnmount, OthersRecord, TypeOK, VolumeTypeOK
    <3>. QED  BY <1>3, <3>1, <3>2, <3>3 DEF OthersAct
  <2>5. VolumeTypeOK'
    BY <2>1, <2>2, <2>3, <2>4 DEF Event, TypeOK, VolumeTypeOK
  <2>. QED  BY <1>2, <2>1, <2>5 DEF Event, TypeOK
<1>4. CASE CloseVolume \/ DriveSanitizes
  <2>1. VolumeTypeOK'
    BY <1>4 DEF CloseVolume, DriveSanitizes, TypeOK, VolumeTypeOK, medium, use, history
  <2>. QED  BY <1>2, <1>4, <2>1 DEF CloseVolume, DriveSanitizes, TypeOK, history
<1>. QED  BY <1>3, <1>4 DEF Others

\* A stutter keeps the types.
LEMMA TypeStutter ==
  ASSUME TypeOK, UNCHANGED vars
  PROVE  TypeOK'
<1>1. VolumeTypeOK'
  BY DEF vars, world, device, medium, use, history, TypeOK, VolumeTypeOK
<1>2. FormattingTypeOK' /\ LuksKeysTypeOK' /\ SecureEraseTypeOK'
  BY DEF vars, formatLocals, flags, keyLocals, eraseLocals, TypeOK, FormattingTypeOK, LuksKeysTypeOK,
     SecureEraseTypeOK
<1>. QED  BY <1>1, <1>2 DEF vars, history, TypeOK

\* Every step keeps the types.
LEMMA TypeStep ==
  ASSUME TypeOK, [Next]_vars
  PROVE  TypeOK'
  BY TypeStutter, FormatTypeStep, KeyTypeStep, EraseTypeStep, OthersTypeStep DEF Next

\* Types hold at first.
LEMMA InitType ==
  ASSUME Init
  PROVE  TypeOK
<1>1. VolumeTypeOK
  <2>1. 0 \in 0 .. MaxEvents
    BY ConstantTypes
  <2>. QED  BY <2>1 DEF Init, VolumeInit, VolumeTypeOK
<1>2. FormattingTypeOK /\ LuksKeysTypeOK /\ SecureEraseTypeOK
  BY Sequences DEF Init, FormattingInit, LuksKeysInit, SecureEraseInit, FormattingTypeOK,
     LuksKeysTypeOK, SecureEraseTypeOK
<1>. QED  BY <1>1, <1>2 DEF Init, VolumeInit, TypeOK

(* Type correctness of a volume's device, headers, mapper and record, and  *)
(* of the commands on it.                                                  *)
THEOREM TypeCorrect == Spec => []TypeOK
  BY InitType, TypeStep, PTL DEF Spec

-----------------------------------------------------------------------------
(***************************************************************************)
(* The keys.                                                               *)
(***************************************************************************)
LEMMA GoodOpens ==
  ASSUME NEW h \in Headers \cup {NoHeader}, NEW v
  PROVE  Good(h, v) <=> \E p \in Phrases : Opens(h, p) /\ h.vol = v
<1>. CASE h = NoHeader
  BY DEF Good, Opens
<1>. CASE h \in Headers
  <2>1. \A s \in Keyslots : h.slots[s] \in Phrases \cup {NoPhrase}
    BY DEF Headers, Slots
  <2>2. NoPhrase \notin Phrases /\ h # NoHeader
    BY ConstantTypes
  <2>. QED  BY <2>1, <2>2 DEF Good, Opens, Used, Free
<1>. QED  OBVIOUS

\* DataKept is KeyKept, said of the two copies of the header.
LEMMA KeyKeptFrom ==
  ASSUME TypeOK
  PROVE  DataKept <=> KeyKept
<1>1. /\ header \in Headers \cup {NoHeader} /\ file \in Headers \cup {NoHeader}
  BY DEF TypeOK, VolumeTypeOK
<1>2. SomeGood(payload) <=> Openable
  BY <1>1, GoodOpens DEF SomeGood, Openable
<1>. QED  BY <1>2 DEF DataKept, KeyKept

\* A header that gets a key stays good, as does one that keeps a key.
LEMMA KeyAdded ==
  ASSUME NEW h \in Headers, NEW s \in Keyslots, NEW p \in Phrases, NEW v
  PROVE  Good(h, v) => Good([h EXCEPT !.slots[s] = p], v)
<1>. DEFINE g == [h EXCEPT !.slots[s] = p]
<1>1. g \in Headers /\ g.vol = h.vol /\ g.slots = [h.slots EXCEPT ![s] = p] /\ p # NoPhrase
  BY SlotWritten, ConstantTypes
<1>2. h.slots \in [Keyslots -> Phrases \cup {NoPhrase}]
  BY DEF Headers, Slots
<1>. HIDE DEF g
<1>3. Used(h) \subseteq Used(g)
  BY <1>1, <1>2 DEF Used, Free
<1>4. g # NoHeader
  BY <1>1, ConstantTypes
<1>5. Good(h, v) => Good(g, v)
  BY <1>1, <1>3, <1>4 DEF Good
<1>. QED  BY <1>5 DEF g

\* A header stays good without one key, if another keyslot is in use.
LEMMA KeyRemoved ==
  ASSUME NEW h \in Headers, NEW s \in Keyslots, Used(h) # {s}, NEW v
  PROVE  Good(h, v) => Good([h EXCEPT !.slots[s] = NoPhrase], v)
<1>. DEFINE g == [h EXCEPT !.slots[s] = NoPhrase]
<1>1. g \in Headers /\ g.vol = h.vol /\ g.slots = [h.slots EXCEPT ![s] = NoPhrase]
  BY SlotWritten
<1>2. h.slots \in [Keyslots -> Phrases \cup {NoPhrase}]
  BY DEF Headers, Slots
<1>. HIDE DEF g
<1>3. \A t \in Used(h) : t # s => t \in Used(g)
  BY <1>1, <1>2 DEF Used, Free
<1>4. g # NoHeader
  BY <1>1, ConstantTypes
<1>5. Good(h, v) => Good(g, v)
  BY <1>1, <1>3, <1>4 DEF Good
<1>. QED  BY <1>5 DEF g

\* A copy of a header that a command changes without harm.
LEMMA Written ==
  ASSUME TypeOK, HeaderAt(where) # NoHeader, NEW h, Write(h),
         \A v : Good(HeaderAt(where), v) => Good(h, v)
  PROVE  \A v : SomeGood(v) => SomeGood(v)'
<1>1. CASE where = "disk"
  BY <1>1 DEF Write, HeaderAt, SomeGood, Good, Used, Free
<1>2. CASE where # "disk"
  BY <1>2 DEF Write, HeaderAt, SomeGood, Good, Used, Free
<1>. QED  BY <1>1, <1>2

\* Headers that have not changed are as good as they were.
LEMMA SameCopies ==
  ASSUME UNCHANGED <<header, file>>
  PROVE  \A v : SomeGood(v) <=> SomeGood(v)'
  BY DEF SomeGood, Good, Used, Free

\* Data that could be opened still can, if no copy of their header became worse.
LEMMA DataStay ==
  ASSUME DataKept, \A v : SomeGood(v) => SomeGood(v)', payload' = payload,
         readable' => readable, gaveUp => gaveUp'
  PROVE  DataKept'
  BY DEF DataKept

\* Where a command on keys or an erase is in its course.
LEMMA KeeperAt ==
  ASSUME Keeper
  PROVE  pc \in {"idle"} \cup KeyPCs /\ pc' \in {"idle"} \cup KeyPCs
<1>1. CASE KeyCommand
  BY <1>1 DEF KeyCommand, PasswdStart, ParamsStart, KeyStart, BackupStart, RestoreStart, WipeStart,
     StartCommand, KeyPCs
<1>2. CASE AddKey
  BY <1>2 DEF AddKey, KeyPCs
<1>3. CASE RemoveKey \/ ConvertKey \/ Backup \/ Restore \/ Wipe \/ KeyFails
  BY <1>3 DEF RemoveKey, ConvertKey, Backup, Restore, Wipe, KeyFails, EndKeys, EndCommand, KeyPCs
<1>. QED  BY <1>1, <1>2, <1>3 DEF Keeper, KeyStep

\* Where in the commands the erasing steps are.
LEMMA EraserAt ==
  ASSUME Eraser
  PROVE  pc \in {"idle"} \cup ErasePCs /\ pc' \in {"idle"} \cup ErasePCs
<1>1. CASE EraseCommand \/ Sanitize \/ AtaErase \/ AtaEraseFails
  BY <1>1 DEF EraseCommand, NukeStart, EntropiseStart, StartCommand, Sanitize, Trying, AtaErase,
     AtaEraseFails, ErasePCs
<1>2. CASE PollGivesUp \/ MethodFails \/ Disable \/ SetPassword
  BY <1>2 DEF PollGivesUp, MethodFails, Disable, SetPassword, Trying, Onward, EndErase, EndCommand,
     ErasePCs
<1>3. CASE PollDone \/ AtaSanitize \/ EraseAtOnce \/ Overwrite \/ Entropise \/ EraseInterrupted
  BY <1>3 DEF PollDone, AtaSanitize, EraseAtOnce, Overwrite, Entropise, EraseInterrupted, Trying,
     EndErase, EndCommand, ErasePCs
<1>. QED  BY <1>1, <1>2, <1>3 DEF Eraser, EraseStep

\* The luks commands keep the data's key.
LEMMA KeeperKeys ==
  ASSUME TypeOK, KeyInv, Keeper
  PROVE  KeyInv'
<1>1. Entered'
  <2>1. CASE PasswdStart \/ ParamsStart
    BY <2>1 DEF PasswdStart, ParamsStart, Entered, KeyPCs
  <2>2. CASE BackupStart \/ RestoreStart \/ WipeStart
    BY <2>2 DEF BackupStart, RestoreStart, WipeStart, Entered, KeyPCs
  <2>3. CASE AddKey
    BY <2>3 DEF AddKey, Entered, KeyInv, KeyPCs
  <2>4. CASE RemoveKey \/ ConvertKey \/ Backup \/ Restore \/ Wipe \/ KeyFails
    BY <2>4 DEF RemoveKey, ConvertKey, Backup, Restore, Wipe, KeyFails, EndKeys, EndCommand, Entered
  <2>. QED  BY <2>1, <2>2, <2>3, <2>4 DEF Keeper, KeyCommand, KeyStep
<1>2. DataKept'
  <2>1. CASE KeyCommand \/ ConvertKey \/ KeyFails
    <3>1. UNCHANGED <<header, file, payload, readable, gaveUp>>
      BY <2>1 DEF KeyCommand, PasswdStart, ParamsStart, KeyStart, BackupStart, RestoreStart, WipeStart,
         ConvertKey, KeyFails, world, device, medium
    <3>. QED  BY <3>1, SameCopies, DataStay DEF KeyInv
  <2>2. CASE AddKey
    <3>1. PICK s \in Free(HeaderAt(where)) : Write([HeaderAt(where) EXCEPT !.slots[s] = new])
      BY <2>2 DEF AddKey
    <3>2. HeaderAt(where) \in Headers /\ s \in Keyslots /\ new \in Phrases
      BY <2>2 DEF AddKey, Opens, HeaderAt, Free, TypeOK, VolumeTypeOK, KeyInv, Entered
    <3>3. \A v : SomeGood(v) => SomeGood(v)'
      BY <3>1, <3>2, KeyAdded, Written, ConstantTypes
    <3>4. UNCHANGED <<payload, readable, gaveUp>>
      BY <2>2 DEF AddKey, history
    <3>. QED  BY <3>3, <3>4, DataStay DEF KeyInv
  <2>3. CASE RemoveKey
    <3>1. PICK s \in Keyslots : /\ Used(HeaderAt(where)) # {s}
                                /\ Write([HeaderAt(where) EXCEPT !.slots[s] = NoPhrase])
      BY <2>3 DEF RemoveKey
    <3>2. HeaderAt(where) \in Headers
      BY <2>3 DEF RemoveKey, HeaderAt, TypeOK, VolumeTypeOK
    <3>3. \A v : SomeGood(v) => SomeGood(v)'
      BY <3>1, <3>2, KeyRemoved, Written, ConstantTypes
    <3>4. UNCHANGED <<payload, readable, gaveUp>>
      BY <2>3 DEF RemoveKey
    <3>. QED  BY <3>3, <3>4, DataStay DEF KeyInv
  <2>4. CASE Backup
    <3>1. /\ file = NoHeader /\ file' = header
          /\ UNCHANGED <<header, payload, readable, gaveUp>>
      BY <2>4 DEF Backup, device, medium
    <3>2. \A v : SomeGood(v) => SomeGood(v)'
      BY <3>1 DEF SomeGood, Good, Used, Free
    <3>. QED  BY <3>1, <3>2, DataStay DEF KeyInv
  <2>5. CASE Restore \/ Wipe
    <3>1. /\ UNCHANGED <<file, payload, readable>>
          /\ ~gaveUp' => Keeps(file)
      BY <2>5 DEF Restore, Wipe
    <3>2. ~gaveUp' => Good(file', payload')
      BY <3>1 DEF Keeps, Good, Used, Free
    <3>. QED  BY <3>2 DEF DataKept, SomeGood
  <2>. QED  BY <2>1, <2>2, <2>3, <2>4, <2>5 DEF Keeper, KeyStep
<1>3. Detached' /\ MapperKept' /\ Quiet'
  BY KeeperAt DEF Detached, MapperKept, Quiet, KeyPCs, FormatPCs
<1>. QED  BY <1>1, <1>2, <1>3 DEF KeyInv

\* nuke and entropise take no key of data that stay readable.
LEMMA EraserKeys ==
  ASSUME TypeOK, KeyInv, Eraser
  PROVE  KeyInv'
<1>1. pc' \in {"idle"} \cup ErasePCs
  BY EraserAt
<1>2. DataKept'
  <2>1. CASE AtaErase \/ EraseAtOnce \/ Overwrite \/ Entropise
    BY <2>1 DEF AtaErase, EraseAtOnce, Overwrite, Entropise, Gone, DataKept
  <2>2. CASE ~(AtaErase \/ EraseAtOnce \/ Overwrite \/ Entropise)
    <3>1. UNCHANGED <<header, file, payload>> /\ gaveUp' \in {gaveUp, TRUE}
      <4>1. CASE EraseCommand \/ PollDone \/ PollGivesUp \/ AtaEraseFails
        BY <4>1 DEF EraseCommand, NukeStart, EntropiseStart, PollDone, PollGivesUp, AtaEraseFails,
           world, device, medium, history
      <4>2. CASE Sanitize \/ AtaSanitize \/ SetPassword \/ Disable
        BY <4>2 DEF Sanitize, AtaSanitize, SetPassword, Disable, medium, history
      <4>3. CASE MethodFails \/ EraseInterrupted
        BY <4>3 DEF MethodFails, EraseInterrupted
      <4>. QED  BY <2>2, <4>1, <4>2, <4>3 DEF Eraser, EraseStep
    <3>2. readable' => readable
      <4>1. CASE EraseCommand \/ PollDone \/ PollGivesUp \/ AtaEraseFails
        BY <4>1 DEF EraseCommand, NukeStart, EntropiseStart, PollDone, PollGivesUp, AtaEraseFails,
           world, device, medium
      <4>2. CASE Sanitize \/ AtaSanitize \/ SetPassword \/ Disable
        BY <4>2 DEF Sanitize, AtaSanitize, SetPassword, Disable, medium
      <4>3. CASE MethodFails \/ EraseInterrupted
        BY <4>3 DEF MethodFails, EraseInterrupted
      <4>. QED  BY <2>2, <4>1, <4>2, <4>3 DEF Eraser, EraseStep
    <3>3. gaveUp => gaveUp'
      BY <3>1
    <3>. QED  BY <3>1, <3>2, <3>3, SameCopies, DataStay DEF KeyInv
  <2>. QED  BY <2>1, <2>2
<1>3. Entered' /\ Detached' /\ MapperKept' /\ Quiet'
  BY <1>1 DEF Entered, Detached, MapperKept, Quiet, ErasePCs, FormatPCs
<1>. QED  BY <1>2, <1>3 DEF KeyInv

\* What others do takes no key.
LEMMA OthersKeys ==
  ASSUME TypeOK, KeyInv, Others
  PROVE  KeyInv'
<1>1. UNCHANGED <<pc, phrase, detached, created, new, gaveUp>>
  <2>1. UNCHANGED <<detached, created, new>>
    BY DEF Others, formatLocals, flags, keyLocals
  <2>2. UNCHANGED <<pc, phrase, gaveUp>>
    BY DEF Others, OthersAct, OthersMount, OthersMountTheirs, OthersUnmount, OthersRecord, OthersAddKey,
       OthersRemoveKey, Event, CloseVolume, DriveSanitizes, history
  <2>. QED  BY <2>1, <2>2
<1>2. Entered'
  BY <1>1 DEF KeyInv, Entered
<1>3. CASE OthersAct
  <2>1. Event /\ file' = file
    BY <1>3 DEF OthersAct, OthersMount, OthersMountTheirs, OthersUnmount, OthersRecord, OthersAddKey,
       OthersRemoveKey
  <2>2. \A v : Good(header, v) => Good(header, v)'
    <3>1. CASE OthersAddKey
      <4>1. PICK s \in Free(header), p \in Phrases : header' = [header EXCEPT !.slots[s] = p]
        BY <3>1 DEF OthersAddKey
      <4>2. header \in Headers /\ s \in Keyslots
        BY <3>1 DEF OthersAddKey, TypeOK, VolumeTypeOK, Free
      <4>3. \A v : Good(header, v) => Good(header', v)
        BY <4>1, <4>2, KeyAdded
      <4>. QED  BY <4>3 DEF Good, Used, Free
    <3>2. CASE OthersRemoveKey
      <4>1. PICK s \in Used(header) : Used(header) # {s} /\ header' = [header EXCEPT !.slots[s] = NoPhrase]
        BY <3>2 DEF OthersRemoveKey
      <4>2. header \in Headers /\ s \in Keyslots
        BY <3>2 DEF OthersRemoveKey, TypeOK, VolumeTypeOK, Used
      <4>3. \A v : Good(header, v) => Good(header', v)
        BY <4>1, <4>2, KeyRemoved
      <4>. QED  BY <4>3 DEF Good, Used, Free
    <3>3. CASE OthersMount \/ OthersMountTheirs \/ OthersUnmount \/ OthersRecord
      <4>1. header' = header
        BY <3>3 DEF OthersMount, OthersMountTheirs, OthersUnmount, OthersRecord
      <4>. QED  BY <4>1 DEF Good, Used, Free
    <3>. QED  BY <1>3, <3>1, <3>2, <3>3 DEF OthersAct
  <2>3. \A v : SomeGood(v) => SomeGood(v)'
    BY <2>1, <2>2 DEF SomeGood, Good, Used, Free
  <2>4. DataKept'
    BY <1>1, <2>1, <2>3, DataStay DEF KeyInv, Event
  <2>5. MapperKept'
    BY <2>1, <2>3 DEF KeyInv, MapperKept, Event
  <2>6. Detached' /\ Quiet'
    BY <1>1, <2>1 DEF KeyInv, Detached, Quiet, Event
  <2>. QED  BY <1>2, <2>4, <2>5, <2>6 DEF KeyInv
<1>4. CASE CloseVolume
  <2>1. pc' = "idle" /\ UNCHANGED <<header, file, payload, readable>>
    BY <1>4 DEF CloseVolume, medium
  <2>2. DataKept'
    BY <1>1, <2>1, SameCopies, DataStay DEF KeyInv
  <2>. QED  BY <1>2, <2>1, <2>2 DEF KeyInv, Detached, MapperKept, Quiet, FormatPCs
<1>5. CASE DriveSanitizes
  <2>1. pc' \notin FormatPCs
    BY <1>1, <1>5 DEF DriveSanitizes, KeyInv, Quiet
  <2>2. DataKept'
    <3>1. CASE UNCHANGED medium
      <4>1. UNCHANGED <<header, file, payload, readable>>
        BY <1>5, <3>1 DEF DriveSanitizes, medium
      <4>. QED  BY <1>1, <4>1, SameCopies, DataStay DEF KeyInv
    <3>2. CASE readable' = FALSE
      BY <3>2 DEF DataKept
    <3>. QED  BY <1>5, <3>1, <3>2 DEF DriveSanitizes
  <2>. QED  BY <1>2, <2>1, <2>2 DEF KeyInv, Detached, MapperKept, Quiet, FormatPCs
<1>. QED  BY <1>3, <1>4, <1>5 DEF Others

\* format makes a volume the data only with a good header, and unlinks none that is needed.
LEMMA FormatterKeys ==
  ASSUME TypeOK, KeyInv, Formatter
  PROVE  KeyInv'
<1>1. UNCHANGED new
  BY DEF Formatter, keyLocals
<1>2. CASE FormatStart
  <2>1. /\ UNCHANGED <<header, file, payload, readable, gaveUp, mapper, sanitize>>
        /\ mapper = Plain /\ sanitize # "running"
        /\ pc' \in {"f_phrase", "f_mkfs"} /\ (pc' = "f_mkfs" => ~luks')
        /\ (detached' => luks' /\ file = NoHeader)
    BY <1>2 DEF FormatStart, Idle, world, device, medium, use
  <2>2. DataKept'
    BY <2>1, SameCopies, DataStay DEF KeyInv
  <2>. QED  BY <2>1, <2>2 DEF KeyInv, Entered, Detached, MapperKept, Quiet
<1>3. CASE Generate \/ VerifyLuks \/ Place \/ FormatFails \/ UmountFails \/ SaveRecord \/ Mount
           \/ CleanUpMount \/ RestoreRecord \/ CleanUpMapper
  <2>1. UNCHANGED <<header, file, payload, readable, gaveUp, sanitize, detached, created>>
    <3>1. CASE Generate \/ VerifyLuks \/ Place \/ FormatFails \/ UmountFails
      BY <3>1 DEF Generate, VerifyLuks, Place, FormatFails, UmountFails, world, device, medium, history,
         formatLocals, flags
    <3>2. CASE SaveRecord \/ RestoreRecord
      BY <3>2 DEF SaveRecord, RestoreRecord, device, medium, formatLocals, flags
    <3>3. CASE Mount \/ CleanUpMount \/ CleanUpMapper
      BY <3>3 DEF Mount, CleanUpMount, CleanUpMapper, medium, history, formatLocals, flags
    <3>. QED  BY <1>3, <3>1, <3>2, <3>3
  <2>2. DataKept'
    BY <2>1, SameCopies, DataStay DEF KeyInv
  <2>3. pc \in FormatPCs /\ pc' \in FormatPCs \ {"f_mkfs", "f_verify"}
    BY <1>3 DEF Generate, VerifyLuks, Place, FormatFails, UmountFails, SaveRecord, Mount, CleanUpMount,
       RestoreRecord, CleanUpMapper, FormatPCs
  <2>4. (pc' = "f_open" => pc = "f_verify" /\ phrase' = phrase) /\ (pc' = "f_luks" => phrase' \in Phrases)
    BY <1>3 DEF Generate, VerifyLuks, Place, FormatFails, UmountFails, SaveRecord, Mount, CleanUpMount,
       RestoreRecord, CleanUpMapper
  <2>. QED  BY <1>1, <2>1, <2>2, <2>3, <2>4 DEF KeyInv, Entered, Detached, MapperKept, Quiet, FormatPCs
<1>4. CASE LuksFormat
  <2>1. gaveUp' = TRUE /\ UNCHANGED <<phrase, detached, sanitize>> /\ pc = "f_luks"
        /\ pc' \in {"f_verify", "f_umount"} /\ (pc' = "f_verify" => created')
    BY <1>4 DEF LuksFormat
  <2>. QED  BY <2>1 DEF KeyInv, Entered, Detached, MapperKept, Quiet, DataKept, FormatPCs
<1>5. CASE OpenMapper
  <2>1. /\ UNCHANGED <<header, file, payload, readable, gaveUp, sanitize, detached, created>>
        /\ pc = "f_open" /\ pc' \in {"f_mkfs", "f_umount"}
        /\ Opens(NewHeader, phrase) /\ mapper' = NewHeader.vol
    BY <1>5 DEF OpenMapper, medium
  <2>2. DataKept'
    BY <2>1, SameCopies, DataStay DEF KeyInv
  <2>3. SomeGood(mapper')
    <3>1. phrase \in Phrases
      BY <2>1 DEF KeyInv, Entered
    <3>2. NewHeader \in {header, file} /\ NewHeader \in Headers \cup {NoHeader}
      BY DEF NewHeader, HeaderAt, TypeOK, VolumeTypeOK
    <3>. QED  BY <2>1, <3>1, <3>2, GoodOpens DEF SomeGood
  <2>4. SomeGood(mapper)'
    BY <2>1, <2>3 DEF SomeGood, Good, Used, Free
  <2>. QED  BY <2>1, <2>2, <2>4 DEF KeyInv, Entered, Detached, MapperKept, Quiet, FormatPCs
<1>6. CASE Mkfs
  <2>1. /\ UNCHANGED <<header, file, sanitize, detached, created>>
        /\ pc = "f_mkfs" /\ pc' = "f_place" /\ payload' = mapper
    BY <1>6 DEF Mkfs, formatLocals, flags
  <2>2. DataKept'
    <3>1. mapper # Plain => SomeGood(mapper)
      BY <2>1 DEF KeyInv, MapperKept
    <3>. QED  BY <2>1, <3>1, SameCopies DEF DataKept, SomeGood, Good, Used, Free
  <2>. QED  BY <2>1, <2>2 DEF KeyInv, Entered, Detached, MapperKept, Quiet, FormatPCs
<1>7. CASE WriteBreaks
  <2>1. /\ readable' = FALSE /\ gaveUp' = TRUE /\ pc' = "f_umount" /\ UNCHANGED sanitize
        /\ pc \in FormatPCs
    BY <1>7 DEF WriteBreaks, FormatPCs
  <2>. QED  BY <2>1 DEF KeyInv, Entered, Detached, MapperKept, Quiet, DataKept
<1>8. CASE Chown \/ UnlinkHeader
  <2>1. pc' = "idle" /\ pc \in FormatPCs
    BY <1>8 DEF Chown, UnlinkHeader, EndFormat, EndCommand, FormatPCs
  <2>2. UNCHANGED <<header, payload, readable, gaveUp>>
    BY <1>8 DEF Chown, UnlinkHeader, world, device, medium
  <2>3. file' = file \/ (detached /\ ~created)
    BY <1>8 DEF Chown, UnlinkHeader, world
  <2>4. file' = NoHeader \/ file' = file
    BY <1>8 DEF Chown, UnlinkHeader, world
  <2>5. DataKept'
    <3>1. CASE gaveUp
      BY <2>2, <3>1 DEF DataKept
    <3>2. CASE file' = file
      BY <2>2, <3>2, SameCopies, DataStay DEF KeyInv
    <3>3. file' = file \/ gaveUp
      BY <2>1, <2>3, <2>4 DEF KeyInv, Detached
    <3>. QED  BY <3>1, <3>2, <3>3
  <2>. QED  BY <2>1, <2>5 DEF KeyInv, Entered, Detached, MapperKept, Quiet, FormatPCs
<1>. QED
  BY <1>2, <1>3, <1>4, <1>5, <1>6, <1>7, <1>8 DEF Formatter, FormatStep

\* Every step keeps the invariant about keys.
LEMMA KeyInvStep ==
  ASSUME TypeOK, KeyInv, [Next]_vars
  PROVE  KeyInv'
<1>1. CASE UNCHANGED vars
  <2>1. UNCHANGED <<header, file, payload, readable, gaveUp, mapper, sanitize>>
    BY <1>1 DEF vars, world, device, medium, use, history
  <2>2. UNCHANGED <<pc, phrase, detached, created, new>>
    BY <1>1 DEF vars, formatLocals, flags, keyLocals
  <2>3. DataKept' /\ MapperKept'
    BY <2>1, <2>2, SameCopies, DataStay DEF KeyInv, MapperKept
  <2>. QED  BY <2>1, <2>2, <2>3 DEF KeyInv, Entered, Detached, Quiet
<1>. QED  BY <1>1, KeeperKeys, EraserKeys, OthersKeys, FormatterKeys DEF Next

\* The invariant about keys holds at first.
LEMMA InitKeys ==
  ASSUME Init
  PROVE  KeyInv
  BY DEF Init, VolumeInit, FormattingInit, KeyInv, Entered, Detached, MapperKept, Quiet, DataKept, FormatPCs

(* What KeyKept promises of the user's passphrases and headers, for any    *)
(* number of keyslots, volumes, changes by others and broken commands.     *)
THEOREM KeysKept == Spec => []KeyKept
<1>1. Spec => [](TypeOK /\ KeyInv)
  BY InitType, TypeStep, InitKeys, KeyInvStep, PTL DEF Spec
<1>2. TypeOK /\ KeyInv => KeyKept
  BY KeyKeptFrom DEF KeyInv
<1>. QED  BY <1>1, <1>2, PTL

-----------------------------------------------------------------------------
(***************************************************************************)
(* What an erase reports.                                                  *)
(***************************************************************************)
\* EraseInv outside an erase.
LEMMA ErasedApart ==
  ASSUME EraseInv, pc \notin ErasePCs, pc' \notin ErasePCs, UNCHANGED <<password, erased>>,
         outcome' \in {"none", "ended", "format failed"}, pc' # "idle" => outcome' = "none",
         "password" \in stuck => "password" \in stuck'
  PROVE  EraseInv'
  BY DEF EraseInv, DestroyedIsGone, ErasePCs

\* The luks commands bring back nothing that was erased.
LEMMA KeeperErases ==
  ASSUME TypeOK, EraseInv, Keeper
  PROVE  EraseInv'
<1>1. UNCHANGED <<password, stuck>>
  <2>1. CASE KeyCommand \/ ConvertKey \/ Backup \/ KeyFails
    BY <2>1 DEF KeyCommand, PasswdStart, ParamsStart, KeyStart, BackupStart, RestoreStart, WipeStart,
       ConvertKey, Backup, KeyFails, world, device
  <2>2. CASE AddKey \/ RemoveKey \/ Restore \/ Wipe
    BY <2>2 DEF AddKey, RemoveKey, Restore, Wipe, history
  <2>. QED  BY <2>1, <2>2 DEF Keeper, KeyStep
<1>2. outcome' \in {"none", "ended"} /\ (pc' # "idle" => outcome' = "none")
  <2>1. CASE KeyCommand
    BY <2>1 DEF KeyCommand, PasswdStart, ParamsStart, KeyStart, BackupStart, RestoreStart, WipeStart,
       StartCommand
  <2>2. CASE AddKey
    BY <2>2 DEF AddKey, history, EraseInv
  <2>3. CASE RemoveKey \/ ConvertKey \/ Backup \/ Restore \/ Wipe \/ KeyFails
    BY <2>3 DEF RemoveKey, ConvertKey, Backup, Restore, Wipe, KeyFails, EndKeys, EndCommand
  <2>. QED  BY <2>1, <2>2, <2>3 DEF Keeper, KeyStep
<1>3. pc \notin ErasePCs /\ pc' \notin ErasePCs
  BY KeeperAt DEF KeyPCs, ErasePCs
<1>4. UNCHANGED erased
  BY DEF Keeper, eraseLocals
<1>. QED  BY <1>1, <1>2, <1>3, <1>4, ErasedApart

\* Where a format is in its course.
LEMMA FormatterAt ==
  ASSUME Formatter
  PROVE  /\ pc \in {"idle"} \cup FormatPCs /\ pc' \in {"idle"} \cup FormatPCs
         /\ \/ outcome' = "none" /\ pc = "idle"
            \/ outcome' = outcome /\ pc # "idle"
            \/ outcome' \in {"ended", "format failed"} /\ pc' = "idle"
         /\ outcome' = "format failed" => pc = "f_unlink" \/ outcome' = outcome
         /\ UNCHANGED password
         /\ "password" \in stuck => "password" \in stuck'
<1>1. CASE FormatStart
  BY <1>1 DEF FormatStart, StartCommand, FormatPCs, world, device
<1>2. CASE Generate \/ VerifyLuks \/ Place \/ FormatFails \/ UmountFails
  BY <1>2 DEF Generate, VerifyLuks, Place, FormatFails, UmountFails, FormatPCs, world, device, history
<1>3. CASE LuksFormat \/ OpenMapper \/ Mkfs \/ SaveRecord \/ Mount \/ WriteBreaks
  <2>1. pc \in FormatPCs /\ pc' \in FormatPCs
    BY <1>3 DEF LuksFormat, OpenMapper, Mkfs, SaveRecord, Mount, WriteBreaks, FormatPCs
  <2>2. UNCHANGED <<outcome, password>>
    BY <1>3 DEF LuksFormat, OpenMapper, Mkfs, SaveRecord, Mount, WriteBreaks, device, history
  <2>3. "password" \in stuck => "password" \in stuck'
    BY <1>3 DEF LuksFormat, OpenMapper, Mkfs, SaveRecord, Mount, WriteBreaks, history
  <2>. QED  BY <2>1, <2>2, <2>3 DEF FormatPCs
<1>4. CASE CleanUpMount \/ CleanUpMapper \/ RestoreRecord
  <2>1. pc \in FormatPCs /\ pc' \in FormatPCs
    BY <1>4 DEF CleanUpMount, CleanUpMapper, RestoreRecord, FormatPCs
  <2>2. UNCHANGED <<outcome, password>>
    BY <1>4 DEF CleanUpMount, CleanUpMapper, RestoreRecord, device
  <2>3. "password" \in stuck => "password" \in stuck'
    BY <1>4 DEF CleanUpMount, CleanUpMapper, RestoreRecord
  <2>. QED  BY <2>1, <2>2, <2>3 DEF FormatPCs
<1>5. CASE Chown
  BY <1>5 DEF Chown, EndFormat, EndCommand, FormatPCs, world, device
<1>6. CASE UnlinkHeader
  BY <1>6 DEF UnlinkHeader, EndFormat, EndCommand, FormatPCs, device
<1>. QED  BY <1>1, <1>2, <1>3, <1>4, <1>5, <1>6 DEF Formatter, FormatStep

\* format brings back nothing that was erased.
LEMMA FormatterErases ==
  ASSUME TypeOK, EraseInv, Formatter
  PROVE  EraseInv'
<1>1. pc \notin ErasePCs /\ pc' \notin ErasePCs
  BY FormatterAt DEF FormatPCs, ErasePCs
<1>2. outcome' \in {"none", "ended", "format failed"} /\ (pc' # "idle" => outcome' = "none")
  BY FormatterAt DEF EraseInv
<1>3. UNCHANGED <<password, erased>>
  BY FormatterAt DEF Formatter, eraseLocals
<1>. QED  BY <1>1, <1>2, <1>3, FormatterAt, ErasedApart

\* What others do during an erasure makes nothing readable that was erased.
LEMMA OthersErase ==
  ASSUME TypeOK, EraseInv, Others
  PROVE  EraseInv'
<1>1. UNCHANGED erased
  BY DEF Others, eraseLocals
<1>2. CASE OthersAct
  <2>1. /\ UNCHANGED <<readable, payload, sanitize, password, pc>>
        /\ outcome' = IF pc = "idle" THEN "none" ELSE outcome
    BY <1>2 DEF OthersAct, OthersMount, OthersMountTheirs, OthersUnmount, OthersRecord, OthersAddKey,
       OthersRemoveKey, Event
  <2>2. header = NoHeader => header' = NoHeader
    BY <1>2 DEF OthersAct, OthersMount, OthersMountTheirs, OthersUnmount, OthersRecord, OthersAddKey,
       OthersRemoveKey
  <2>3. "password" \in stuck => "password" \in stuck'
    BY <1>2 DEF OthersAct, OthersMount, OthersMountTheirs, OthersUnmount, OthersRecord, OthersAddKey,
       OthersRemoveKey, Held
  <2>4. outcome' = "none"
    BY <2>1 DEF EraseInv
  <2>. QED  BY <1>1, <2>1, <2>2, <2>3, <2>4 DEF EraseInv, IsGone, DestroyedIsGone
<1>3. CASE CloseVolume
  <2>1. pc = "idle" /\ pc' = "idle" /\ outcome' = "none" /\ UNCHANGED <<password, stuck>>
    BY <1>3 DEF CloseVolume
  <2>. QED  BY <1>1, <2>1, ErasedApart DEF ErasePCs
<1>4. CASE DriveSanitizes
  <2>1. UNCHANGED <<password, pc, stuck, outcome>>
    BY <1>4 DEF DriveSanitizes, history
  <2>2. CASE sanitize' = "done" /\ readable' = FALSE /\ payload' = Plain /\ header' = NoHeader
    BY <1>1, <2>1, <2>2 DEF EraseInv, IsGone, DestroyedIsGone
  <2>3. CASE sanitize' = "failed" /\ UNCHANGED medium
    BY <1>1, <2>1, <2>3 DEF EraseInv, IsGone, DestroyedIsGone, medium
  <2>. QED  BY <1>4, <2>2, <2>3 DEF DriveSanitizes
<1>. QED  BY <1>2, <1>3, <1>4 DEF Others

\* A nuke that goes on to the next method, or comes to its end without success.
LEMMA OnwardErase ==
  ASSUME EraseInv, pc \in ErasePCs, Onward, ~erased,
         password' => "password" \in stuck'
  PROVE  EraseInv'
<1>1. pc' \in {"e_try", "idle"} /\ (pc' = "e_try" => outcome' = outcome) /\ (pc' = "idle" => outcome' = "ended")
  BY DEF Onward, EndErase, EndCommand
<1>2. ~erased'
  BY DEF Onward, EndErase
<1>3. outcome = "none"
  BY DEF EraseInv, ErasePCs
<1>. QED  BY <1>1, <1>2, <1>3 DEF EraseInv, DestroyedIsGone

\* A command that is at its end.
LEMMA EndedErase ==
  ASSUME NEW how \in {"ended", "begun", "nuked", "entropised"}, EndErase(how),
         how \in {"nuked", "entropised"} => IsGone',
         how = "begun" => sanitize' = "running",
         password' => "password" \in stuck'
  PROVE  EraseInv'
<1>1. pc' = "idle" /\ outcome' = how /\ ~erased'
  BY DEF EndErase, EndCommand
<1>. QED  BY <1>1 DEF EraseInv, IsGone, DestroyedIsGone

\* An erasure reports only what it has seen done, and a password left behind.
LEMMA EraserErases ==
  ASSUME TypeOK, EraseInv, Eraser
  PROVE  EraseInv'
<1>1. pc \notin {"e_erase", "e_disable"} => (password => "password" \in stuck) /\ ~erased
  BY DEF EraseInv
<1>2. CASE EraseCommand
  <2>1. /\ pc = "idle" /\ pc' \in {"e_try", "e_random"} /\ outcome' = "none"
        /\ UNCHANGED <<password, stuck>> /\ erased' \in {erased, FALSE}
    BY <1>2 DEF EraseCommand, NukeStart, EntropiseStart, StartCommand, world, device, eraseLocals
  <2>2. ~erased'
    BY <1>1, <2>1
  <2>. QED  BY <1>1, <2>1, <2>2 DEF EraseInv, DestroyedIsGone
<1>3. CASE Sanitize
  <2>1. /\ pc = "e_try" /\ pc' = "e_poll" /\ sanitize' = "running"
        /\ UNCHANGED <<password, stuck, outcome, erased>>
    BY <1>3 DEF Sanitize, Trying, history, eraseLocals
  <2>. QED  BY <1>1, <2>1 DEF EraseInv, DestroyedIsGone
<1>4. CASE PollDone
  <2>1. pc = "e_poll" /\ sanitize = "done" /\ EndErase("nuked")
    BY <1>4 DEF PollDone
  <2>2. UNCHANGED <<password, stuck, readable, payload, header>>
    BY <1>4 DEF PollDone, world, device, medium
  <2>3. IsGone'
    BY <2>1, <2>2 DEF EraseInv, IsGone
  <2>. QED  BY <1>1, <2>1, <2>2, <2>3, EndedErase
<1>5. CASE PollGivesUp \/ MethodFails
  <2>1. pc \in {"e_poll", "e_try"} /\ Onward /\ UNCHANGED <<password, stuck>>
    BY <1>5 DEF PollGivesUp, MethodFails, world, device
  <2>. QED  BY <1>1, <2>1, OnwardErase DEF ErasePCs
<1>6. CASE AtaSanitize
  <2>1. pc = "e_try" /\ EndErase("begun") /\ sanitize' = "running" /\ UNCHANGED <<password, stuck>>
    BY <1>6 DEF AtaSanitize, Trying
  <2>. QED  BY <1>1, <2>1, EndedErase
<1>7. CASE EraseAtOnce \/ Overwrite \/ Entropise
  <2>1. PICK how \in {"nuked", "entropised"} : EndErase(how)
    BY <1>7 DEF EraseAtOnce, Overwrite, Entropise
  <2>2. pc \in {"e_try", "e_random"} /\ Gone /\ UNCHANGED <<password, stuck>>
    BY <1>7 DEF EraseAtOnce, Overwrite, Entropise, Trying
  <2>3. IsGone'
    BY <2>2 DEF Gone, IsGone
  <2>. QED  BY <1>1, <2>1, <2>2, <2>3, EndedErase
<1>8. CASE EraseInterrupted
  <2>1. pc \in {"e_try", "e_poll", "e_random"} /\ EndErase("ended") /\ UNCHANGED <<password, stuck>>
    BY <1>8 DEF EraseInterrupted
  <2>. QED  BY <1>1, <2>1, EndedErase
<1>9. CASE SetPassword
  <2>1. pc = "e_try"
    BY <1>9 DEF SetPassword, Trying
  <2>2. CASE pc' = "e_erase" /\ UNCHANGED <<phrase, outcome, stuck, eraseLocals>>
    <3>1. pc' = "e_erase" /\ outcome' = outcome /\ erased' = erased
      BY <2>2 DEF eraseLocals
    <3>. QED  BY <1>1, <2>1, <3>1 DEF EraseInv, DestroyedIsGone
  <2>3. CASE EndErase("ended") /\ stuck' = stuck \cup {"password"}
    BY <2>3, EndedErase
  <2>. QED  BY <1>9, <2>2, <2>3 DEF SetPassword
<1>10. CASE AtaErase
  <2>1. /\ pc = "e_erase" /\ pc' = "e_disable" /\ password' = FALSE /\ Gone
        /\ UNCHANGED outcome
    BY <1>10 DEF AtaErase, history
  <2>. QED  BY <2>1 DEF EraseInv, DestroyedIsGone, Gone, IsGone
<1>11. CASE AtaEraseFails
  <2>1. pc = "e_erase" /\ pc' = "e_disable" /\ UNCHANGED <<outcome, erased>>
    BY <1>11 DEF AtaEraseFails, history
  <2>. QED  BY <2>1 DEF EraseInv, DestroyedIsGone
<1>12. CASE Disable
  <2>1. pc = "e_disable" /\ UNCHANGED <<readable, payload, header>>
    BY <1>12 DEF Disable, medium
  <2>2. password' => "password" \in stuck'
    BY <1>12 DEF Disable, TypeOK, VolumeTypeOK
  <2>3. CASE erased /\ EndErase("nuked")
    <3>1. IsGone'
      BY <2>1, <2>3 DEF EraseInv, IsGone
    <3>. QED  BY <2>2, <2>3, <3>1, EndedErase
  <2>4. CASE ~erased /\ Onward
    BY <2>1, <2>2, <2>4, OnwardErase DEF ErasePCs
  <2>. QED  BY <1>12, <2>3, <2>4 DEF Disable
<1>. QED
  BY <1>2, <1>3, <1>4, <1>5, <1>6, <1>7, <1>8, <1>9, <1>10, <1>11, <1>12 DEF Eraser, EraseStep

\* Every step keeps the invariant about erasures.
LEMMA EraseInvStep ==
  ASSUME TypeOK, EraseInv, [Next]_vars
  PROVE  EraseInv'
<1>1. CASE UNCHANGED vars
  <2>1. UNCHANGED <<readable, payload, header, sanitize, password, pc, stuck, outcome, erased>>
    BY <1>1 DEF vars, world, device, medium, history, eraseLocals
  <2>. QED  BY <2>1 DEF EraseInv, IsGone, DestroyedIsGone
<1>. QED  BY <1>1, KeeperErases, FormatterErases, EraserErases, OthersErase DEF Next

\* The invariant about erasures holds at first.
LEMMA InitErase ==
  ASSUME Init
  PROVE  EraseInv
  BY DEF Init, VolumeInit, SecureEraseInit, EraseInv, DestroyedIsGone

\* The invariant about erasures holds at all times.
LEMMA EraseInvHolds == Spec => []EraseInv
  BY InitType, TypeStep, InitErase, EraseInvStep, PTL DEF Spec

(* What nuke and entropise report has happened, on any drive, in whatever  *)
(* order methods fail, and whatever others do to the device meanwhile.     *)
THEOREM ErasedIsGone == Spec => []DestroyedIsGone
<1>1. EraseInv => DestroyedIsGone
  BY DEF EraseInv
<1>. QED  BY <1>1, EraseInvHolds, PTL

-----------------------------------------------------------------------------
(***************************************************************************)
(* What the cleanup of format undoes.                                      *)
(***************************************************************************)
LEMMA FormatterUndoes ==
  ASSUME TypeOK, UndoInv, Formatter
  PROVE  UndoInv'
<1>1. CASE FormatStart
  <2>1. /\ mapper' = Plain /\ mounted' # "own" /\ ~elsewhere' /\ before' = record'
        /\ pc' \in {"f_phrase", "f_mkfs"} /\ ~written'
    BY <1>1 DEF FormatStart, Idle, world, device, use
  <2>. QED  BY <2>1 DEF UndoInv
<1>2. CASE Generate \/ LuksFormat \/ VerifyLuks \/ Mkfs \/ Place \/ WriteBreaks
  <2>1. UNCHANGED <<mapper, mounted, elsewhere, record, stuck>>
    <3>1. CASE Generate \/ VerifyLuks \/ Place
      BY <3>1 DEF Generate, VerifyLuks, Place, world, device, use, history
    <3>2. CASE LuksFormat \/ Mkfs \/ WriteBreaks
      BY <3>2 DEF LuksFormat, Mkfs, WriteBreaks, use
    <3>. QED  BY <1>2, <3>1, <3>2
  <2>2. UNCHANGED <<opened, placed, written, previous, before>>
    BY <1>2 DEF Generate, LuksFormat, VerifyLuks, Mkfs, Place, WriteBreaks, formatLocals, flags
  <2>3. /\ pc \in {"f_phrase", "f_luks", "f_verify", "f_mkfs", "f_place"}
        /\ pc' \in {"f_luks", "f_verify", "f_open", "f_place", "f_record", "f_umount"}
    BY <1>2 DEF Generate, LuksFormat, VerifyLuks, Mkfs, Place, WriteBreaks
  <2>4. ~written
    BY <2>3 DEF UndoInv, FormatPCs
  <2>. QED  BY <2>1, <2>2, <2>3, <2>4 DEF UndoInv, FormatPCs
<1>3. CASE OpenMapper
  <2>1. UNCHANGED <<mounted, elsewhere, record, placed, written, previous, before>>
    BY <1>3 DEF OpenMapper
  <2>2. /\ pc = "f_open" /\ mapper = Plain
        /\ \/ opened' /\ pc' = "f_mkfs" /\ stuck' = stuck
           \/ pc' = "f_umount" /\ stuck' = stuck \cup {"mapper"}
    BY <1>3 DEF OpenMapper
  <2>. QED  BY <2>1, <2>2 DEF UndoInv, FormatPCs
<1>4. CASE SaveRecord
  <2>1. UNCHANGED <<mapper, mounted, elsewhere, opened, before>>
    BY <1>4 DEF SaveRecord, device, use
  <2>2. /\ pc = "f_record" /\ previous' = record /\ placed' = written'
        /\ \/ written' /\ pc' = "f_mount" /\ stuck' = stuck
           \/ ~written' /\ pc' = "f_umount" /\ stuck' = stuck \cup {"record"}
    BY <1>4 DEF SaveRecord
  <2>. QED  BY <2>1, <2>2 DEF UndoInv, FormatPCs
<1>5. CASE Mount
  <2>1. UNCHANGED <<mapper, elsewhere, record, stuck, opened, placed, written, previous, before>>
    BY <1>5 DEF Mount, history, formatLocals, flags
  <2>2. pc = "f_mount" /\ pc' = "f_chown"
    BY <1>5 DEF Mount
  <2>. QED  BY <2>1, <2>2 DEF UndoInv, FormatPCs
<1>6. CASE FormatFails
  <2>1. UNCHANGED <<mapper, mounted, elsewhere, record, stuck>>
    BY <1>6 DEF FormatFails, world, device, use, history
  <2>2. UNCHANGED <<opened, placed, written, previous, before>>
    BY <1>6 DEF FormatFails, formatLocals, flags
  <2>3. pc \in FormatPCs \ {"f_umount", "f_close", "f_restore", "f_unlink"} /\ pc' = "f_umount"
    BY <1>6 DEF FormatFails
  <2>. QED  BY <2>1, <2>2, <2>3 DEF UndoInv, FormatPCs
<1>7. CASE CleanUpMount \/ UmountFails
  <2>1. UNCHANGED <<mapper, elsewhere, record>>
    BY <1>7 DEF CleanUpMount, UmountFails, world, device, use
  <2>2. UNCHANGED <<opened, placed, written, previous, before>>
    BY <1>7 DEF CleanUpMount, UmountFails, formatLocals, flags
  <2>3. pc = "f_umount" /\ pc' = "f_close"
    BY <1>7 DEF CleanUpMount, UmountFails
  <2>4. /\ stuck \subseteq stuck'
        /\ \/ mounted' # "own" \/ {"mount", "mapper"} \subseteq stuck'
           \/ ~placed /\ mounted' = mounted
    <3>1. CASE CleanUpMount
      BY <3>1 DEF CleanUpMount
    <3>2. CASE UmountFails
      BY <3>2 DEF UmountFails, world, device, use
    <3>. QED  BY <1>7, <3>1, <3>2
  <2>. QED  BY <2>1, <2>2, <2>3, <2>4 DEF UndoInv, FormatPCs
<1>8. CASE CleanUpMapper
  <2>1. UNCHANGED <<mounted, elsewhere, record>>
    BY <1>8 DEF CleanUpMapper
  <2>2. UNCHANGED <<opened, placed, written, previous, before>>
    BY <1>8 DEF CleanUpMapper, formatLocals, flags
  <2>3. pc = "f_close" /\ pc' = "f_restore"
    BY <1>8 DEF CleanUpMapper
  <2>4. /\ stuck \subseteq stuck'
        /\ \/ mapper' = Plain \/ "mapper" \in stuck'
           \/ mapper' = mapper /\ (~opened \/ mounted = "own" \/ elsewhere)
    BY <1>8 DEF CleanUpMapper
  <2>. QED  BY <2>1, <2>2, <2>3, <2>4 DEF UndoInv, FormatPCs
<1>9. CASE RestoreRecord
  <2>1. UNCHANGED <<mapper, mounted, elsewhere>>
    BY <1>9 DEF RestoreRecord, device, use
  <2>2. UNCHANGED <<opened, placed, written, previous, before>>
    BY <1>9 DEF RestoreRecord, formatLocals, flags
  <2>3. pc = "f_restore" /\ pc' = "f_unlink"
    BY <1>9 DEF RestoreRecord
  <2>4. /\ stuck \subseteq stuck'
        /\ \/ "record" \in stuck'
           \/ record' = IF written THEN previous ELSE record
    BY <1>9 DEF RestoreRecord
  <2>. QED  BY <2>1, <2>2, <2>3, <2>4 DEF UndoInv, FormatPCs
<1>10. CASE Chown \/ UnlinkHeader
  BY <1>10 DEF Chown, UnlinkHeader, EndFormat, EndCommand, UndoInv, FormatPCs
<1>. QED
  BY <1>1, <1>2, <1>3, <1>4, <1>5, <1>6, <1>7, <1>8, <1>9, <1>10 DEF Formatter, FormatStep

\* What others do during the cleanup is excused, or leaves it what it has to undo.
LEMMA OthersUndo ==
  ASSUME TypeOK, UndoInv, Others
  PROVE  UndoInv'
<1>1. UNCHANGED <<opened, placed, written, previous, before>>
  BY DEF Others, formatLocals, flags
<1>2. CASE CloseVolume
  BY <1>2 DEF CloseVolume, UndoInv, FormatPCs
<1>3. CASE DriveSanitizes
  <2>1. UNCHANGED <<mapper, mounted, elsewhere, record, stuck, pc>>
    BY <1>3 DEF DriveSanitizes, use, history
  <2>. QED  BY <1>1, <2>1 DEF UndoInv
<1>4. CASE OthersAct /\ pc \in FormatPCs
  <2>1. UNCHANGED <<mapper, pc>>
    BY <1>4 DEF OthersAct, OthersMount, OthersMountTheirs, OthersUnmount, OthersRecord, OthersAddKey,
       OthersRemoveKey, Event
  <2>2. /\ stuck \subseteq stuck'
        /\ elsewhere' => elsewhere \/ "mapper" \in stuck'
        /\ mounted' = "own" => mounted = "own" \/ {"mount", "mapper"} \subseteq stuck'
        /\ record' = record \/ "record" \in stuck'
    <3>1. CASE OthersMount \/ OthersRecord
      BY <1>4, <3>1 DEF OthersMount, OthersRecord, Held, FormatPCs
    <3>2. CASE OthersMountTheirs \/ OthersUnmount
      BY <3>2 DEF OthersMountTheirs, OthersUnmount
    <3>3. CASE OthersAddKey \/ OthersRemoveKey
      BY <3>3 DEF OthersAddKey, OthersRemoveKey
    <3>. QED  BY <1>4, <3>1, <3>2, <3>3 DEF OthersAct
  <2>. QED  BY <1>1, <2>1, <2>2 DEF UndoInv
<1>5. CASE OthersAct /\ pc \notin FormatPCs
  <2>1. pc' = pc
    BY <1>5 DEF OthersAct, OthersMount, OthersMountTheirs, OthersUnmount, OthersRecord, OthersAddKey,
       OthersRemoveKey, Event
  <2>. QED  BY <1>5, <2>1 DEF UndoInv
<1>. QED  BY <1>2, <1>3, <1>4, <1>5 DEF Others

\* Every step keeps what the cleanup of format still has to undo.
LEMMA UndoInvStep ==
  ASSUME TypeOK, UndoInv, [Next]_vars
  PROVE  UndoInv'
<1>1. CASE UNCHANGED vars
  <2>1. UNCHANGED <<mapper, mounted, elsewhere, record, stuck, pc>>
    BY <1>1 DEF vars, world, device, use, history
  <2>2. UNCHANGED <<opened, placed, written, previous, before>>
    BY <1>1 DEF vars, formatLocals, flags
  <2>. QED  BY <2>1, <2>2 DEF UndoInv
<1>2. CASE Keeper \/ Eraser
  <2>1. pc' \notin FormatPCs
    BY <1>2, KeeperAt, EraserAt DEF KeyPCs, ErasePCs, FormatPCs
  <2>. QED  BY <2>1 DEF UndoInv
<1>. QED  BY <1>1, <1>2, FormatterUndoes, OthersUndo DEF Next

\* No cleanup is due at first.
LEMMA InitUndo ==
  ASSUME Init
  PROVE  UndoInv
  BY DEF Init, VolumeInit, UndoInv, FormatPCs

\* The step that reports a failed format.
LEMMA ReportStep ==
  ASSUME EraseInv, UndoInv, [Next]_vars, pc \in FormatPCs, outcome' = "format failed"
  PROVE  /\ mapper = Plain \/ "mapper" \in stuck
         /\ mounted # "own" \/ "mount" \in stuck
         /\ record = before \/ "record" \in stuck
<1>1. outcome = "none"
  BY DEF EraseInv, FormatPCs
<1>2. pc = "f_unlink"
  <2>1. CASE UNCHANGED vars
    BY <1>1, <2>1 DEF vars, history
  <2>2. CASE Keeper \/ Eraser
    BY <2>2, KeeperAt, EraserAt DEF KeyPCs, ErasePCs, FormatPCs
  <2>3. CASE Others
    <3>1. outcome' = outcome
      BY <2>3 DEF Others, OthersAct, OthersMount, OthersMountTheirs, OthersUnmount, OthersRecord,
         OthersAddKey, OthersRemoveKey, Event, CloseVolume, DriveSanitizes, history, FormatPCs
    <3>. QED  BY <1>1, <3>1
  <2>4. CASE Formatter
    BY <1>1, <2>4, FormatterAt
  <2>. QED  BY <2>1, <2>2, <2>3, <2>4 DEF Next
<1>. QED  BY <1>2 DEF UndoInv, FormatPCs

(* Whatever step of a format fails, and whatever the user and others do    *)
(* meanwhile, when it says that it failed mapper, mount and record are as  *)
(* they were, but for what the cleanup could not reach.                    *)
THEOREM FormatIsUndone == Spec => FormatUndone
<1>1. Spec => [](EraseInv /\ UndoInv)
  BY InitType, TypeStep, InitErase, EraseInvStep, InitUndo, UndoInvStep, PTL DEF Spec
<1>2. EraseInv /\ UndoInv /\ [Next]_vars =>
        [(pc \in FormatPCs /\ outcome' = "format failed") =>
           /\ mapper = Plain \/ "mapper" \in stuck
           /\ mounted # "own" \/ "mount" \in stuck
           /\ record = before \/ "record" \in stuck]_vars
  BY ReportStep
<1>. QED  BY <1>1, <1>2, PTL DEF Spec, FormatUndone
=============================================================================
