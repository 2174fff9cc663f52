----------------------------- MODULE CANSettings ----------------------------
(***************************************************************************)
(* The settings of a CANBadger: an object that is changed by its setters,  *)
(* sent as bytes (serialize), and read back from bytes (deserialize), all  *)
(* of them or, when a message was cut off, the first ones.                 *)
(*                                                                         *)
(* A text is its characters, which know what they belong to and whether    *)
(* they are ASCII; a number of 32 bits is the set of its bits.             *)
(***************************************************************************)
EXTENDS Integers, Sequences

CONSTANTS
  IdLengths,  \* lengths of the names tried, valid or not
  IpLengths,  \* lengths of the IPv4 addresses tried, and 0 for anything else
  TriedBits,  \* status bits tried, valid or not
  Speeds      \* speeds tried: sets of bits, valid or not

ASSUME SpeedsAssumption == Speeds \subseteq SUBSET Nat

VARIABLES
  settings,  \* the CANBadgerSettings
  arrived    \* history: what has become of it at the other end, unless it has changed since

settingsVars == <<settings, arrived>>

Status     == 1
Words      == 1..6
StatusBits == 0..29

Text(of, n) == [i \in 1..n |-> [text |-> of, at |-> i]]
LengthByte(n)   == <<[text |-> "length", at |-> n]>>

\* struct.pack() of an unsigned number, which has to fit; every byte knows its number.
Fits(word)  == word \subseteq 0..31
Packed(ws)  == [i \in 1..24 |-> [word |-> ws[1 + (i - 1) \div 4], at |-> i]]

\* The status, and of the default speeds the highest bit.
Defaults == <<{16, 18}, {24}, {18}, {18}, {}, {}>>

SettingsInit ==
  /\ settings = [id |-> <<>>, ip |-> <<>>, words |-> Defaults]
  /\ arrived = "nothing"

-----------------------------------------------------------------------------
(* serialize() and deserialize() *)

\* Mutant of IdIsWritten: the longest name is left out.
IdIsShorter(s) == Len(s.id) \in 1..17

IdIsWritten(s) == Len(s.id) \in 1..18

\* bytes(..., 'ascii'): every character is one byte, or UnicodeEncodeError is raised.
IsAscii(text) == \A i \in DOMAIN text : text[i].text # "not ascii"

\* It is the name whose length decides.
IpIsWritten(s) == Len(s.id) \in 1..15

Serialized(s) ==
  LET id == IF IdIsWritten(s) THEN s.id ELSE <<>>
      ip == IF IpIsWritten(s) THEN s.ip ELSE <<>>
  IN  LengthByte(Len(id)) \o id \o LengthByte(Len(ip)) \o ip \o Packed(s.words)

IdLength(raw) == raw[1].at
IpLength(raw) == raw[IdLength(raw) + 2].at
IntStart(raw) == IdLength(raw) + IpLength(raw) + 2

\* Neither an IndexError nor a CANBadgerSettingsException.
Readable(raw) ==
  /\ raw # <<>> /\ IdLength(raw) <= 18
  /\ Len(raw) >= IdLength(raw) + 2
  /\ Len(raw) - IntStart(raw) = 24

Deserialized(raw) ==
  [id    |-> SubSeq(raw, 2, IdLength(raw) + 1),
   ip    |-> SubSeq(raw, IdLength(raw) + 3, IntStart(raw)),
   words |-> [w \in Words |-> raw[IntStart(raw) + 4 * w].word]]

-----------------------------------------------------------------------------
Changed(s) == settings' = s /\ arrived' = "nothing"

\* The setters raise, and change nothing, for other arguments.
SetId(n) ==
  /\ n \in 0..18
  /\ \E of \in {"id", "not ascii"} : Changed([settings EXCEPT !.id = Text(of, n)])

SetIp(n) == n \in 7..15 /\ Changed([settings EXCEPT !.ip = Text("ip", n)])

SetStatusBit(b) ==
  b \in StatusBits /\ Changed([settings EXCEPT !.words[Status] = @ \cup {b}])

UnsetStatusBit(b) ==
  b \in StatusBits /\ Changed([settings EXCEPT !.words[Status] = @ \ {b}])

SetSpeed(w, speed) == w # Status /\ Changed([settings EXCEPT !.words[w] = speed])

\* No struct.error for a speed, and no UnicodeEncodeError for the name.
CanBeSent ==
  /\ \A w \in Words : Fits(settings.words[w])
  /\ IdIsWritten(settings) => IsAscii(settings.id)

SerializeRaises ==
  /\ ~CanBeSent
  /\ arrived' = "unsent"
  /\ UNCHANGED settings

\* configure(), or the settings the device reports, of which the first `cut' bytes come.
Transfer(cut) ==
  /\ CanBeSent
  /\ cut \in 0..Len(Serialized(settings))
  /\ LET raw   == SubSeq(Serialized(settings), 1, cut)
         whole == cut = Len(Serialized(settings))
     IN  arrived' = IF ~Readable(raw) THEN IF whole THEN "refused" ELSE "cut"
                    ELSE IF whole /\ Deserialized(raw) = settings THEN "same"
                    ELSE IF /\ whole /\ settings.ip # <<>>
                            /\ Deserialized(raw) = [settings EXCEPT !.ip = <<>>] THEN "no_ip"
                    ELSE "wrong"
  /\ UNCHANGED settings

SettingsNext ==
  \/ \E n \in IdLengths : SetId(n)
  \/ \E n \in IpLengths : SetIp(n)
  \/ \E b \in TriedBits : SetStatusBit(b) \/ UnsetStatusBit(b)
  \/ \E w \in Words, speed \in Speeds : SetSpeed(w, speed)
  \/ SerializeRaises
  \/ \E cut \in 0..59 : Transfer(cut)

SettingsSpec == SettingsInit /\ [][SettingsNext]_settingsVars

-----------------------------------------------------------------------------
(* Properties *)

(* "testing the deserialization" (test_canbadger_settings.py:20): whatever *)
(* calls came before, a whole message is read with the name and the        *)
(* numbers that were set, and the address that was set or, if the name is  *)
(* empty or longer than 15 characters, perhaps none; of a message with     *)
(* bytes missing nothing is read (can_settings.py:95-147).                 *)
SettingsArrive ==
  /\ arrived \notin {"wrong", "refused"}
  /\ arrived = "no_ip" => Len(settings.id) \notin 1..15

(* "[id len] [id str ..] [ip len] [ip str ..]" (can_settings.py:98), and   *)
(* "it should omit ip, id if not changed" (test_canbadger_settings.py:24): *)
(* an address that was set is in the message, whatever the name.           *)
AddressArrives == arrived # "no_ip"
=============================================================================
