-------------------------------- MODULE Cards --------------------------------
(***************************************************************************)
(* The cards of a contact (contact_card.go) and the settings kept in them  *)
(* (contact_types.go).  Each field of a card has a key, a value and a      *)
(* group; the settings for an email are the fields of the group its EMAIL  *)
(* field is in.  Every operation decodes a card, changes it and encodes it *)
(* again.  A CardGroup works on a copy of its card: what is set through it *)
(* reaches the card when the holder writes the copy back.                  *)
(*                                                                         *)
(* The key ring is the right one.  A card whose VERSION field is gone      *)
(* cannot be encoded, as go-vcard has it.                                  *)
(***************************************************************************)
EXTENDS Integers, FiniteSets, SequencesExt, Utils

CONSTANTS
    Emails,       \* emails of the contact
    Groups,       \* groups its fields are in; "" is no group
    Values,       \* values of a setting
    CardTypes,    \* types it can have, some of "clear", "signed", "encrypted", "both"
    MaxFields,    \* bound: fields of a card, its version among them
    MaxUses       \* bound: changes through a copy, or of the card beside it

ASSUME CardsAssumption == "" \in Groups /\ CardTypes # {} /\ MaxFields \in Nat \ {0} /\ MaxUses \in Nat

VARIABLES
    card,         \* the card: what its data holds, whether it is encrypted, and
                  \* whether the signature is that of the data
    copy,         \* a CardGroup: its group, its copy of the card, and the changes since
    setting       \* the last call of SetSettings: the email and the values

cardVars == <<card, copy, setting>>

Signs(type) == type \in {"signed", "both"}
Encrypts(type) == type \in {"encrypted", "both"}

Version == [key |-> "VERSION", value |-> "4.0", group |-> ""]
NoCopy == [group |-> "none", card |-> <<>>, uses |-> 0]
NoSetting == [email |-> "none", value |-> "none"]

\* Card.encode: it signs the new data, stores it, and leaves an old signature
\* in place if the type asks for none.
Encoded(c, fields) ==
    [c EXCEPT !.fields = fields, !.secret = Encrypts(c.type),
              !.signed = Signs(c.type) \/ (@ /\ fields = c.fields)]

\* Faulty variant: a card is encoded without its version.
AnyFields(fields) == TRUE

\* vcard.Encoder: the card must have a version.
CanEncode(fields) == Version \in ToSet(fields)

\* Card.decode: the data must be encrypted if the type says so, and match the
\* signature if there must be one.
Decodes(c) == (Encrypts(c.type) => c.secret) /\ (Signs(c.type) => c.signed)

\* NewCard, of every type.
CardsInit ==
    /\ \E type \in CardTypes :
          card = Encoded([type |-> type, fields |-> <<>>, secret |-> FALSE, signed |-> FALSE], <<Version>>)
    /\ copy = NoCopy
    /\ setting = NoSetting

\* A change of the card that a copy of it misses.
Beside ==
    \/ copy = NoCopy /\ UNCHANGED copy
    \/ copy # NoCopy /\ copy.uses < MaxUses /\ copy' = [copy EXCEPT !.uses = @ + 1]

Change(c, fields) == CanEncode(fields) /\ card' = Encoded(c, fields)

------------------------------------------------------------------------------
(* Operations on the card. *)

Indices(fields, key) == {i \in DOMAIN fields : fields[i].key = key}
First(ids) == CHOOSE i \in ids : \A j \in ids : i <= j

\* getGroup: that of the first EMAIL field with the value.
EmailAt(c, email) == {i \in DOMAIN c.fields : c.fields[i].key = "EMAIL" /\ c.fields[i].value = email}
GroupOf(c, email) == c.fields[First(EmailAt(c, email))].group

\* Card.Set of an EMAIL field: the first one is overwritten, group and all.
\* An email is put in once.
SetField(field) ==
    LET at == Indices(card.fields, field.key) IN
    /\ Decodes(card) /\ EmailAt(card, field.value) = {}
    /\ IF at # {} THEN Change(card, [card.fields EXCEPT ![First(at)] = field])
       ELSE Len(card.fields) < MaxFields /\ Change(card, Append(card.fields, field))
    /\ setting' = NoSetting
    /\ Beside

\* Card.Add.
AddField(field) ==
    /\ Decodes(card) /\ EmailAt(card, field.value) = {} /\ Len(card.fields) < MaxFields
    /\ Change(card, Append(card.fields, field))
    /\ setting' = NoSetting
    /\ Beside

\* Faulty variant: the type is changed, the data is not.
TypeOnly(type) == [card EXCEPT !.type = type]

Retyped(type) == Encoded([card EXCEPT !.type = type], card.fields)

\* Card.ChangeType.
ChangeType(type) ==
    /\ Decodes(card)
    /\ card' = Retyped(type)
    /\ setting' = NoSetting
    /\ Beside

\* The fields of a group, those of them that are the setting, and among these
\* those with a value.
FieldsOf(fields, group) == {f \in ToSet(fields) : f.group = group}
SettingsOf(fields, group) == {f \in FieldsOf(fields, group) : f.key = "PM"}
SettingsWith(fields, group, value) == {f \in SettingsOf(fields, group) : f.value = value}

\* The fields of all other groups.
Outside(c, group) == Filter(c.fields, FieldsOf(c.fields, group))

\* Card.DeleteGroup.  If the email is in no group, that is every field that is
\* in none, and the card cannot be encoded without its version.
DeleteGroup(email) ==
    /\ Decodes(card) /\ EmailAt(card, email) # {}
    /\ Change(card, Outside(card, GroupOf(card, email)))
    /\ setting' = NoSetting
    /\ Beside

------------------------------------------------------------------------------
(* Operations on a group. *)

\* Card.GetGroup.
GetGroup(email) ==
    /\ Decodes(card) /\ EmailAt(card, email) # {}
    /\ copy' = [group |-> GroupOf(card, email), card |-> card, uses |-> 0]
    /\ UNCHANGED <<card, setting>>

InGroup(fields, key, group) == {i \in Indices(fields, key) : fields[i].group = group}

\* Faulty variant: the first field of the key is taken, whatever its group.
AnyGroup(fields, key, group) == Indices(fields, key)

Own(fields, key, group) == InGroup(fields, key, group)

\* CardGroup.Set: the first field of the group with the key gets the value.
GroupSet(fields, group, key, value) ==
    LET at == Own(fields, key, group) IN
    IF at # {} THEN [fields EXCEPT ![First(at)].value = value]
    ELSE Append(fields, [key |-> key, value |-> value, group |-> group])

\* CardGroup.Set, Add, Remove and RemoveAll, of one setting.
UseGroup(value) ==
    /\ copy # NoCopy /\ copy.uses < MaxUses /\ Decodes(copy.card)
    /\ LET fields == copy.card.fields
       IN  \E new \in {GroupSet(fields, copy.group, "PM", value),
                       Append(fields, [key |-> "PM", value |-> value, group |-> copy.group]),
                       Filter(fields, SettingsWith(fields, copy.group, value)),
                       Filter(fields, SettingsOf(fields, copy.group))} :
              /\ Len(new) <= MaxFields
              /\ copy' = [copy EXCEPT !.card = Encoded(copy.card, new), !.uses = @ + 1]
    /\ UNCHANGED <<card, setting>>

\* The holder writes the copy back, as SetSettings does.
WriteBack ==
    /\ copy # NoCopy
    /\ card' = copy.card
    /\ copy' = NoCopy
    /\ setting' = NoSetting

\* Faulty variant: the copy is changed and not written back.
LeaveCard(group, value) == card

WithSetting(group, value) == Encoded(card, GroupSet(card.fields, group, "PM", value))

\* Contact.SetSettings, of one setting.
SetSettings(email, value) ==
    /\ Decodes(card) /\ EmailAt(card, email) # {}
    /\ LET group == GroupOf(card, email) IN
       /\ Own(card.fields, "PM", group) # {} \/ Len(card.fields) < MaxFields
       /\ card' = WithSetting(group, value)
    /\ setting' = [email |-> email, value |-> value]
    /\ Beside

\* Contact.GetSettings: the first value in the group, or none.
GetSetting(c, email) ==
    LET at == InGroup(c.fields, "PM", GroupOf(c, email))
    IN  IF at = {} THEN "none" ELSE c.fields[First(at)].value

EmailFields == [key : {"EMAIL"}, value : Emails, group : Groups]

CardsNext ==
    \/ \E field \in EmailFields : SetField(field) \/ AddField(field)
    \/ \E type \in CardTypes : ChangeType(type)
    \/ \E email \in Emails :
          DeleteGroup(email) \/ GetGroup(email) \/ \E value \in Values : SetSettings(email, value)
    \/ \E value \in Values : UseGroup(value)
    \/ WriteBack

CardsSpec == CardsInit /\ [][CardsNext]_cardVars

------------------------------------------------------------------------------
(* Properties. *)

CardsTypeOK ==
    /\ card.type \in CardTypes /\ Len(card.fields) <= MaxFields
    /\ \A i \in DOMAIN card.fields :
          card.fields[i] \in EmailFields \cup [key : {"PM"}, value : Values, group : Groups] \cup {Version}
    /\ Version \in ToSet(card.fields)

\* Whatever is done to a card, also through a copy of it and with other types
\* in between, it can be decoded: no stale signature is taken for its own.
AlwaysDecodes == Decodes(card) /\ (copy # NoCopy => Decodes(copy.card))

Inside(fields, group) == Filter(fields, ToSet(fields) \ FieldsOf(fields, group))

LeavesOthers ==
    /\ \A g \in Groups : setting' # setting /\ setting' # NoSetting /\ g # GroupOf(card, setting'.email)
           => Inside(card'.fields, g) = Inside(card.fields, g)
    /\ copy # NoCopy /\ copy' # NoCopy /\ copy'.group = copy.group /\ copy'.card # copy.card /\ card' = card
           => \/ Outside(copy'.card, copy.group) = Outside(copy.card, copy.group)
              \/ copy'.card = card

\* SetSettings for an email leaves those of every other group alone, and so
\* does what is done through a group: emails share their settings only if
\* both are in the same group or in none.
GroupsApart == [][LeavesOthers]_cardVars

\* GetSettings finds what SetSettings has set, though both go by the first
\* field of the group and the call works on a copy of the card.
SettingsReadBack ==
    setting # NoSetting => GetSetting(card, setting.email) = setting.value

\* A card can be read, gives back what was set, and a change of it touches no
\* other group.
CardsIntact == [](CardsTypeOK /\ AlwaysDecodes /\ SettingsReadBack) /\ GroupsApart
==============================================================================
