---------------------------- MODULE KeyRotation -----------------------------
(***************************************************************************)
(* KeyManager: what is encrypted under the current key is labelled with    *)
(* its version, the least number from 1 on that no old key has.  Operators *)
(* rotate the key in the configuration and re-encrypt the stored columns   *)
(* page by page, reading a page first and writing its rows one by one.     *)
(* Stored and handed out values are records, not bytes: a label (0: none), *)
(* the key they were sealed with, the text and how they look.              *)
(***************************************************************************)
EXTENDS Integers, Sequences, FiniteSets, Functions, FiniteSetsExt, SequencesExt, Maps

CONSTANTS
  Cells,          \* 1 .. n: stored columns (rows of one table) and values clients keep
  KindOf,         \* KindOf[c]: "string", "bytes" or "client"
  Texts,
  MaxKeys,        \* keys are 1 .. MaxKeys, in the order they come into use
  BatchSize,
  MaxSaves

ASSUME KeyAssumption == MaxKeys \in Nat

VARIABLES
  current, versions, currentVer,   \* KeyManager
  cell,           \* cell[c]: the stored value
  pass,           \* the re-encryption under way
  saves,
  text,           \* history: text[c] as last written
  overtaken,      \* history: cells re-encrypted from a stale page
  dropped         \* history: an old key has been taken out of the configuration

keyVars == <<current, versions, currentVer, cell, pass, saves, text,
             overtaken, dropped>>

Keys == 1 .. MaxKeys

Failed == [form |-> "error"]

NoPass == [op |-> "none"]

Stored == {c \in Cells : KindOf[c] # "client"}

Plain(t) == [form |-> "plain", text |-> t]

\* Mutated FirstFree: the search for a free version is left out.
FirstFreeFixed(old) == 1

\* NewKeyManager: the first version that no old key has.
FirstFree(old) == Min((1 .. MaxKeys + 1) \ DOMAIN old)

\* KeyForVersion, and the current key for a version that is unknown.
KeyOrCurrent(ver) ==
  IF ver # currentVer /\ ver \in DOMAIN versions THEN versions[ver] ELSE current

EncryptString(t) ==
  [form |-> "string", ver |-> currentVer, key |-> current, text |-> t]

\* The label is followed by the raw bytes.
EncryptBytes(t) ==
  [form |-> "bytes", ver |-> currentVer, key |-> current, text |-> t]

\* Only the right key opens a sealed value (AES-GCM).
DecryptString(v) ==
  IF v.form = "string" /\ v.key = (IF v.ver = 0 THEN current ELSE KeyOrCurrent(v.ver))
  THEN Plain(v.text) ELSE Failed

\* parseVersionBytes decodes what follows the label as hex, which raw bytes are
\* not: the current key is then tried on the label and the bytes together.
DecryptBytes(v) == Failed

\* A short text does not look encrypted.
isEncrypted(v) == v.form # "plain"

EncryptField(c, v) ==
  IF KindOf[c] = "bytes" THEN EncryptBytes(v.text) ELSE EncryptString(v.text)

DecryptField(c, v) ==
  IF ~isEncrypted(v) THEN v
  ELSE IF KindOf[c] = "bytes" THEN DecryptBytes(v) ELSE DecryptString(v)

\* The system starts with one key and with values from before encryption:
\* short plaintext, or ciphertext without a label.
KeyInit ==
  /\ current = 1 /\ versions = <<>> /\ currentVer = FirstFree(<<>>)
  /\ text \in [Cells -> Texts]
  /\ cell \in [Cells -> {Plain(t) : t \in Texts} \cup
                [form: {"string"}, ver: {0}, key: {1}, text: Texts]]
  /\ \A c \in Cells : cell[c].text = text[c] /\ (KindOf[c] = "bytes" => cell[c].form = "plain")
  /\ pass = NoPass /\ saves = 0 /\ overtaken = {} /\ dropped = FALSE

\* A record is saved with its field encrypted.
EncryptFields(c, t) ==
  /\ KindOf[c] # "client" /\ saves < MaxSaves
  /\ cell' = [cell EXCEPT ![c] = EncryptField(c, Plain(t))]
  /\ text' = [text EXCEPT ![c] = t]
  /\ saves' = saves + 1
  /\ overtaken' = overtaken \ {c}
  /\ UNCHANGED <<current, versions, currentVer, pass, dropped>>

\* POST /encrypt: the client keeps the answer.
handleEncrypt(c, t) ==
  /\ KindOf[c] = "client" /\ saves < MaxSaves
  /\ cell' = [cell EXCEPT ![c] = EncryptString(t)]
  /\ text' = [text EXCEPT ![c] = t]
  /\ saves' = saves + 1
  /\ UNCHANGED <<current, versions, currentVer, pass, overtaken, dropped>>

\* Init of the module after the configuration has changed; the process, and a
\* re-encryption in it, starts again.
Configure(key, old) ==
  /\ current' = key /\ versions' = old /\ currentVer' = FirstFree(old)
  /\ pass' = NoPass
  /\ UNCHANGED <<cell, saves, text, overtaken>>

\* The operator's rotation: a new key, the old one filed under its version.
Rotate ==
  /\ current < MaxKeys
  /\ Configure(current + 1, WithEntry(versions, currentVer, current))
  /\ UNCHANGED dropped

\* An old key that seals no stored value is taken out of old_keys.
DropOld(ver) ==
  /\ ver \in DOMAIN versions
  /\ \A c \in Stored : isEncrypted(cell[c]) => cell[c].key # versions[ver]
  /\ Configure(current, Restrict(versions, DOMAIN versions \ {ver}))
  /\ dropped' = TRUE

\* One SELECT ... LIMIT/OFFSET of ReEncryptTable or ReEncryptRows; an empty
\* page ends the pass.
ReadPage(tool, offset) ==
  LET ids == SetToSortSeq(Stored, <)
      page == SubSeq(ids, offset + 1, Min({offset + BatchSize, Len(ids)}))
  IN pass' = IF page = <<>> THEN NoPass
            ELSE [op |-> tool, offset |-> offset,
                  page |-> [i \in DOMAIN page |-> [c |-> page[i], v |-> cell[page[i]]]]]

StartReEncrypt(tool) ==
  /\ pass = NoPass /\ current > 1
  /\ ReadPage(tool, 0)
  /\ UNCHANGED <<current, versions, currentVer, cell, saves, text, overtaken,
                 dropped>>

NextPage ==
  /\ pass # NoPass /\ pass.page = <<>>
  /\ ReadPage(pass.op, pass.offset + BatchSize)
  /\ UNCHANGED <<current, versions, currentVer, cell, saves, text, overtaken,
                 dropped>>

\* The value of a row of the page goes back as it was when the page was read.
WriteBack(c, read, new) ==
  /\ cell' = [cell EXCEPT ![c] = new]
  /\ overtaken' = IF cell[c] = read THEN overtaken ELSE overtaken \cup {c}
  /\ pass' = [pass EXCEPT !.page = Tail(@)]
  /\ UNCHANGED <<current, versions, currentVer, saves, text, dropped>>

\* ReEncryptTable: decrypt, encrypt and save; plaintext is encrypted too, and a
\* value that does not decrypt ends the pass with an error.
ReEncryptTable ==
  /\ pass # NoPass /\ pass.op = "table" /\ pass.page # <<>>
  /\ LET row == Head(pass.page)
         dec == DecryptField(row.c, row.v)
     IN IF dec = Failed
        THEN /\ pass' = NoPass
             /\ UNCHANGED <<current, versions, currentVer, cell, saves, text,
                            overtaken, dropped>>
        ELSE WriteBack(row.c, row.v, EncryptField(row.c, dec))

\* ReEncryptRows: what is no string, looks plain or does not decrypt is skipped.
ReEncryptRows ==
  /\ pass # NoPass /\ pass.op = "rows" /\ pass.page # <<>>
  /\ LET row == Head(pass.page)
         dec == DecryptString(row.v)
     IN IF KindOf[row.c] # "string" \/ ~isEncrypted(row.v) \/ dec = Failed
        THEN /\ pass' = [pass EXCEPT !.page = Tail(@)]
             /\ UNCHANGED <<current, versions, currentVer, cell, saves, text,
                            overtaken, dropped>>
        ELSE WriteBack(row.c, row.v, EncryptString(dec.text))

\* A SELECT or an UPDATE fails, which ends the pass; what it wrote stays.
PassFails ==
  /\ pass # NoPass /\ pass' = NoPass
  /\ UNCHANGED <<current, versions, currentVer, cell, saves, text, overtaken,
                 dropped>>

KeyNext ==
  \/ \E c \in Cells, t \in Texts : EncryptFields(c, t) \/ handleEncrypt(c, t)
  \/ Rotate
  \/ \E ver \in DOMAIN versions : DropOld(ver)
  \/ \E tool \in {"table", "rows"} : StartReEncrypt(tool)
  \/ NextPage \/ ReEncryptTable \/ ReEncryptRows \/ PassFails

KeySpec == KeyInit /\ [][KeyNext]_keyVars

-----------------------------------------------------------------------------
\* As long as the operator keeps every old key, however often the key is
\* rotated and whatever a re-encryption has reached, a string that is stored,
\* or that a client keeps, decrypts to what was last written there
\* (DecryptFields, handleDecrypt); only a write between a page's SELECT and the
\* row's UPDATE is undone by ReEncryptTable and ReEncryptRows.  Ciphertext
\* without a label is out of reach from the first rotation on.
StringsStayReadable ==
  \A c \in Cells :
    KindOf[c] = "bytes" \/ c \in overtaken \/ dropped
    \/ (cell[c].form = "string" /\ cell[c].ver = 0 /\ current > 1)
    \/ DecryptField(c, cell[c]) = Plain(text[c])
=============================================================================
