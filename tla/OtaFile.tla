------------------------------ MODULE OtaFile ------------------------------
(***************************************************************************)
(* The file of COtaFile: how a raw firmware file becomes an OTA image whose  *)
(* last sector describes it, how the image is recognised when it is opened,  *)
(* and which file the dialogs generate and send.  A file is a sequence of    *)
(* bytes; numbers are stored with their low byte first.                     *)
(***************************************************************************)
EXTENDS Integers, Sequences, Bitwise

CONSTANTS
    SECTOR_SIZE,    \* at least the 19 bytes that describe the image and its head
    MIN_FILE_LEN    \* what is shorter is taken as raw: at least a sector

CRC_KEY  == 65535
PAD_CHAR == 255
HEAD_LEN == 16

\* The value that is stored in n bytes.
Stored(value, n) == [i \in 1..n |-> (value \div 256 ^ (i - 1)) % 256]

Fill(byte, n) == [i \in 1..n |-> byte]

\* The 16-bit crc after one more byte: every shift to the left loses what
\* leaves the SHORT.
CrcOfByte(crc, byte) ==
    LET swapped == (crc \div 256 + (crc % 256) * 256) ^^ byte
        low     == swapped ^^ ((swapped % 256) \div 16)
        high    == low ^^ ((low * 4096) % 65536)
    IN  high ^^ ((high % 256) * 32)

CalculateCrc(crc, bytes) ==
    LET after[n \in 0..Len(bytes)] ==
            IF n = 0 THEN crc ELSE CrcOfByte(after[n - 1], bytes[n])
    IN  after[Len(bytes)]

\* The length of an image: whole sectors, and one that describes them.
Allign(rawLen) == ((rawLen + SECTOR_SIZE - 1) \div SECTOR_SIZE + 1) * SECTOR_SIZE

\* The bytes in whole sectors, the last one padded.
InSectors(bytes) ==
    bytes \o Fill(PAD_CHAR, (-Len(bytes)) % SECTOR_SIZE)

\* The last sector: the crc and the length of the code, its version, and a crc
\* of the sector itself.
CrcSector(codeCrc, binLen, ver, filler) ==
    LET fields == Stored(codeCrc, 4) \o Stored(binLen, 4)
                    \o <<ver.main, ver.minor, ver.rev>> \o Stored(ver.build, 4)
        body   == fields \o Fill(filler, SECTOR_SIZE - 4 - Len(fields))
    IN  body \o Stored(CalculateCrc(CRC_KEY, body), 4)

\* The sectors written, padded with whole sectors up to dstLen, of which the
\* last one describes the image: none when there is no room for it.
Completed(sectors, dstLen, last) ==
    LET padSectorCount == (dstLen - Len(sectors)) \div SECTOR_SIZE
    IN  IF padSectorCount = 0 THEN sectors
        ELSE sectors \o Fill(PAD_CHAR, (padSectorCount - 1) * SECTOR_SIZE) \o last

\* The image of a raw file; dstLen is 0 for the shortest, or no shorter than the
\* file's sectors.
ConvertToOta(file, ver, dstLen) ==
    Completed(InSectors(file),
              IF dstLen = 0 THEN Allign(Len(file)) ELSE dstLen,
              CrcSector(CalculateCrc(CRC_KEY, file), Len(file), ver, PAD_CHAR))

\* The image of a raw file for the BLE chip: the first two bytes are dropped,
\* the 16 that follow get a sector of their own with the length of the file.
ConvertToBleOta(file, ver, dstLen) ==
    LET head == InSectors(SubSeq(file, 3, 2 + HEAD_LEN) \o Stored(Len(file), 4))
        code == SubSeq(file, 3 + HEAD_LEN, Len(file))
    IN  Completed(head \o InSectors(code),
                  IF dstLen = 0 THEN Allign(Len(file) + SECTOR_SIZE - 2 - HEAD_LEN)
                                ELSE dstLen,
                  CrcSector(CalculateCrc(CalculateCrc(CRC_KEY, head), code),
                            Len(file), ver, 0))

\* The conversion that leaves the image in the file itself, which nothing calls:
\* it pads with as many bytes as the last sector already has, takes the length of
\* the padding for the file's, and the crc of the padding for the code's.
ConvertInPlace(file, ver, dstLen) ==
    LET padding == Fill(PAD_CHAR, Len(file) % SECTOR_SIZE)
        sectors == ((IF dstLen = 0 THEN Allign(0) ELSE dstLen) - Len(padding)) \div SECTOR_SIZE
        code    == file \o padding \o Fill(PAD_CHAR, (sectors - 1) * SECTOR_SIZE)
    IN  IF sectors = 0 THEN file \o padding
        ELSE code \o CrcSector(CalculateCrc(CRC_KEY, padding), Len(code), ver, PAD_CHAR)

\* What is written at the end of a file, a sector at a time: the data, of which
\* every sector is taken from the beginning again; bytes to pad with; bytes that
\* make it nLen long; another file.
AppendData(file, data) ==
    file \o [i \in 1..Len(data) |-> data[((i - 1) % SECTOR_SIZE) + 1]]
AppendByte(file, pad, nLen) == file \o Fill(pad, nLen)
AppendUpTo(file, pad, nLen) == file \o Fill(pad, nLen - Len(file))
AppendFile(file, other)     == file \o other

\* The crc of a file from a position to its end.
CrcFrom(file, startPos) == CalculateCrc(CRC_KEY, SubSeq(file, startPos + 1, Len(file)))

LastSector(file) == SubSeq(file, Len(file) - SECTOR_SIZE + 1, Len(file))

\* m_isOta of a file that was opened: its last sector has the crc it should have.
IsCrcedFile(file) ==
    /\ Len(file) >= MIN_FILE_LEN
    /\ LET last == LastSector(file)
           body == SubSeq(last, 1, SECTOR_SIZE - 4)
       IN  SubSeq(last, SECTOR_SIZE - 3, SECTOR_SIZE) = Stored(CalculateCrc(CRC_KEY, body), 4)

\* What the last sector says of an image: m_CrcSector.
OtaFileInfo(file) ==
    LET last == LastSector(file)
    IN  [codeCrc |-> SubSeq(last, 1, 4), binLen |-> SubSeq(last, 5, 8),
         main |-> last[9], minor |-> last[10], rev |-> last[11], build |-> SubSeq(last, 12, 15)]

\* The version the dialog shows and lets the user change: an image's own, which
\* may not be changed.
ShownVersion(file, typed) ==
    IF IsCrcedFile(file)
    THEN LET info == OtaFileInfo(file)
         IN  [main |-> info.main, minor |-> info.minor, rev |-> info.rev,
              build |-> info.build, editable |-> FALSE]
    ELSE [main |-> typed.main, minor |-> typed.minor, rev |-> typed.rev,
          build |-> Stored(typed.build, 4), editable |-> TRUE]

\* The file a conversion leaves under the name it is given: none when that file
\* cannot be created.
ConvertCrcedFile(file, ver, created) == IF created THEN {ConvertToOta(file, ver, 0)} ELSE {}
ConvertBleCrcedFile(file, ver, created) ==
    IF created THEN {ConvertToBleOta(file, ver, 0)} ELSE {}

\* The file a click on Generate leaves: none for an image.
Generated(file, ver, created) ==
    IF IsCrcedFile(file) THEN {} ELSE ConvertCrcedFile(file, ver, created)
GeneratedBle(file, ver, created) ==
    IF IsCrcedFile(file) THEN {} ELSE ConvertBleCrcedFile(file, ver, created)

\* The file a click on Download sends: what is not an image is made into one.
Sent(file, ver, created) ==
    IF IsCrcedFile(file) THEN {file} ELSE ConvertCrcedFile(file, ver, created)
SentBle(file, ver, created) ==
    IF IsCrcedFile(file) THEN {file} ELSE ConvertBleCrcedFile(file, ver, created)
=============================================================================
