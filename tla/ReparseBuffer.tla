---------------------------- MODULE ReparseBuffer ----------------------------
(***************************************************************************)
(* decodeSymbolicLinkTarget() of core/LinkInspector.cpp up to the copy of  *)
(* the substitute name: what it reads of the bytes that                    *)
(* FSCTL_GET_REPARSE_POINT returned, and what it rejects.  A buffer is its *)
(* size and the values that a read of each field would give; nothing is    *)
(* assumed of how these agree.                                             *)
(***************************************************************************)
EXTENDS Integers

kReparseHeaderSize      == 8
kSymlinkFixedFieldsSize == 12
kPathBufferStart        == kReparseHeaderSize + kSymlinkFixedFieldsSize

UInt16 == 0 .. 65535

Buffer == [size : Nat, isSymlink : BOOLEAN, reparseDataLength : UInt16,
           substituteNameOffset : UInt16, substituteNameLength : UInt16]

pathBufferSize(b)    == b.reparseDataLength - kSymlinkFixedFieldsSize
substituteNameEnd(b) == b.substituteNameOffset + b.substituteNameLength
absoluteOffset(b)    == kPathBufferStart + b.substituteNameOffset

-------------------------------------------------------------------------------
\* How far the function comes, check by check; it ends with std::nullopt where
\* isSymlink is false and with a LinkInspectionError at any other check.
HasHeader(b) == b.size >= kReparseHeaderSize

ReadsLength(b) == HasHeader(b) /\ b.isSymlink

HasFixedFields(b) == /\ ReadsLength(b)
                     /\ kReparseHeaderSize + b.reparseDataLength = b.size
                     /\ b.reparseDataLength >= kSymlinkFixedFieldsSize

IsAligned(b) == /\ HasFixedFields(b)
                /\ b.substituteNameOffset % 2 = 0 /\ b.substituteNameLength % 2 = 0

NameFits(b) == IsAligned(b) /\ substituteNameEnd(b) <= pathBufferSize(b)

\* The check made again from the size of the buffer.
IsRejectedAtLast(b) == NameFits(b) /\ absoluteOffset(b) + b.substituteNameLength > b.size

Decodes(b) == NameFits(b) /\ ~IsRejectedAtLast(b)

\* The reads made, as the offset and size of each.
Read(at, size) == [at |-> at, size |-> size]

Reads(b) ==
  UNION {IF HasHeader(b) THEN {Read(0, 4)} ELSE {},
         IF ReadsLength(b) THEN {Read(4, 2)} ELSE {},
         IF HasFixedFields(b) THEN {Read(8, 2), Read(10, 2), Read(16, 4)} ELSE {},
         IF Decodes(b) THEN {Read(absoluteOffset(b), b.substituteNameLength)} ELSE {}}

\* Bytes of the string that the name is copied to: wchar_t has two.
Allocated(b) == 2 * (b.substituteNameLength \div 2)

-------------------------------------------------------------------------------
\* "No read this function performs can exceed reparseBuffer's bounds"
\* (LinkInspector.h), and the copy fills its string exactly.
ReadsStayInside(b) ==
  /\ \A r \in Reads(b) : r.at + r.size <= b.size
  /\ Decodes(b) => Allocated(b) = b.substituteNameLength

\* The name comes from the path buffer, not from the fields before it, and the
\* unsigned difference that bounds it does not wrap.
NameIsInPathBuffer(b) ==
  /\ IsAligned(b) => pathBufferSize(b) >= 0
  /\ Decodes(b) => absoluteOffset(b) >= kPathBufferStart

\* The last check never fires: the chain of the others is enough.
LastCheckIsRedundant(b) == ~IsRejectedAtLast(b)

\* A symbolic link that the system wrote is never rejected.
AcceptsWellFormed(b) ==
  /\ b.isSymlink
  /\ b.size = kPathBufferStart + pathBufferSize(b) /\ pathBufferSize(b) >= 0
  /\ substituteNameEnd(b) <= pathBufferSize(b)
  /\ b.substituteNameOffset % 2 = 0 /\ b.substituteNameLength % 2 = 0
  => Decodes(b)
===============================================================================
