SPECIFICATION Spec
CONSTANTS
    JournalId = {j1, j2}
    PostingId = {p1, p2, p3, p4}
    Money <- OneDollar
PROPERTIES
    PostedPostingsStay
