SPECIFICATION DeskSpec
CONSTANTS
    Tab = {t1, t2, t3}
    MaxTicket = 3
    NoAnswer = NoAnswer
SYMMETRY TabSymmetry
INVARIANT DeskInv
PROPERTIES DeletedTicketStays ReplacedUnseen
