SPECIFICATION Spec
CONSTANTS
    left = left
    right = right
    month = month
    third = third
    fourth = fourth
    Widgets <- MCWidgets
    Spare <- MCSpare
    Kind <- MCKind
    IdOrder <- MCIdOrder
    Columns = 2
    SmallW = 1
    MaxH = 5
    MaxY = 16
    Rows = 1
    Heights = {1, 5}
    DropRows = {0, 3, 6}
INVARIANTS LayoutInv RowsStayWhole ProjectionsReadable
