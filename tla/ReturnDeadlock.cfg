SPECIFICATION Spec
CONSTANTS
    t1 = t1
    t2 = t2
    t3 = t3
    Transactions = {t1, t2}
    Kinds = {"detect", "dispute"}
    Users = {1, 2}
    Orders = {1, 2, 3}
    Batteries = {1, 2}
    Slots = {1, 2}
    OwnerOf <- Owner
    RentedIn <- Rented
INVARIANT ReturnsSurvive
