--------------------------- MODULE MCVatWarehouse ---------------------------
EXTENDS VatWarehouseProperties, TLC

CONSTANT m1   \* a meter

MCMeterOf == [v \in Vats |-> {m1}]
MCFunds == (m1 :> 2)
=============================================================================
