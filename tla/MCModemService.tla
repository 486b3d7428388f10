--------------------------- MODULE MCModemService ---------------------------
(* The modems, orders and requests of the model-checking run.              *)
EXTENDS ModemService, TLC

CONSTANTS m1, m2

PidSymmetry == Permutations(Pids)

MCOrders == {<<"tty", "net">>, <<"net", "tty">>}

Modem(list, driver, ops) == [list |-> list, driver |-> driver, ops |-> ops]

\* One modem of each type.  Of the hybrid ones, one whose network interface has
\* no driver that get_modem_type knows, and one that has qmi_wwan, as
\* README.ttymodem describes them; of the serial ones, one without an interface
\* of interest and two that get_modem_type takes for another type.
MCModems ==
  { Modem("sierranet", "sierra_net", {"set"}),
    Modem("qmihybrid", "cdc_ether", {"start"}),
    Modem("qmihybrid", "qmi_wwan", {"start"}),
    Modem("qmiwwan", "qmi_wwan", {"stop"}),
    Modem("ncm", "huawei_cdc_ncm", {"stop"}),
    Modem("cdcether", "cdc_ether", {"restart"}),
    Modem("serial", "none", {}),
    Modem("serial", "qmi_wwan", {}),
    Modem("serial", "huawei_cdc_ncm", {}),
    Modem("modemmanager", "cdc_mbim", {"restart"}) }
=============================================================================
