SPECIFICATION HdrSpec
CONSTANTS
  TX_BUFF_SIZE = 66
  Addresses <- SomeAddresses
  Macs <- SomeMacs
  Ports <- SomePorts
  Payloads <- SomePayloads
  Octets = {0, 7, 10, 99, 192, 255}
  Bad = Bad
INVARIANT
  AddressesRead
