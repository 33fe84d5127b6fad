SPECIFICATION Spec
CONSTANTS
  PaddingNames = {"reserved"}
  HostOrder = "LittleEndian"
  MaxOnes = 3
INVARIANTS FieldsAreSlices AddressRoundTrip LineAddressesAgree
